----------------------------- MODULE Agreements -----------------------------
(***************************************************************************)
(* Table agreement: what a payer agreed to be debited for.  An agreement   *)
(* is registered and cancelled with the center (XYHREG, XYHCANCEL: the     *)
(* request goes to the center first, outAppMain, and the table follows in  *)
(* OPAdmAfterCommToPH) or with this bank alone (PF_1011, PF_1012).  An     *)
(* inbound debit is checked against the table (ChkAgreement).              *)
(*                                                                         *)
(* The center is external: it accepts or refuses what it receives.         *)
(***************************************************************************)
EXTENDS Naturals

CONSTANTS Ids,       \* agreement ids, the unique index of the table
          Joint,     \* those kept with the center
          Tellers    \* processes that serve the requests

ASSUME AgreementsAssumption == Joint \subseteq Ids

VARIABLES agreement, \* rows: id -> "absent", state "1" or state "2"
          centerHas, \* ids in force at the center
          astage, atask,  \* of each process: point, [op, id]
          split,     \* history: ids whose last request was lost, refused,
                     \* half done, or overlapped by another one
          doubled    \* history: PF_1011 requests whose SELECT failed, or
                     \* that ran at the same time

agreeVars == <<agreement, centerHas, astage, atask, split, doubled>>

NoWork == [op |-> "none", id |-> "none"]
InForce(i) == agreement[i] = "1"

AgreementsInit == /\ agreement = [i \in Ids |-> "absent"]
                  /\ centerHas = {} /\ split = {} /\ doubled = FALSE
                  /\ astage = [p \in Tellers |-> "idle"]
                  /\ atask = [p \in Tellers |-> NoWork]

Goes(p, s) == astage' = [astage EXCEPT ![p] = s] /\ UNCHANGED atask
Leave(p)   == /\ astage' = [astage EXCEPT ![p] = "idle"]
              /\ atask' = [atask EXCEPT ![p] = NoWork]
Put(i, s)  == agreement' = [agreement EXCEPT ![i] = s]

(* Another process works on agreement i. *)
OthersAsk(p, i) == \E q \in Tellers \ {p} : atask[q].id = i
Mark(ids)  == split' = split \cup ids
Overlap(p, i) == IF OthersAsk(p, i) THEN {i} ELSE {}

-----------------------------------------------------------------------------
(* XYHREG and XYHCANCEL: outAppMain sends the request to the center.       *)
Request(p, op, i) ==
    /\ astage[p] = "idle" /\ i \in Joint
    /\ astage' = [astage EXCEPT ![p] = "center"]
    /\ atask' = [atask EXCEPT ![p] = [op |-> op, id |-> i]]
    /\ split' = IF OthersAsk(p, i) THEN split \cup {i} ELSE split \ {i}
    /\ UNCHANGED <<agreement, centerHas, doubled>>

(* The center executes it or refuses it, and its answer arrives or is      *)
(* lost; after a lost call opTCRetcode is E_SYS_COMM_PH and the processing *)
(* goes on, as it does after a refusal.                                    *)
AskCenter(p) ==
    LET i == atask[p].id IN
    /\ astage[p] = "center"
    /\ Goes(p, IF atask[p].op = "XYHREG" THEN "delete" ELSE "cancel")
    /\ \/ /\ centerHas' = IF atask[p].op = "XYHREG" THEN centerHas \cup {i}
                          ELSE centerHas \ {i}
          /\ \E lost \in BOOLEAN : Mark(Overlap(p, i) \cup IF lost THEN {i} ELSE {})
       \/ UNCHANGED centerHas /\ Mark({i})
    /\ UNCHANGED <<agreement, doubled>>

(* OPAdmAfterCommToPH does not look at the center's answer.  Registering   *)
(* deletes the row, whatever comes of it, and inserts it anew.             *)
DeleteAgreement(p) ==
    LET i == atask[p].id IN
    /\ astage[p] = "delete"
    /\ Goes(p, "insert")
    /\ Put(i, "absent") \/ UNCHANGED agreement
    /\ Mark(Overlap(p, i))
    /\ UNCHANGED <<centerHas, doubled>>

\* Mutant: the row is inserted cancelled.
InsertAgreementCancelled(p) ==
    LET i == atask[p].id IN
    /\ astage[p] = "insert"
    /\ Leave(p)
    /\ \/ agreement[i] = "absent" /\ Put(i, "2") /\ Mark(Overlap(p, i))
       \/ UNCHANGED agreement /\ Mark({i})
    /\ UNCHANGED <<centerHas, doubled>>

InsertAgreement(p) ==
    LET i == atask[p].id IN
    /\ astage[p] = "insert"
    /\ Leave(p)
    /\ \/ agreement[i] = "absent" /\ Put(i, "1") /\ Mark(Overlap(p, i))
       \/ UNCHANGED agreement /\ Mark({i})           \* it fails
    /\ UNCHANGED <<centerHas, doubled>>

(* Cancelling sets state 2. *)
CancelAgreement(p) ==
    LET i == atask[p].id IN
    /\ astage[p] = "cancel"
    /\ Leave(p)
    /\ \/ Put(i, IF agreement[i] = "absent" THEN "absent" ELSE "2") /\ Mark(Overlap(p, i))
       \/ UNCHANGED agreement /\ Mark({i})
    /\ UNCHANGED <<centerHas, doubled>>

-----------------------------------------------------------------------------
(* PF_1011: refused when the payer has an agreement for the service (every *)
(* id outside Joint is one for the same service); db_hasrecord finds none  *)
(* also when its SELECT fails.                                             *)
Local == Ids \ Joint

\* Mutant: the SELECT is of the id only.
PF_1011ById(p, i) ==
    /\ astage[p] = "idle" /\ i \in Local
    /\ agreement[i] = "absent"
    /\ astage' = [astage EXCEPT ![p] = "new"]
    /\ atask' = [atask EXCEPT ![p] = [op |-> "PF_1011", id |-> i]]
    /\ doubled' = (doubled \/ \E q \in Tellers : astage[q] = "new")
    /\ UNCHANGED <<agreement, centerHas, split>>

PF_1011(p, i) ==
    /\ astage[p] = "idle" /\ i \in Local
    /\ LET found == \E l \in Local : agreement[l] # "absent" IN
       \/ found /\ UNCHANGED <<astage, atask, doubled>>
       \/ /\ astage' = [astage EXCEPT ![p] = "new"]
          /\ atask' = [atask EXCEPT ![p] = [op |-> "PF_1011", id |-> i]]
          /\ doubled' = (doubled \/ found \/ \E q \in Tellers : astage[q] = "new")
    /\ UNCHANGED <<agreement, centerHas, split>>

InsertLocal(p) ==
    LET i == atask[p].id IN
    /\ astage[p] = "new"
    /\ Leave(p)
    /\ (agreement[i] = "absent" /\ Put(i, "1")) \/ UNCHANGED agreement
    /\ UNCHANGED <<centerHas, split, doubled>>

(* PF_1012: a row that is there is deleted. *)
PF_1012(p, i) ==
    /\ astage[p] = "idle" /\ i \in Local
    /\ agreement[i] # "absent" /\ Put(i, "absent")
    /\ UNCHANGED <<centerHas, astage, atask, split, doubled>>

-----------------------------------------------------------------------------
TellerDies(p) == /\ astage[p] # "idle"
                 /\ Leave(p)
                 /\ Mark({atask[p].id} \cap Joint)
                 /\ UNCHANGED <<agreement, centerHas, doubled>>

AgreementsNext ==
    \E p \in Tellers :
        \/ AskCenter(p) \/ DeleteAgreement(p) \/ InsertAgreement(p) \/ CancelAgreement(p)
        \/ InsertLocal(p) \/ TellerDies(p)
        \/ \E i \in Ids : \/ PF_1011(p, i) \/ PF_1012(p, i)
                          \/ \E op \in {"XYHREG", "XYHCANCEL"} : Request(p, op, i)

AgreementsSpec == AgreementsInit /\ [][AgreementsNext]_agreeVars

(* ChkAgreement: what an inbound debit under agreement i is told. *)
ChkAgreement(i) == CASE agreement[i] = "absent" -> "NOTEXIST"
                     [] agreement[i] = "1"      -> "OK"
                     [] agreement[i] = "2"      -> "CANCEL"

-----------------------------------------------------------------------------
(* Between requests the table and the center agree on which agreements are *)
(* in force, so an inbound debit is accepted exactly under those -- unless *)
(* the last request for the agreement was refused or lost, failed in the   *)
(* table, died or overlapped with another one.  A later request, got       *)
(* through, repairs what they left.                                        *)
AgreementsAgree ==
    \A i \in Joint \ split :
        (\A p \in Tellers : atask[p].id # i) =>
            (ChkAgreement(i) = "OK" <=> i \in centerHas)

(* PF_1011 answers "the agreement exists" so that a payer has one for a    *)
(* service, whatever ids are asked for.                                    *)
OneLocalAgreement ==
    doubled \/ \A i, l \in Local : agreement[i] # "absent" /\ agreement[l] # "absent" => i = l
=============================================================================
