----------------------------- MODULE MCReports ------------------------------
(***************************************************************************)
(* Two report requests over a journal of five rows on two days, of which   *)
(* the first is archived while they run and the incoming one is refused or *)
(* settled before and after, and small tables of the other kinds; two      *)
(* lines to a page.                                                        *)
(***************************************************************************)
EXTENDS Reports

CONSTANTS p1, p2

Row(id, tab, dir, date, orig, acc, dc, amt, state, type, booked) ==
    [id |-> id, tab |-> tab, dir |-> dir, date |-> date, round |-> date, orig |-> orig,
     acc |-> acc, cur |-> "cny", dc |-> dc, amt |-> amt, state |-> state, type |-> type,
     booked |-> booked, accepted |-> state # "failed"]

MCRows ==
    {Row(1, "jour", "out", 1, "A", "B", "debit", 1, "settled", "t1", 1),
     Row(2, "jour", "out", 1, "A", "C", "credit", 2, "checked", "t2", 1),
     Row(3, "jour", "in", 1, "B", "A", "credit", 4, "settled", "t1", 1),
     Row(3, "jour", "in", 1, "B", "A", "credit", 4, "failed", "t1", 1),
     Row(4, "jour", "in", 2, "C", "A", "credit", 8, "settled", "t1", 2),
     Row(5, "jour", "in", 2, "B", "A", "debit", 16, "failed", "tax", 0)}
MCOther ==
    {Row(11, "query", "in", 1, "B", "A", "debit", 1, "settled", "t1", 0),
     Row(12, "query", "in", 2, "C", "A", "debit", 2, "settled", "t1", 0),
     Row(13, "query", "out", 1, "A", "B", "debit", 1, "settled", "t1", 0),
     Row(14, "mail", "in", 1, "B", "A", "debit", 1, "settled", "t1", 0),
     Row(21, "bag", "out", 1, "A", "B", "debit", 1, "settled", "t1", 0),
     Row(22, "bag", "out", 1, "A", "C", "debit", 2, "settled", "t1", 0),
     Row(23, "bag", "out", 1, "A", "C", "credit", 4, "settled", "t1", 0),
     Row(24, "bag", "in", 1, "B", "A", "credit", 8, "settled", "t1", 0),
     Row(31, "recon", "out", 1, "A", "A", "debit", 1, "settled", "t1", 0),
     Row(32, "branch", "out", 1, "A", "A", "credit", 2, "settled", "t1", 0),
     Row(33, "branch", "out", 2, "B", "B", "credit", 4, "settled", "t1", 0),
     Row(41, "fee", "out", 1, "A", "A", "debit", 1, "charged", "t1", 0),
     Row(42, "fee", "out", 1, "A", "A", "debit", 2, "refused", "t2", 0),
     Row(51, "agreement", "out", 1, "A", "A", "debit", 1, "settled", "t1", 0)}

Q(rep) == [rep |-> rep, org |-> "A", party |-> Unset, from |-> 1, to |-> 1,
           round |-> 0, type |-> Unset, state |-> "all", bankOnly |-> FALSE]
JournalRequests ==
    {[Q("PrintInNoteAdd") EXCEPT !.state = s] : s \in {"unprinted", "printed"}}
    \cup {[Q("PrintInNoteAdd_KS") EXCEPT !.state = "unprinted"]}
    \cup {[Q("PrintInNoteAdd_COP") EXCEPT !.party = "A", !.from = 2]}
    \cup {[Q(rep) EXCEPT !.to = d] : rep \in {"QryOutNote", "QryInNote"}, d \in 1 .. 2}
    \cup {Q(rep) : rep \in {"PrintOutNoteTotal", "PrintInNoteTotal", "PrintOutNoteList",
                            "PrintInNoteList", "PrintNoteTotal_PF"}}
    \cup {[Q("PrintNoteTotal_PF") EXCEPT !.type = "t1"],
          [Q("PrintInNoteList") EXCEPT !.from = 2, !.party = "A"],
          [Q("PF10_781") EXCEPT !.from = 2, !.round = 2]}
OtherRequests ==
    {[Q(rep) EXCEPT !.round = 1] : rep \in {"PrintOutJHD", "PrintOutJJQD", "PrintInJJQD"}}
    \cup {[Q("PrintOutJJQD") EXCEPT !.from = 2, !.round = 1]}
    \cup {[Q(rep) EXCEPT !.state = "unprinted", !.to = 2] :
             rep \in {"PrintInQuery", "QryInQuery", "MailQuery"}}
    \cup {Q(rep) : rep \in {"PrintOutQuery", "QryOutQuery", "QryAgreementList",
                            "PF10_780", "PF10_782"}}
    \cup {[Q("PrintDiffNote") EXCEPT !.bankOnly = b] : b \in BOOLEAN}
    \cup {[Q("PrintDiffNote") EXCEPT !.org = "B", !.from = 2],
          [Q("PrintClearTotal_PF") EXCEPT !.to = 2]}
MCRequests == JournalRequests \cup OtherRequests
MCProxy == [o \in {"A", "B", "C"} |-> "A"]
MCNoteNames == [t \in {"t1", "t2", "tax"} |-> IF t = "t2" THEN 2 ELSE 1]

MCEarly == {r \in MCRows : r.id \notin {3, 4}}
Symmetry == Permutations(Procs)

(* Requests on tables the archive leaves alone are asked while the journal *)
(* stands still; two requests are together when their files can meet; the  *)
(* clock moves before a file is named and while no archive is under way,   *)
(* and the incoming row changes while a request for it is under way.       *)
Together(a, b) ==
    \/ a.rep = b.rep
    \/ {a.rep, b.rep} \cap Temporary = {} /\ Extension(a.rep) = Extension(b.rep)
Apart ==
    LET asked == {p \in Procs : job'[p].at # "idle"}
    IN  /\ (\E p \in asked : job'[p].q \in OtherRequests) =>
               table'["trn"] = Early /\ phase' = "idle" /\ archived' = 0
        /\ \A p, o \in asked : Together(job'[p].q, job'[o].q)
        /\ second' # second => phase = "idle" /\
              \E p \in asked : job[p].at = "select" /\ job[p].q.rep \notin Temporary
        /\ table'["trn"] # table["trn"] /\ Ids(table'["trn"]) = Ids(table["trn"]) =>
              \E p \in asked : /\ job[p].at \notin {"answer", "done"}
                               /\ job[p].q.rep \in Slips \cup {"QryInNote"}
=============================================================================
