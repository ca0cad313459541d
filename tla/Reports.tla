------------------------------ MODULE Reports -------------------------------
(***************************************************************************)
(* Report requests (PF_PRTQRY and the bank's 780, 781, 782) against a      *)
(* journal whose rows arrive, change and are archived meanwhile, and       *)
(* against each other.                                                     *)
(*                                                                         *)
(* A request picks trnjour or htrnjour by the archive date, selects its    *)
(* rows, writes a data file, lets PrintReportList append pages to a result *)
(* file named after the organisation and the second, and some raise the    *)
(* print count of the rows by a statement that repeats the condition of    *)
(* the SELECT.  The requester then fetches the file.  The copy of a row    *)
(* made when a result set is read is the copy in the data file: nothing is *)
(* locked in between.                                                      *)
(***************************************************************************)
EXTENDS ReportForms

CONSTANTS Rows,       \* the versions of rows the journal may come to hold
          Early,      \* those trnjour holds at the start
          Other,      \* those of the tables that are not archived
          Procs,      \* report requests
          Requests,   \* what they may ask for
          LastArchive, LastSecond   \* bounds: days archived, seconds passed

(* The rows of the journal and those of the other tables; days are counted  *)
(* from the first one that is not archived.  A row of trnjour keeps its key *)
(* and what it was entered with; result and clearstate change, and so does  *)
(* how many bookings there are of it.                                       *)
ASSUME ReportsAssumption ==
    /\ Early \subseteq Rows /\ IsFiniteSet(Early) /\ IsFiniteSet(Other)
    /\ \A r \in Rows : r.tab = "jour" /\ r.date \in Nat \ {0}
    /\ \A r \in Other : r.tab # "jour"
    /\ LastArchive \in Nat /\ LastSecond \in Nat
ASSUME VersionsAssumption ==
    /\ \A r, s \in Rows : r.id = s.id =>
          \A c \in {"tab", "dir", "date", "round", "orig", "acc", "cur", "dc", "amt", "type"} :
             r[c] = s[c]
    /\ \A r, s \in Early \cup Other : r.id = s.id => r = s
    /\ \A r \in Rows, s \in Other : r.id # s.id

(* The columns the reports add up: dcflag 1 or 2, the direction, the amount *)
(* in cents; how many bookings a transaction has, and how many rows of      *)
(* noteinfo a fee is joined with.                                           *)
ASSUME ColumnsAssumption ==
    /\ \A r \in Rows \cup Other :
          /\ r.dc \in {"debit", "credit"} /\ r.dir \in {"out", "in"}
          /\ r.amt \in Int /\ r.booked \in Nat
    /\ \A r \in Other : r.tab = "fee" => NoteNames[r.type] \in Nat
    /\ IsFiniteSet(DOMAIN NoteNames)

VARIABLES table,      \* the rows in "trn", "his" and the other tables
          num,        \* printnum: how often a row is marked, in each table
          archived,   \* system parameter ARCHIVEDATE
          phase,      \* how far the archive is
          files,      \* pages of each result file
          second,     \* the day of the month and the time, for file names
          job,        \* each request
          disturbed   \* history: keys of rows something went between

vars == <<table, num, archived, phase, files, second, job, disturbed>>

Slips == {"PrintInNoteAdd", "PrintInNoteAdd_COP", "PrintInNoteAdd_KS"}
NamedFirst == {"PrintOutNoteTotal", "PrintInNoteTotal", "PrintOutNoteList",
               "PrintInNoteList"}
Temporary == {"PrintInQuery", "PrintOutQuery", "PrintOutJHD", "MailQuery",
              "PF10_780", "PF10_781", "PF10_782"}
ByBank == {"PrintOutJHD", "PrintOutJJQD", "PrintInJJQD", "PrintNoteTotal_PF"}
ByArchive == Slips \cup NamedFirst \cup {"QryOutNote", "QryInNote"}
Reporting == Temporary \cup ByBank \cup ByArchive
             \cup {"PrintDiffNote", "PrintClearTotal_PF", "QryOutQuery", "QryInQuery",
                   "QryAgreementList"}
ASSUME RequestsAssumption ==
    /\ IsFiniteSet(Procs)
    /\ \A q \in Requests : q.rep \in Reporting /\ q.from \in Nat /\ q.to \in Nat

Extension(rep) ==
    CASE rep \in Slips -> "add"
      [] rep = "PrintOutNoteTotal" -> "otot" [] rep = "PrintInNoteTotal" -> "itot"
      [] rep = "PrintOutNoteList" -> "olst"  [] rep = "PrintInNoteList" -> "ilst"
      [] rep \in {"PrintOutJJQD", "PrintInJJQD"} -> "jjd"
      [] rep = "PrintDiffNote" -> "dif"      [] rep = "PrintClearTotal_PF" -> "ctpf"
      [] rep = "PrintNoteTotal_PF" -> "ntpf" [] rep = "QryOutNote" -> "out"
      [] rep = "QryInNote" -> "in"           [] rep = "QryOutQuery" -> "oqry"
      [] rep \in {"QryInQuery", "QryAgreementList"} -> "iqry"
NameOfSecond(p, q) == IF q.rep \in Temporary THEN <<"tmp", p, 0>>
                                             ELSE <<Extension(q.rep), "", second>>
NameOf(p, q) == IF q.rep \in Temporary THEN <<"tmp", p, 0>>
                                       ELSE <<Extension(q.rep), q.org, second>>

(* PF_PRTQRY: the condition each transaction code stands for.              *)
Takes(q, part, r, n) ==
    CASE q.rep = "PrintInNoteAdd" -> InNoteAddTakes(q, r, n)
      [] q.rep = "PrintInNoteAdd_COP" -> InNoteAddCOPTakes(q, r, n)
      [] q.rep = "PrintInNoteAdd_KS" -> InNoteAddKSTakes(q, r, n)
      [] q.rep = "PrintOutNoteTotal" -> OutNoteTotalTakes(q, r)
      [] q.rep = "PrintInNoteTotal" -> InNoteTotalTakes(q, r)
      [] q.rep = "PrintOutNoteList" -> OutNoteListTakes(q, r)
      [] q.rep = "PrintInNoteList" -> InNoteListTakes(q, r)
      [] q.rep = "PrintOutJHD" -> OutJHDTakes(q, r)
      [] q.rep = "PrintOutJJQD" -> OutJJQDTakes(q, r)
      [] q.rep = "PrintInJJQD" -> InJJQDTakes(q, r)
      [] q.rep = "PrintDiffNote" ->
           IF part = 1 THEN ClearDiffTakes(q, r) ELSE DiffNoteTakes(q, r)
      [] q.rep = "PrintClearTotal_PF" -> ClearTotalTakes(q, r)
      [] q.rep = "PrintNoteTotal_PF" -> NoteTotalTakes(q, r)
      [] q.rep = "PrintInQuery" -> InQueryTakes(q, r, n)
      [] q.rep = "PrintOutQuery" -> OutQueryTakes(q, r)
      [] q.rep = "QryOutNote" -> QryOutNoteTakes(q, r)
      [] q.rep = "QryInNote" -> QryInNoteTakes(q, r)
      [] q.rep = "QryOutQuery" -> QryOutQueryTakes(q, r)
      [] q.rep = "QryInQuery" -> QryInQueryTakes(q, r, n)
      [] q.rep = "QryAgreementList" -> QryAgreementListTakes(q, r)
      [] q.rep = "MailQuery" -> MailQueryTakes(q, r, n)
      [] q.rep = "PF10_780" -> FeeListTakes(q, r)
      [] q.rep = "PF10_781" -> BankAcctListTakes(q, r)
      [] q.rep = "PF10_782" -> DetailFeeListTakes(q, r)

Sections(q, part, S) ==
    CASE q.rep = "PrintOutNoteTotal" -> PrintOutNoteTotal(S)
      [] q.rep = "PrintInNoteTotal" -> PrintInNoteTotal(S)
      [] q.rep = "PrintOutNoteList" -> PrintOutNoteList(S)
      [] q.rep = "PrintInNoteList" -> PrintInNoteList(S)
      [] q.rep = "PrintDiffNote" -> PrintClearDiff(S)
      [] q.rep = "PrintClearTotal_PF" -> PrintClearTotal_PF(S)
      [] q.rep = "QryOutNote" -> QryOutNote(S)
      [] q.rep = "QryInNote" -> QryInNote(S)
      [] q.rep = "PF10_780" -> PF10_780(S)
      [] q.rep = "PF10_781" -> PF10_781(S)
      [] q.rep = "PF10_782" -> PF10_782(S)
      [] OTHER -> PlainList(S)

(* The table a request reads: by the archive date and the first of its     *)
(* dates, or always the same one.                                          *)
TableForEarlier(q) ==
    CASE q.rep \in ByArchive -> IF q.from < archived THEN "his" ELSE "trn"
      [] q.rep = "PrintNoteTotal_PF" -> "his"
      [] q.rep = "PF10_781" -> "trn"
      [] OTHER -> "other"
TableFor(q) ==
    CASE q.rep \in ByArchive -> IF q.from <= archived THEN "his" ELSE "trn"
      [] q.rep = "PrintNoteTotal_PF" -> "his"
      [] q.rep = "PF10_781" -> "trn"
      [] OTHER -> "other"
Ids(S) == {r.id : r \in S}
Selected(p) == {r \in table[job[p].table] :
                   Takes(job[p].q, job[p].part, r, num[job[p].table][r.id])}

(* Where a row is to be looked for now, for the history variables.         *)
Present == table["trn"] \cup table["his"] \cup table["other"]
Place(r) == IF r \in table["other"] THEN "other"
            ELSE IF r.date <= archived THEN "his" ELSE "trn"
Wanted(q, part) ==
    {r \in Present : r \in table[Place(r)] /\ Takes(q, part, r, num[Place(r)][r.id])}

(* The slips, the letters and the messages are marked.                     *)
Marks(q) == q.rep \in Slips \cup {"MailQuery", "PrintInQuery"}

(* A slip being made; between its SELECT and its UPDATE, and the rows that *)
(* a step brings under the condition of the UPDATE then, or takes from it. *)
Busy(p) == job[p].at \in {"select", "print", "mark"} /\ job[p].q.rep \in Slips
Between(p) == Busy(p) /\ job[p].at # "select"
Turned(P) == UNION {SymDiff(Ids(Selected(p)), Ids(Selected(p))') : p \in {o \in P : Between(o)}}

-----------------------------------------------------------------------------

Idle == [at |-> "idle"]
Init == /\ table = [trn |-> Early, his |-> {}, other |-> Other]
        /\ num = [t \in DOMAIN table |-> [k \in Ids(Rows \cup Other) |-> 0]]
        /\ archived = 0 /\ phase = "idle"
        /\ files = << >> /\ second = 0
        /\ job = [p \in Procs |-> Idle]
        /\ disturbed = {}

(* PF10_781 lists the current day only, and no more once the archive of the *)
(* evening has reset the reconciled round.                                  *)
NotReconciled(q) == q.rep = "PF10_781" /\ q.from <= archived

Ask(p, q) ==
    /\ job[p].at = "idle" /\ ~NotReconciled(q)
    /\ job' = [job EXCEPT ![p] =
         [at |-> "select", q |-> q, table |-> TableFor(q),
          name |-> NameOf(p, q), second |-> second,
          part |-> IF q.rep = "PrintDiffNote" /\ q.org \in Level1 THEN 1 ELSE 2,
          wanted |-> Ids(Wanted(q, 2)), spans |-> q.from <= archived /\ archived < q.to,
          moved |-> phase # "idle", missed |-> {}, sel |-> {}, banks |-> <<>>,
          seen |-> << >>, todo |-> <<>>, out |-> <<>>, got |-> <<>>,
          code |-> "none"]]
    /\ UNCHANGED <<table, num, archived, phase, files, second, disturbed>>

(* The SELECT.  Result files that are not named beforehand are named after *)
(* it, and slips truncate theirs.                                          *)
BankField(q) == IF q.rep = "PrintInJJQD" THEN "orig" ELSE "acc"
NoteTypes(q) == IF q.type = Unset THEN SetToSeq(DOMAIN NoteNames) ELSE <<q.type>>
Fetched(p, S) ==
    LET j == job[p] q == j.q
        k == [j EXCEPT !.sel = @ \cup S,
                       !.missed = {r \in Wanted(q, j.part) : r.id \in j.wanted} \ S,
                       !.name = IF q.rep \in NamedFirst \/ j.out # <<>> THEN @ ELSE NameOf(p, q),
                       !.second = IF q.rep \in NamedFirst \/ j.out # <<>> THEN @ ELSE second]
    IN  CASE q.rep = "PrintNoteTotal_PF" ->
               [k EXCEPT !.at = "bank", !.banks = NoteTypes(q), !.sel = {}, !.missed = {}]
          [] S # {} /\ q.rep \in ByBank \ {"PrintNoteTotal_PF"} ->
               [k EXCEPT !.at = "bank", !.banks = Values(S, BankField(q)), !.sel = {}]
          [] S = {} /\ q.rep \in {"PrintOutJJQD", "PrintInJJQD"} ->
               [k EXCEPT !.at = "print", !.todo = <<Section(<<Blank>>, 1, <<0>>)>>]
          [] S # {} /\ q.rep \notin ByBank ->
               [k EXCEPT !.at = "print", !.todo = Sections(q, j.part, S)]
          [] OTHER -> [k EXCEPT !.at = "done", !.code = "norecord"]
Put(f, name, pages) == [n \in DOMAIN f \cup {name} |-> IF n = name THEN pages ELSE f[n]]
Select(p) ==
    /\ job[p].at = "select"
    /\ job' = [job EXCEPT ![p] = Fetched(p, Selected(p))]
    /\ files' = IF job[p].q.rep \in Slips /\ Selected(p) # {}
                THEN Put(files, job'[p].name, <<>>) ELSE files
    /\ UNCHANGED <<table, num, archived, phase, second, disturbed>>

(* Reports that ask the table again for each bank or note type see what is *)
(* there by then.  A note type asked for alone must have been sent out.    *)
ReadBank(p) ==
    LET j == job[p] q == j.q
        field == IF q.rep = "PrintNoteTotal_PF" THEN "type" ELSE BankField(q)
        b == j.banks[Cardinality(DOMAIN j.seen) + 1]
        S == Having(Selected(p), field, b)
        seen == Put(j.seen, b, S)
        k == [j EXCEPT !.seen = seen, !.sel = @ \cup S]
        form == CASE q.rep = "PrintOutJHD" -> PrintOutJHD(j.banks, seen)
                  [] q.rep = "PrintNoteTotal_PF" -> PrintNoteTotal_PF(j.banks, seen)
                  [] OTHER -> PrintJJQD(j.banks, seen)
    IN  /\ j.at = "bank"
        /\ job' = [job EXCEPT ![p] =
             IF q.rep = "PrintNoteTotal_PF" /\ q.type # Unset /\ Having(S, "dir", "out") = {}
             THEN [j EXCEPT !.at = "done", !.code = "norecord"]
             ELSE IF DOMAIN seen = {j.banks[i] : i \in DOMAIN j.banks}
                  THEN [k EXCEPT !.at = "print", !.todo = form] ELSE k]
        /\ UNCHANGED <<table, num, archived, phase, files, second, disturbed>>

(* A section is put on pages at the end of the result file; the tax slips  *)
(* are written from the start of a file opened before.  The difference     *)
(* note of a head office goes on with its branches unless only its own was *)
(* asked for.                                                              *)
Own(p, pages) == [i \in DOMAIN pages |-> [by |-> p, page |-> pages[i]]]
Output(p) ==
    LET j == job[p]
        s == Head(j.todo)
        rest == Tail(j.todo)
        pages == Own(p, PrintReportList(s))
        old == IF j.name \in DOMAIN files /\ j.q.rep # "PrintInNoteAdd_KS"
               THEN files[j.name] ELSE <<>>
        k == [j EXCEPT !.todo = rest, !.out = Append(@, s)]
    IN  /\ j.at = "print"
        /\ \/ /\ Printable(s)
              /\ files' = Put(files, j.name, old \o pages)
              /\ job' = [job EXCEPT ![p] =
                   IF rest # <<>> THEN k
                   ELSE IF j.q.rep = "PrintDiffNote" /\ j.part = 1 /\ ~j.q.bankOnly
                        THEN [k EXCEPT !.at = "select", !.part = 2]
                        ELSE [k EXCEPT !.at = IF Marks(j.q) THEN "mark" ELSE "answer"]]
           \/ /\ ~Printable(s)
              /\ files' = Put(files, j.name, old)
              /\ job' = [job EXCEPT ![p] = [j EXCEPT !.at = "done", !.code = "error"]]
        /\ UNCHANGED <<table, num, archived, phase, second, disturbed>>

(* The UPDATE, whose condition is evaluated now and whose result nobody    *)
(* looks at.                                                               *)
MarkedOnce(q, n) == 1
Marked(q, n) == IF q.rep \in Slips THEN n + 1 ELSE 1
Leaving == {r \in table["trn"] : r.date <= archived + 1}
Mark(p) ==
    LET j == job[p] t == j.table
        done == [num EXCEPT ![t] = [k \in DOMAIN @ |->
                    IF k \in Ids(Selected(p)) THEN Marked(j.q, @[k]) ELSE @[k]]]
    IN  /\ j.at = "mark"
        /\ job' = [job EXCEPT ![p].at = "answer"]
        /\ UNCHANGED <<table, archived, phase, files, second>>
        /\ \/ /\ num' = done
              /\ disturbed' = disturbed \cup Turned(Procs \ {p})
                   \cup (IF phase = "copied" THEN Ids(Selected(p) \cap Leaving) ELSE {})
           \/ num' = num /\ disturbed' = disturbed \cup Ids(j.sel)

(* The answer names the file, and the requester fetches it.                *)
Answer(p) ==
    /\ job[p].at = "answer"
    /\ job' = [job EXCEPT ![p].at = "done", ![p].code = "ok",
                          ![p].got = files[job[p].name]]
    /\ UNCHANGED <<table, num, archived, phase, files, second, disturbed>>

-----------------------------------------------------------------------------
(* What goes on meanwhile: rows arrive, requests rewrite the result and    *)
(* the clearing state of a row of trnjour (OP_DoFinish, CheckInTrans, the  *)
(* settlement), PF_9999 copies a day to htrnjour, sets ARCHIVEDATE and     *)
(* deletes the day from trnjour, time passes: file names hold the day of   *)
(* the month and the time, so they come back.                              *)

Move == job' = [p \in Procs |->
                  IF job[p].at = "select" THEN [job[p] EXCEPT !.moved = TRUE] ELSE job[p]]
Arrive(r) ==
    /\ r.id \notin Ids(Present) /\ r.date > archived
    /\ phase # "idle" => r.date > archived + 1
    /\ table' = [table EXCEPT !["trn"] = @ \cup {r}]
    /\ UNCHANGED <<num, archived, phase, files, second, job>>
    /\ disturbed' = disturbed \cup Turned(Procs)
Change(r, s) ==
    /\ r \in table["trn"] /\ s.id = r.id /\ s # r
    /\ table' = [table EXCEPT !["trn"] = (@ \ {r}) \cup {s}]
    /\ UNCHANGED <<num, archived, phase, files, second, job>>
    /\ disturbed' = disturbed \cup Turned(Procs)
ArchiveCopy ==
    /\ phase = "idle" /\ archived < LastArchive
    /\ phase' = "copied"
    /\ table' = [table EXCEPT !["his"] = @ \cup Leaving]
    /\ num' = [num EXCEPT !["his"] = [k \in DOMAIN @ |->
                 IF k \in Ids(Leaving) THEN num["trn"][k] ELSE @[k]]]
    /\ Move
    /\ UNCHANGED <<archived, files, second, disturbed>>
ArchiveDate ==
    /\ phase = "copied"
    /\ phase' = "dated" /\ archived' = archived + 1
    /\ disturbed' = disturbed \cup Ids({r \in Leaving : \E p \in Procs :
                       Busy(p) /\ job[p].table = "trn" /\ job[p].q.from = r.date})
    /\ Move
    /\ UNCHANGED <<table, num, files, second>>
ArchiveDelete ==
    /\ phase = "dated"
    /\ phase' = "idle"
    /\ table' = [table EXCEPT !["trn"] = {r \in @ : r.date > archived}]
    /\ Move
    /\ UNCHANGED <<num, archived, files, second, disturbed>>
Tick == /\ second' = (second + 1) % (LastSecond + 1)
        /\ UNCHANGED <<table, num, archived, phase, files, job, disturbed>>

Next == \/ \E p \in Procs : \/ \E q \in Requests : Ask(p, q)
                            \/ Select(p) \/ ReadBank(p) \/ Output(p) \/ Mark(p) \/ Answer(p)
        \/ \E r \in Rows : Arrive(r)
        \/ \E r, s \in Rows : Change(r, s)
        \/ ArchiveCopy \/ ArchiveDate \/ ArchiveDelete \/ Tick
Spec == Init /\ [][Next]_vars

-----------------------------------------------------------------------------

Told(p) == job[p].at = "done" /\ job[p].code = "ok"

(* The slips made for a row, from their UPDATE on.                         *)
Made(p) == (job[p].at = "answer" \/ Told(p)) /\ job[p].q.rep \in Slips
SlipsOf(r) == {p \in Procs : Made(p) /\ r.id \in Ids(job[p].sel)}

(* The marks tell what was printed: a row of trnjour or htrnjour is marked *)
(* as often as slips were made for it, however the row changes and other   *)
(* slips are made meanwhile.  Excepted is just a row that a change, its    *)
(* arrival or another slip's mark brought under the condition of an UPDATE *)
(* or out of it after the SELECT, one whose day the archive date passed    *)
(* under a slip that reads trnjour, one marked in trnjour once it was      *)
(* copied, and one whose UPDATE failed.                                    *)
MarksTellPrints ==
    \A r \in table["trn"] \cup table["his"] : r.id \notin disturbed =>
        num[Place(r)][r.id] = Cardinality(SlipsOf(r))

(* A report misses no row that was there from the request to the SELECT,   *)
(* whether it is archived or not - unless the archive ran in between, or   *)
(* the days asked for lie on both sides of the archive date (only the      *)
(* first day decides), or an archive that is under way.                    *)
ReportComplete ==
    \A p \in Procs : job[p].at # "idle" /\ job[p].missed # {} =>
        job[p].moved \/ job[p].spans

Exact(q, S) ==
    /\ q.rep = "PF10_781" => \A r \in S : r.booked <= 1
    /\ q.rep \in {"PF10_780", "PF10_782"} => \A r \in S : NoteNames[r.type] = 1
PageLinesOf(out) ==
    FlattenSeq([i \in DOMAIN out |-> FlattenSeq([k \in DOMAIN PrintReportList(out[i]) |->
                                        PrintReportList(out[i])[k].lines])])
Foots(out, c) == FoldSeq(LAMBDA s, t : t + s.foot[c], 0, out)
FootTotal(q, out) ==
    CASE q.rep \in {"PrintOutNoteTotal", "PrintInNoteTotal", "PrintClearTotal_PF"} ->
           <<Foots(out, 1) + Foots(out, 3), Foots(out, 2) + Foots(out, 4)>>
      [] q.rep = "PrintNoteTotal_PF" -> <<Foots(out, 5), Foots(out, 6)>>
      [] OTHER -> <<Foots(out, 1), Foots(out, 2)>>
WithFoot == NamedFirst \cup {"PrintClearTotal_PF", "PrintNoteTotal_PF", "QryOutNote",
                             "QryInNote", "PF10_780", "PF10_782"}
Counted(q, S) == IF q.rep \in {"QryOutNote", "QryInNote"} THEN {r \in S : Cleared(r)} ELSE S

(* Every row a report selected is on exactly one line of its pages, and    *)
(* what the footers add up to are those rows (or the settled ones of a     *)
(* query).  Excepted are the list of bookings when a transaction has more  *)
(* than one, and the fee lists when noteinfo names a note type twice.      *)
EveryRowPrinted ==
    \A p \in Procs : Told(p) /\ Exact(job[p].q, job[p].sel) =>
        LET q == job[p].q
            lines == PageLinesOf(job[p].out)
        IN  /\ \A r \in job[p].sel : Cardinality({i \in DOMAIN lines : r \in lines[i].of}) = 1
            /\ q.rep \in WithFoot => FootTotal(q, job[p].out) = Cells(Counted(q, job[p].sel))

(* The file a requester is given holds the pages of its report and nothing *)
(* else, unless another request of the same organisation for a report of   *)
(* the same kind named its file in the same second, of this month or of an *)
(* earlier one.                                                            *)
OwnFile ==
    \A p \in Procs : Told(p) =>
        \/ job[p].got = FlattenSeq([i \in DOMAIN job[p].out |->
                                      Own(p, PrintReportList(job[p].out[i]))])
        \/ \E o \in Procs \ {p} :
             /\ job[o].at # "idle" /\ job[o].q.org = job[p].q.org
             /\ {job[o].q.rep, job[p].q.rep} \cap Temporary = {}
             /\ Extension(job[o].q.rep) = Extension(job[p].q.rep)
             /\ job[o].second = job[p].second
=============================================================================
