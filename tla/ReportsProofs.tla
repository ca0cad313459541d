---------------------------- MODULE ReportsProofs ----------------------------
(***************************************************************************)
(* Theorems about the report requests, for any journal, any requests and   *)
(* any archive that runs while they do: no row is missed, the print counts *)
(* tell what was printed, every row selected is on one line of the pages   *)
(* and in the footers, and a requester is given its own pages.             *)
(***************************************************************************)
EXTENDS Reports, ReportFormsProofs

TableNames == {"trn", "his", "other"}
Fields == {"at", "q", "table", "name", "second", "part", "wanted", "spans", "moved",
           "missed", "sel", "banks", "seen", "todo", "out", "got", "code"}
InJournal == ByArchive \cup {"PrintNoteTotal_PF", "PF10_781"}

(* Where the rows of the journal are, by how far the archive is: the day    *)
(* being archived is in both tables until it is deleted from trnjour.       *)
TablesInv ==
    /\ table \in [TableNames -> SUBSET (Rows \cup Other)]
    /\ table["trn"] \cup table["his"] \subseteq Rows /\ table["other"] = Other
    /\ archived \in Nat /\ phase \in {"idle", "copied", "dated"}
    /\ phase # "dated" => \A r \in table["trn"] : r.date > archived
    /\ phase # "copied" => \A r \in table["his"] : r.date <= archived
    /\ phase = "copied" =>
          /\ \A r \in table["his"] : r.date <= archived
                \/ (r.id \in Ids(table["trn"]) /\ r.date = archived + 1)
          /\ \A r \in table["trn"] : r.date = archived + 1 => r.id \in Ids(table["his"])
    /\ phase = "dated" =>
          \A r \in table["trn"] : r.date <= archived => r.id \in Ids(table["his"])

(* A row that changes keeps its key and its date.                           *)
LEMMA SameRow ==
    ASSUME NEW r \in Rows, NEW s \in Rows, s.id = r.id
    PROVE  s.date = r.date
BY VersionsAssumption
LEMMA IdsReplaced ==
    ASSUME NEW S, NEW r \in S, NEW s, s.id = r.id
    PROVE  Ids((S \ {r}) \cup {s}) = Ids(S)
BY DEF Ids

LEMMA TablesStep == TablesInv /\ [Next]_vars => TablesInv'
<1> SUFFICES ASSUME TablesInv, [Next]_vars PROVE TablesInv'
  OBVIOUS
<1>0. \A r \in Rows : r.date \in Nat
  BY ReportsAssumption
<1>1. CASE UNCHANGED <<table, archived, phase>>
  BY <1>1 DEF TablesInv
<1>2. ASSUME NEW r \in Rows, Arrive(r) PROVE TablesInv'
  BY <1>0, <1>2 DEF Arrive, TablesInv, TableNames, Ids
<1>7. ASSUME NEW r \in Rows, NEW s \in Rows, Change(r, s) PROVE TablesInv'
  <2>1. /\ r \in table["trn"] /\ s.id = r.id /\ s.date = r.date
        /\ table'["trn"] = (table["trn"] \ {r}) \cup {s}
        /\ table'["his"] = table["his"] /\ table'["other"] = table["other"]
        /\ table' \in [TableNames -> SUBSET (Rows \cup Other)]
        /\ UNCHANGED <<archived, phase>>
    BY <1>7, SameRow DEF Change, TablesInv, TableNames
  <2>2. Ids(table'["trn"]) = Ids(table["trn"])
    BY <2>1, IdsReplaced
  <2> QED BY <1>0, <2>1, <2>2 DEF TablesInv
<1>3. CASE ArchiveCopy
  <2>1. /\ table'["trn"] = table["trn"] /\ table'["his"] = table["his"] \cup Leaving
        /\ table'["other"] = table["other"]
        /\ table' \in [TableNames -> SUBSET (Rows \cup Other)]
        /\ phase = "idle" /\ phase' = "copied" /\ archived' = archived
    BY <1>3 DEF ArchiveCopy, Leaving, TablesInv, TableNames
  <2>2. \A r \in Leaving : r \in table["trn"] /\ r.id \in Ids(table["trn"])
    BY DEF Leaving, Ids
  <2>3. \A r \in table["trn"] : r.date = archived + 1 => r.id \in Ids(table'["his"])
    BY <1>0, <2>1 DEF Ids, Leaving, TablesInv
  <2> QED BY <1>0, <2>1, <2>2, <2>3 DEF TablesInv, Leaving
<1>4. CASE ArchiveDate
  BY <1>0, <1>4 DEF ArchiveDate, TablesInv, TableNames
<1>5. CASE ArchiveDelete
  BY <1>0, <1>5 DEF ArchiveDelete, TablesInv, TableNames
<1>6. ASSUME NEW p \in Procs,
             \/ \E q \in Requests : Ask(p, q)
             \/ Select(p) \/ ReadBank(p) \/ Output(p) \/ Mark(p) \/ Answer(p)
      PROVE  UNCHANGED <<table, archived, phase>>
  BY <1>6 DEF Ask, Select, ReadBank, Output, Mark, Answer
<1> QED BY <1>1, <1>2, <1>3, <1>4, <1>5, <1>6, <1>7 DEF Next, Tick, vars

(* What the conditions of the reports have in common: the journal's reports *)
(* take rows of the journal, of the days they are asked for.                *)
LEMMA TakesMeans ==
    ASSUME NEW q \in Requests, NEW part, NEW r, NEW n, Takes(q, part, r, n)
    PROVE  /\ r.tab = "jour" <=> q.rep \in InJournal
           /\ q.rep \in ByArchive => r.date = q.from \/ (q.from <= r.date /\ r.date <= q.to)
           /\ q.rep \in Slips \cup {"PF10_781"} => r.date = q.from
<1>1. q.rep \in Reporting
  BY RequestsAssumption
<1>2. CASE q.rep \in Slips
  BY <1>2 DEF Takes, Slips, InJournal, ByArchive, NamedFirst, InNoteAddTakes, InNoteAddCOPTakes, InNoteAddKSTakes
<1>3. CASE q.rep \in NamedFirst
  BY <1>3 DEF Takes, Slips, InJournal, ByArchive, NamedFirst, OutNoteTotalTakes,
     InNoteTotalTakes, OutNoteListTakes, InNoteListTakes
<1>4. CASE q.rep \in {"QryOutNote", "QryInNote", "PrintNoteTotal_PF", "PF10_781"}
  BY <1>4 DEF Takes, Slips, InJournal, ByArchive, NamedFirst, QryOutNoteTakes,
     QryInNoteTakes, NoteTotalTakes, BankAcctListTakes, Within
<1>5. CASE q.rep \in {"PrintInQuery", "PrintOutQuery", "MailQuery", "QryOutQuery",
                      "QryInQuery", "QryAgreementList"}
  BY <1>5 DEF Takes, Slips, InJournal, ByArchive, NamedFirst, InQueryTakes, OutQueryTakes,
     MailQueryTakes, QryOutQueryTakes, QryInQueryTakes, QryAgreementListTakes
<1>6. CASE q.rep \in {"PrintOutJHD", "PrintOutJJQD", "PrintInJJQD"}
  BY <1>6 DEF Takes, Slips, InJournal, ByArchive, NamedFirst, OutJHDTakes, OutJJQDTakes,
     InJJQDTakes
<1>7. CASE q.rep \in {"PrintDiffNote", "PrintClearTotal_PF", "PF10_780", "PF10_782"}
  BY <1>7 DEF Takes, Slips, InJournal, ByArchive, NamedFirst, ClearDiffTakes,
     DiffNoteTakes, ClearTotalTakes, FeeListTakes, DetailFeeListTakes
<1> QED BY <1>1, <1>2, <1>3, <1>4, <1>5, <1>6, <1>7 DEF Reporting, Temporary, ByBank, ByArchive

-----------------------------------------------------------------------------
(* What a request keeps from the time it was asked, and the table it reads  *)
(* as long as the archive has not moved: the one where its rows are.        *)
Asked(j) ==
    /\ DOMAIN j = Fields
    /\ j.at \in {"select", "bank", "print", "mark", "answer", "done"}
    /\ j.q \in Requests /\ j.table \in TableNames
    /\ j.q.rep \notin InJournal => j.table = "other"
    /\ j.q.rep \in InJournal => j.table \in {"trn", "his"}
    /\ j.at = "bank" => j.q.rep \in ByBank
    /\ j.at = "mark" => Marks(j.q)
    /\ j.at = "select" /\ j.q.rep \in Slips => j.sel = {}
Settled(j) ==
    j.at = "select" /\ ~j.moved /\ j.q.rep \in InJournal =>
        /\ phase = "idle" /\ j.table = TableFor(j.q)
        /\ j.spans <=> j.q.from <= archived /\ archived < j.q.to
        /\ j.q.rep = "PF10_781" => j.q.from > archived
Missing(j) == j.missed # {} => j.moved \/ j.spans
JobInv ==
    /\ DOMAIN job = Procs
    /\ \A p \in Procs : job[p] = Idle \/ (Asked(job[p]) /\ Settled(job[p]) /\ Missing(job[p]))

(* A SELECT in the table of the request's own days misses none of the rows  *)
(* that were to be found anywhere.                                          *)
LEMMA SelectMissesNone ==
    ASSUME TablesInv, NEW p \in Procs, Asked(job[p]), Settled(job[p]),
           job[p].at = "select", ~job[p].moved, ~job[p].spans,
           job[p].q.rep # "PrintNoteTotal_PF"
    PROVE  Wanted(job[p].q, job[p].part) \subseteq Selected(p)
<1> DEFINE j == job[p]  q == j.q
<1> SUFFICES ASSUME NEW r \in Present, Takes(q, j.part, r, num[Place(r)][r.id])
             PROVE  r \in table[j.table] /\ Place(r) = j.table
  BY DEF Wanted, Selected
<1>1. /\ q \in Requests
      /\ r.tab = "jour" <=> q.rep \in InJournal
      /\ q.rep \in ByArchive => r.date = q.from \/ (q.from <= r.date /\ r.date <= q.to)
      /\ q.rep \in Slips \cup {"PF10_781"} => r.date = q.from
  <2>1. q \in Requests
    BY DEF Asked
  <2> QED BY <2>1, TakesMeans
<1>2. r \in Rows \/ r \in Other
  BY DEF TablesInv, Present
<1>3. CASE q.rep \notin InJournal
  <2>1. r \in Other /\ j.table = "other"
    BY <1>1, <1>2, <1>3, ReportsAssumption DEF Asked
  <2> QED BY <2>1 DEF TablesInv, Place
<1>4. CASE q.rep \in InJournal
  <2>1. r \in Rows /\ r \notin Other /\ r.date \in Nat
    BY <1>1, <1>2, <1>4, ReportsAssumption
  <2>2. /\ phase = "idle" /\ j.table = TableFor(q)
        /\ ~(q.from <= archived /\ archived < q.to)
        /\ q.rep = "PF10_781" => q.from > archived
    BY <1>4 DEF Settled
  <2>3. /\ r \in table["trn"] \/ r \in table["his"]
        /\ r \in table["trn"] => r.date > archived
        /\ r \in table["his"] => r.date <= archived
        /\ archived \in Nat /\ r \notin table["other"]
    BY <2>1, <2>2 DEF TablesInv, Present
  <2>4. r \in table[Place(r)]
    BY <2>1, <2>3 DEF Place
  <2>5. q.from \in Nat /\ q.to \in Nat
    BY <1>1, RequestsAssumption
  <2>6. CASE q.rep \in ByArchive
    <3>1. r.date = q.from \/ (q.from <= r.date /\ r.date <= q.to)
      BY <1>1, <2>6
    <3>2. r.date <= archived <=> q.from <= archived
      BY <3>1, <2>1, <2>2, <2>3, <2>5
    <3>3. j.table = IF q.from <= archived THEN "his" ELSE "trn"
      BY <2>2, <2>6 DEF TableFor, ByArchive, Slips, NamedFirst
    <3> QED BY <2>3, <2>4, <3>2, <3>3 DEF Place
  <2>7. CASE q.rep = "PF10_781"
    <3>1. r.date = q.from
      BY <1>1, <2>7
    <3>2. j.table = "trn"
      BY <2>2, <2>7 DEF TableFor, ByArchive, Slips, NamedFirst
    <3>3. r.date > archived
      BY <2>2, <2>7, <3>1
    <3>4. Place(r) = "trn"
      BY <2>1, <2>3, <3>3 DEF Place
    <3> QED BY <2>4, <3>2, <3>4
  <2> QED BY <1>4, <2>6, <2>7 DEF InJournal
<1> QED BY <1>3, <1>4

-----------------------------------------------------------------------------
(* What a step of a request does to it.                                     *)
OnlyThis(p) == DOMAIN job' = Procs /\ \A o \in Procs \ {p} : job'[o] = job[o]
Keeps(j, k) == /\ DOMAIN k = Fields
               /\ k.q = j.q /\ k.table = j.table /\ k.moved = j.moved /\ k.spans = j.spans

LEMMA FetchedKeeps ==
    ASSUME NEW p, DOMAIN job[p] = Fields, NEW S
    PROVE  LET j == job[p] k == Fetched(p, S)
           IN  /\ Keeps(j, k)
               /\ k.at \in {"bank", "print", "done"}
               /\ k.at = "bank" => j.q.rep \in ByBank
               /\ k.at = "done" => k.code = "norecord"
               /\ j.q.rep = "PrintNoteTotal_PF" => k.missed = {}
               /\ k.missed \subseteq Wanted(j.q, j.part) \ S
               /\ j.q.rep \in Slips => k.sel = j.sel \cup S
<1> DEFINE j == job[p]  q == j.q
           n == IF q.rep \in NamedFirst \/ j.out # <<>> THEN j.name ELSE NameOf(p, q)
           c == IF q.rep \in NamedFirst \/ j.out # <<>> THEN j.second ELSE second
           m == {r \in Wanted(q, j.part) : r.id \in j.wanted} \ S
           k == [j EXCEPT !.sel = @ \cup S, !.missed = m, !.name = n, !.second = c]
           b1 == NoteTypes(q)
           b2 == Values(S, BankField(q))
           t1 == <<Section(<<Blank>>, 1, <<0>>)>>
           t2 == Sections(q, j.part, S)
<1>1. Fetched(p, S) =
          CASE q.rep = "PrintNoteTotal_PF" ->
               [k EXCEPT !.at = "bank", !.banks = b1, !.sel = {}, !.missed = {}]
          [] S # {} /\ q.rep \in ByBank \ {"PrintNoteTotal_PF"} ->
               [k EXCEPT !.at = "bank", !.banks = b2, !.sel = {}]
          [] S = {} /\ q.rep \in {"PrintOutJJQD", "PrintInJJQD"} ->
               [k EXCEPT !.at = "print", !.todo = t1]
          [] S # {} /\ q.rep \notin ByBank ->
               [k EXCEPT !.at = "print", !.todo = t2]
          [] OTHER -> [k EXCEPT !.at = "done", !.code = "norecord"]
  BY DEF Fetched
<1>2. Keeps(j, k) /\ k.missed = m /\ k.sel = j.sel \cup S
  <2> HIDE DEF n, c, m
  <2> QED BY DEF Keeps, Fields
<1>3. m \subseteq Wanted(q, j.part) \ S
  OBVIOUS
<1> HIDE DEF k, m, n, c, b1, b2, t1, t2
<1>4. CASE q.rep = "PrintNoteTotal_PF"
  <2>1. Fetched(p, S) = [k EXCEPT !.at = "bank", !.banks = b1, !.sel = {}, !.missed = {}]
    BY <1>1, <1>4 DEF ByBank
  <2> QED BY <1>2, <1>4, <2>1 DEF Keeps, Fields, ByBank, Slips
<1>5. CASE q.rep # "PrintNoteTotal_PF" /\ S # {} /\ q.rep \in ByBank
  <2>1. Fetched(p, S) = [k EXCEPT !.at = "bank", !.banks = b2, !.sel = {}]
    BY <1>1, <1>5
  <2> QED BY <1>2, <1>3, <1>5, <2>1 DEF Keeps, Fields, ByBank, Slips
<1>6. CASE q.rep # "PrintNoteTotal_PF" /\ S = {} /\ q.rep \in {"PrintOutJJQD", "PrintInJJQD"}
  <2>1. Fetched(p, S) = [k EXCEPT !.at = "print", !.todo = t1]
    BY <1>1, <1>6
  <2> QED BY <1>2, <1>3, <1>6, <2>1 DEF Keeps, Fields, Slips
<1>7. CASE S # {} /\ q.rep \notin ByBank
  <2>1. Fetched(p, S) = [k EXCEPT !.at = "print", !.todo = t2]
    BY <1>1, <1>7 DEF ByBank
  <2> QED BY <1>2, <1>3, <1>7, <2>1 DEF Keeps, Fields, ByBank
<1>8. CASE q.rep # "PrintNoteTotal_PF" /\ S = {} /\ q.rep \notin {"PrintOutJJQD", "PrintInJJQD"}
  <2>1. Fetched(p, S) = [k EXCEPT !.at = "done", !.code = "norecord"]
    BY <1>1, <1>8
  <2> QED BY <1>2, <1>3, <1>8, <2>1 DEF Keeps, Fields
<1> QED BY <1>4, <1>5, <1>6, <1>7, <1>8

LEMMA SelectKeeps ==
    ASSUME DOMAIN job = Procs, NEW p \in Procs, DOMAIN job[p] = Fields, Select(p)
    PROVE  /\ OnlyThis(p) /\ job'[p] = Fetched(p, Selected(p))
           /\ UNCHANGED <<table, num, archived, phase, disturbed>>
BY DEF Select, OnlyThis

LEMMA ReadBankKeeps ==
    ASSUME DOMAIN job = Procs, NEW p \in Procs, DOMAIN job[p] = Fields, ReadBank(p)
    PROVE  /\ OnlyThis(p) /\ Keeps(job[p], job'[p]) /\ job[p].at = "bank"
           /\ job'[p].at \in {"bank", "print", "done"}
           /\ job'[p].missed = job[p].missed
           /\ UNCHANGED <<table, num, archived, phase, disturbed>>
<1> DEFINE j == job[p]  q == j.q
           field == IF q.rep = "PrintNoteTotal_PF" THEN "type" ELSE BankField(q)
           b == j.banks[Cardinality(DOMAIN j.seen) + 1]
           S == Having(Selected(p), field, b)
           seen == Put(j.seen, b, S)
           k == [j EXCEPT !.seen = seen, !.sel = @ \cup S]
           form == CASE q.rep = "PrintOutJHD" -> PrintOutJHD(j.banks, seen)
                     [] q.rep = "PrintNoteTotal_PF" -> PrintNoteTotal_PF(j.banks, seen)
                     [] OTHER -> PrintJJQD(j.banks, seen)
           c == q.rep = "PrintNoteTotal_PF" /\ q.type # Unset /\ Having(S, "dir", "out") = {}
           d == DOMAIN seen = {j.banks[i] : i \in DOMAIN j.banks}
           e == IF c THEN [j EXCEPT !.at = "done", !.code = "norecord"]
                ELSE IF d THEN [k EXCEPT !.at = "print", !.todo = form] ELSE k
<1>1. /\ j.at = "bank" /\ job' = [job EXCEPT ![p] = e]
      /\ UNCHANGED <<table, num, archived, phase, disturbed>>
  BY DEF ReadBank
<1>2. Keeps(j, k) /\ k.at = j.at /\ k.missed = j.missed
  <2> HIDE DEF S, seen
  <2> QED BY DEF Keeps, Fields
<1>3. Keeps(j, e) /\ e.at \in {"bank", "print", "done"} /\ e.missed = j.missed
  <2> HIDE DEF k, form, c, d
  <2> QED BY <1>1, <1>2 DEF Keeps, Fields
<1> HIDE DEF e
<1> QED BY <1>1, <1>3 DEF OnlyThis

LEMMA OutputKeeps ==
    ASSUME DOMAIN job = Procs, NEW p \in Procs, DOMAIN job[p] = Fields, Output(p)
    PROVE  /\ OnlyThis(p) /\ Keeps(job[p], job'[p]) /\ job[p].at = "print"
           /\ job'[p].missed = job[p].missed /\ job'[p].sel = job[p].sel
           /\ \/ job'[p].at = "print"
              \/ job'[p].at = "select" /\ job[p].q.rep = "PrintDiffNote"
              \/ job'[p].at = "mark" /\ Marks(job[p].q)
              \/ job'[p].at = "answer" /\ ~Marks(job[p].q)
              \/ job'[p].at = "done" /\ job'[p].code = "error"
           /\ UNCHANGED <<table, num, archived, phase, disturbed>>
<1> DEFINE j == job[p]
           s == Head(j.todo)
           rest == Tail(j.todo)
           k == [j EXCEPT !.todo = rest, !.out = Append(@, s)]
           d == j.q.rep = "PrintDiffNote" /\ j.part = 1 /\ ~j.q.bankOnly
           e == IF rest # <<>> THEN k
                ELSE IF d THEN [k EXCEPT !.at = "select", !.part = 2]
                ELSE [k EXCEPT !.at = IF Marks(j.q) THEN "mark" ELSE "answer"]
           f == [j EXCEPT !.at = "done", !.code = "error"]
<1>1. /\ j.at = "print"
      /\ job' = [job EXCEPT ![p] = e] \/ job' = [job EXCEPT ![p] = f]
      /\ UNCHANGED <<table, num, archived, phase, disturbed>>
  BY DEF Output
<1>2. Keeps(j, k) /\ k.at = j.at /\ k.missed = j.missed /\ k.sel = j.sel
  <2> HIDE DEF rest, s
  <2> QED BY DEF Keeps, Fields
<1>3. ASSUME job' = [job EXCEPT ![p] = e] PROVE OnlyThis(p) /\ job'[p] = e
  <2> HIDE DEF e
  <2> QED BY <1>3 DEF OnlyThis
<1>4. ASSUME job' = [job EXCEPT ![p] = f] PROVE OnlyThis(p) /\ job'[p] = f
  <2> HIDE DEF f
  <2> QED BY <1>4 DEF OnlyThis
<1>5. Keeps(j, e) /\ e.missed = j.missed /\ e.sel = j.sel
  <2> HIDE DEF k, rest
  <2> QED BY <1>1, <1>2 DEF Keeps, Fields
<1>6. \/ e.at = "print"
      \/ e.at = "select" /\ j.q.rep = "PrintDiffNote"
      \/ e.at = "mark" /\ Marks(j.q)
      \/ e.at = "answer" /\ ~Marks(j.q)
  <2> HIDE DEF k, rest
  <2> QED BY <1>1, <1>2 DEF Keeps, Fields
<1>7. Keeps(j, f) /\ f.missed = j.missed /\ f.sel = j.sel /\ f.at = "done" /\ f.code = "error"
  BY DEF Keeps, Fields
<1> HIDE DEF e, f
<1> QED BY <1>1, <1>3, <1>4, <1>5, <1>6, <1>7

LEMMA MarkKeeps ==
    ASSUME DOMAIN job = Procs, NEW p \in Procs, DOMAIN job[p] = Fields, Mark(p)
    PROVE  /\ OnlyThis(p) /\ Keeps(job[p], job'[p]) /\ job[p].at = "mark"
           /\ job'[p].at = "answer" /\ job'[p].missed = job[p].missed
           /\ job'[p].sel = job[p].sel
           /\ UNCHANGED <<table, archived, phase>>
<1> DEFINE k == [job[p] EXCEPT !.at = "answer"]
<1>1. job' = [job EXCEPT ![p] = k] /\ job[p].at = "mark" /\ UNCHANGED <<table, archived, phase>>
  BY DEF Mark
<1>2. Keeps(job[p], k) /\ k.at = "answer" /\ k.missed = job[p].missed /\ k.sel = job[p].sel
  BY DEF Keeps, Fields
<1> HIDE DEF k
<1> QED BY <1>1, <1>2 DEF OnlyThis

LEMMA AnswerKeeps ==
    ASSUME DOMAIN job = Procs, NEW p \in Procs, DOMAIN job[p] = Fields, Answer(p)
    PROVE  /\ OnlyThis(p) /\ Keeps(job[p], job'[p]) /\ job[p].at = "answer"
           /\ job'[p].at = "done" /\ job'[p].code = "ok"
           /\ job'[p].missed = job[p].missed /\ job'[p].sel = job[p].sel
           /\ UNCHANGED <<table, num, archived, phase, disturbed>>
<1> DEFINE g == files[job[p].name]
           k == [job[p] EXCEPT !.at = "done", !.code = "ok", !.got = g]
<1>1. /\ job' = [job EXCEPT ![p] = k] /\ job[p].at = "answer"
      /\ UNCHANGED <<table, num, archived, phase, disturbed>>
  BY DEF Answer
<1>2. Keeps(job[p], k) /\ k.at = "done" /\ k.code = "ok" /\ k.missed = job[p].missed
      /\ k.sel = job[p].sel
  <2> HIDE DEF g
  <2> QED BY DEF Keeps, Fields
<1> HIDE DEF k
<1> QED BY <1>1, <1>2 DEF OnlyThis

LEMMA JobKept ==
    ASSUME JobInv, NEW p \in Procs, OnlyThis(p), UNCHANGED <<table, archived, phase>>,
           Asked(job[p]), Missing(job[p]), Keeps(job[p], job'[p]),
           job'[p].missed = job[p].missed,
           \/ job'[p].at \in {"print", "answer", "done"}
           \/ job'[p].at = "bank" /\ job[p].q.rep \in ByBank
           \/ job'[p].at = "mark" /\ Marks(job[p].q)
           \/ job'[p].at = "select" /\ job[p].q.rep = "PrintDiffNote"
    PROVE  JobInv'
<1>1. Asked(job'[p])
  BY DEF Keeps, Asked, Fields, Slips
<1>2. Settled(job[p])' /\ Missing(job'[p])
  BY DEF Keeps, Missing, Settled, InJournal, ByArchive, Slips, NamedFirst
<1>3. \A o \in Procs \ {p} : Settled(job[o]) => Settled(job[o])'
  BY DEF OnlyThis, Settled, TableFor
<1> QED BY <1>1, <1>2, <1>3 DEF JobInv, OnlyThis

LEMMA AskedIsOK ==
    ASSUME TablesInv, NEW p \in Procs, NEW q \in Requests, Ask(p, q), DOMAIN job = Procs
    PROVE  /\ OnlyThis(p) /\ UNCHANGED <<table, num, archived, phase, disturbed>>
           /\ Asked(job'[p]) /\ Settled(job[p])' /\ job'[p].missed = {}
           /\ job'[p].at = "select" /\ job'[p].q = q /\ job'[p].sel = {}
<1> DEFINE n == NameOf(p, q)
           a == IF q.rep = "PrintDiffNote" /\ q.org \in Level1 THEN 1 ELSE 2
           w == Ids(Wanted(q, 2))
           s == q.from <= archived /\ archived < q.to
           m == phase # "idle"
           t == TableFor(q)
           k == [at |-> "select", q |-> q, table |-> t,
                 name |-> n, second |-> second, part |-> a, wanted |-> w, spans |-> s,
                 moved |-> m, missed |-> {}, sel |-> {}, banks |-> <<>>,
                 seen |-> << >>, todo |-> <<>>, out |-> <<>>, got |-> <<>>,
                 code |-> "none"]
<1>1. /\ job' = [job EXCEPT ![p] = k] /\ ~NotReconciled(q)
      /\ UNCHANGED <<table, num, archived, phase, disturbed>>
  BY DEF Ask
<1>2. /\ DOMAIN k = Fields /\ k.at = "select" /\ k.q = q /\ k.table = t /\ k.missed = {}
      /\ k.sel = {} /\ k.moved = m /\ k.spans = s
  <2> HIDE DEF n, a, w, s, m, t
  <2> QED BY DEF Fields
<1>3. q.rep \in Reporting /\ q.from \in Nat
  BY RequestsAssumption
<1>4. /\ t \in TableNames
      /\ q.rep \notin InJournal => t = "other"
      /\ q.rep \in InJournal => t \in {"trn", "his"}
  BY DEF TableFor, TableNames, InJournal, ByArchive, Slips, NamedFirst
<1>5. q.rep = "PF10_781" => q.from > archived
  BY <1>1, <1>3 DEF NotReconciled, TablesInv
<1> HIDE DEF k
<1>6. OnlyThis(p) /\ job'[p] = k
  BY <1>1 DEF OnlyThis
<1>7. Asked(k)
  BY <1>2, <1>4 DEF Asked
<1>8. Settled(job[p])'
  BY <1>1, <1>2, <1>5, <1>6 DEF Settled, TableFor
<1> QED BY <1>1, <1>2, <1>6, <1>7, <1>8

LEMMA JobStep == TablesInv /\ JobInv /\ [Next]_vars => JobInv'
<1> SUFFICES ASSUME TablesInv, JobInv, [Next]_vars PROVE JobInv'
  OBVIOUS
<1>0. DOMAIN job = Procs
  BY DEF JobInv
<1>1. ASSUME NEW p \in Procs, NEW q \in Requests, Ask(p, q) PROVE JobInv'
  <2>1. /\ OnlyThis(p) /\ UNCHANGED <<table, archived, phase>>
        /\ Asked(job'[p]) /\ Settled(job[p])' /\ job'[p].missed = {}
    BY <1>0, <1>1, AskedIsOK
  <2>2. \A o \in Procs \ {p} : Settled(job[o]) => Settled(job[o])'
    BY <2>1 DEF OnlyThis, Settled, TableFor
  <2> QED BY <2>1, <2>2 DEF JobInv, OnlyThis, Missing
<1>2. ASSUME NEW p \in Procs,
             Select(p) \/ ReadBank(p) \/ Output(p) \/ Mark(p) \/ Answer(p)
      PROVE  Asked(job[p]) /\ Settled(job[p]) /\ Missing(job[p]) /\ DOMAIN job[p] = Fields
  <2>1. job[p].at # "idle"
    BY <1>2 DEF Select, ReadBank, Output, Mark, Answer
  <2> QED BY <2>1 DEF JobInv, Idle, Asked
<1>3. ASSUME NEW p \in Procs, Select(p) PROVE JobInv'
  <2> DEFINE S == Selected(p)
             j == job[p]
             k == Fetched(p, S)
  <2>1. OnlyThis(p) /\ job'[p] = k /\ UNCHANGED <<table, num, archived, phase>> /\ j.at = "select"
    BY <1>0, <1>2, <1>3, SelectKeeps DEF Select
  <2>2. /\ Keeps(j, k)
        /\ k.at \in {"bank", "print", "done"}
        /\ k.at = "bank" => j.q.rep \in ByBank
        /\ j.q.rep = "PrintNoteTotal_PF" => k.missed = {}
        /\ k.missed \subseteq Wanted(j.q, j.part) \ S
    BY <1>2, <1>3, FetchedKeeps
  <2>3. Missing(k)
    <3> SUFFICES ASSUME k.missed # {}, ~j.moved, ~j.spans PROVE FALSE
      BY <2>2 DEF Missing, Keeps
    <3>1. j.q.rep # "PrintNoteTotal_PF"
      BY <2>2
    <3>2. Wanted(j.q, j.part) \subseteq S
      BY <1>2, <1>3, <2>1, <3>1, SelectMissesNone
    <3> QED BY <2>2, <3>2
  <2> HIDE DEF k
  <2>4. Asked(k)
    BY <1>2, <1>3, <2>2 DEF Keeps, Asked
  <2>5. Settled(job[p])'
    BY <2>1, <2>2 DEF Settled
  <2>6. \A o \in Procs \ {p} : Settled(job[o]) => Settled(job[o])'
    BY <2>1 DEF OnlyThis, Settled, TableFor
  <2> QED BY <2>1, <2>3, <2>4, <2>5, <2>6 DEF JobInv, OnlyThis
<1>4. ASSUME NEW p \in Procs, ReadBank(p) PROVE JobInv'
  <2>1. /\ OnlyThis(p) /\ Keeps(job[p], job'[p]) /\ job[p].at = "bank"
        /\ job'[p].at \in {"bank", "print", "done"}
        /\ job'[p].missed = job[p].missed
        /\ UNCHANGED <<table, archived, phase>>
    BY <1>0, <1>2, <1>4, ReadBankKeeps
  <2>2. job[p].q.rep \in ByBank
    BY <1>2, <1>4, <2>1 DEF Asked
  <2> QED BY <1>2, <1>4, <2>1, <2>2, JobKept
<1>5. ASSUME NEW p \in Procs, Output(p) PROVE JobInv'
  <2>1. /\ OnlyThis(p) /\ Keeps(job[p], job'[p])
        /\ job'[p].missed = job[p].missed
        /\ \/ job'[p].at = "print"
           \/ job'[p].at = "select" /\ job[p].q.rep = "PrintDiffNote"
           \/ job'[p].at = "mark" /\ Marks(job[p].q)
           \/ job'[p].at = "answer"
           \/ job'[p].at = "done"
        /\ UNCHANGED <<table, archived, phase>>
    BY <1>0, <1>2, <1>5, OutputKeeps
  <2> QED BY <1>2, <1>5, <2>1, JobKept
<1>6. ASSUME NEW p \in Procs, Mark(p) PROVE JobInv'
  BY <1>0, <1>2, <1>6, MarkKeeps, JobKept
<1>7. ASSUME NEW p \in Procs, Answer(p) PROVE JobInv'
  BY <1>0, <1>2, <1>7, AnswerKeeps, JobKept
<1>8. CASE UNCHANGED <<archived, phase, job>>
  BY <1>8 DEF JobInv, Settled, TableFor
<1>9. CASE Move
  <2>1. /\ DOMAIN job' = Procs
        /\ \A p \in Procs : job[p].at # "select" => job'[p] = job[p]
        /\ \A p \in Procs : job[p].at = "select" => job'[p] = [job[p] EXCEPT !.moved = TRUE]
    BY <1>9 DEF Move
  <2>2. ASSUME NEW p \in Procs, job[p].at = "select"
        PROVE  Asked(job'[p]) /\ Settled(job[p])' /\ Missing(job'[p])
    <3>1. Asked(job[p])
      BY <2>2 DEF JobInv, Idle
    <3>2. Keeps([job[p] EXCEPT !.moved = TRUE], job'[p]) /\ job'[p].moved
          /\ job'[p].at = job[p].at /\ job'[p].q = job[p].q /\ job'[p].table = job[p].table
          /\ job'[p].sel = job[p].sel /\ DOMAIN job'[p] = Fields
      BY <2>1, <2>2, <3>1 DEF Asked, Keeps, Fields
    <3> QED BY <3>1, <3>2 DEF Asked, Settled, Missing
  <2>3. ASSUME NEW p \in Procs, job[p].at # "select"
        PROVE  job'[p] = job[p] /\ Settled(job[p])'
    BY <2>1, <2>3 DEF Settled
  <2> QED BY <2>1, <2>2, <2>3 DEF JobInv
<1> QED BY <1>1, <1>3, <1>4, <1>5, <1>6, <1>7, <1>8, <1>9
        DEF Next, vars, Arrive, Change, ArchiveCopy, ArchiveDate, ArchiveDelete, Tick

LEMMA ReportsInit == Init => TablesInv /\ JobInv
<1> SUFFICES ASSUME Init PROVE TablesInv /\ JobInv
  OBVIOUS
<1>1. TablesInv
  BY ReportsAssumption DEF Init, TablesInv, TableNames
<1>2. JobInv
  BY DEF Init, JobInv, Idle
<1> QED BY <1>1, <1>2

(* A report misses no row that was there from the request to the SELECT,    *)
(* however many reports and archives run, unless the archive ran in between *)
(* or the days asked for lie on both sides of its date.                     *)
THEOREM NoRowIsMissed == Spec => []ReportComplete
<1>1. Init => TablesInv /\ JobInv
  BY ReportsInit
<1>2. (TablesInv /\ JobInv) /\ [Next]_vars => (TablesInv /\ JobInv)'
  BY TablesStep, JobStep
<1>3. JobInv => ReportComplete
  BY DEF JobInv, ReportComplete, Missing, Idle
<1> QED BY <1>1, <1>2, <1>3, PTL DEF Spec

-----------------------------------------------------------------------------
(* Rows nothing came between are marked as often as slips were made for     *)
(* them.  Until its UPDATE a slip knows them: they are where it looks, and  *)
(* it selected those the condition of the UPDATE holds for now.  All of it  *)
(* is about keys, whichever version of the row the table holds by then.     *)
Calm == {r \in table["trn"] \cup table["his"] : r.id \notin disturbed}
Keys == Ids(Rows \cup Other)
Knows(p) ==
    /\ job[p].table = "his" => job[p].q.from <= archived
    /\ \A r \in Calm : r.date = job[p].q.from => job[p].table = Place(r)
    /\ job[p].at # "select" =>
          \A r \in Calm : r.id \in Ids(job[p].sel) <=> r.id \in Ids(Selected(p))

NumInv == num \in [TableNames -> [Keys -> Nat]]
CopyInv == /\ \A r \in Rows : r.id \notin Ids(Present) => num["trn"][r.id] = 0
           /\ phase = "copied" => \A r \in Calm : r.date = archived + 1 =>
                                                    num["his"][r.id] = num["trn"][r.id]
CountInv == \A r \in Calm : num[Place(r)][r.id] = Cardinality(SlipsOf(r))
KnowsInv == \A p \in Procs : Busy(p) => Knows(p)
SelInv == \A p \in Procs : job[p].at # "idle" /\ job[p].q.rep \in Slips =>
                              Ids(job[p].sel) \subseteq Ids(Present)
MarkInv == NumInv /\ CopyInv /\ CountInv /\ KnowsInv /\ SelInv

(* The rows of the journal are in trnjour or htrnjour only.                 *)
LEMMA CalmRows ==
    ASSUME TablesInv, NEW r \in Calm
    PROVE  /\ r \in Rows /\ r.id \in Keys /\ r.date \in Nat \ {0}
           /\ r \in Present /\ r.id \notin disturbed
           /\ Place(r) = IF r.date <= archived THEN "his" ELSE "trn"
BY ReportsAssumption DEF Calm, TablesInv, Place, Keys, Ids, Present

(* What a slip selects: rows of the journal, of the day asked for.          *)
LEMMA SlipRows ==
    ASSUME TablesInv, JobInv, NEW p \in Procs, job[p].at # "idle", job[p].q.rep \in Slips
    PROVE  /\ job[p].q \in Requests /\ job[p].table \in {"trn", "his"}
           /\ \A r, part, n : Takes(job[p].q, part, r, n) => r.date = job[p].q.from
           /\ \A r \in Selected(p) : /\ r \in Rows /\ r \in table[job[p].table]
                                     /\ r.date = job[p].q.from
           /\ Ids(Selected(p)) \subseteq Ids(Present)
<1>1. job[p].q \in Requests /\ job[p].table \in {"trn", "his"}
  BY DEF JobInv, Asked, Idle, InJournal, ByArchive
<1>2. \A r, part, n : Takes(job[p].q, part, r, n) => r.date = job[p].q.from
  BY <1>1, TakesMeans
<1>3. \A r \in Selected(p) : r \in table[job[p].table] /\ r.date = job[p].q.from
  BY <1>2 DEF Selected
<1>4. \A r \in Selected(p) : r \in Rows /\ r \in Present
  BY <1>1, <1>3 DEF TablesInv, Present
<1>5. Ids(Selected(p)) \subseteq Ids(Present)
  <2> HIDE DEF Present
  <2> QED BY <1>4 DEF Ids
<1> QED BY <1>1, <1>2, <1>3, <1>4, <1>5

(* The condition of a slip does not depend on the part.                     *)
LEMMA SlipSelected ==
    ASSUME NEW p \in Procs, job[p].q.rep \in Slips,
           job'[p].q = job[p].q, job'[p].table = job[p].table,
           table'[job[p].table] = table[job[p].table],
           num'[job[p].table] = num[job[p].table]
    PROVE  Selected(p)' = Selected(p)
<1>1. \A r : r \in Selected(p)' <=> r \in Selected(p)
  BY DEF Selected, Takes, Slips
<1> QED BY <1>1

(* What a step did not turn is under the condition of a slip as before.     *)
LEMMA TurnedMeans ==
    ASSUME NEW P, NEW p \in P, Between(p), NEW k, k \notin Turned(P)
    PROVE  k \in Ids(Selected(p)) <=> k \in Ids(Selected(p))'
<1> DEFINE A == Ids(Selected(p))  B == Ids(Selected(p))'
<1>1. SymDiff(A, B) \subseteq Turned(P)
  <2>1. p \in {o \in P : Between(o)}
    OBVIOUS
  <2> QED BY <2>1 DEF Turned
<1>2. k \notin SymDiff(A, B)
  BY <1>1
<1> HIDE DEF A, B
<1>3. k \in A <=> k \in B
  BY <1>2 DEF SymDiff
<1> QED BY <1>3 DEF A, B

LEMMA SlipsOfSame ==
    ASSUME NEW r, NEW s, s.id = r.id,
           \A p \in Procs : (Made(p) /\ r.id \in Ids(job[p].sel)) <=> (Made(p) /\ r.id \in Ids(job[p].sel))'
    PROVE  SlipsOf(s)' = SlipsOf(r)
BY DEF SlipsOf

(* A step of a request that leaves the journal and the marks alone.         *)
LEMMA MarksKept ==
    ASSUME MarkInv, NEW p \in Procs, OnlyThis(p),
           UNCHANGED <<table, num, archived, phase, disturbed>>,
           (Made(p) <=> Made(p)') \/ (job[p].sel = {} /\ job'[p].sel = {}),
           Made(p) => job'[p].sel = job[p].sel,
           Busy(p)' => Knows(p)',
           job'[p].at # "idle" /\ job'[p].q.rep \in Slips => Ids(job'[p].sel) \subseteq Ids(Present)
    PROVE  MarkInv'
<1>1. Calm' = Calm /\ Present' = Present /\ \A r : Place(r)' = Place(r)
  BY DEF Calm, Present, Place
<1>2. ASSUME NEW r PROVE SlipsOf(r)' = SlipsOf(r)
  <2>1. \A o \in Procs \ {p} : (Made(o) <=> Made(o)') /\ job'[o].sel = job[o].sel
    BY DEF OnlyThis, Made, Told
  <2>2. (Made(p) /\ r.id \in Ids(job[p].sel)) <=> (Made(p) /\ r.id \in Ids(job[p].sel))'
    BY DEF Ids
  <2>3. \A o \in Procs : (Made(o) /\ r.id \in Ids(job[o].sel)) <=> (Made(o) /\ r.id \in Ids(job[o].sel))'
    BY <2>1, <2>2 DEF Ids
  <2> QED BY <2>3, SlipsOfSame
<1>3. ASSUME NEW o \in Procs \ {p}, Busy(o)' PROVE Knows(o)'
  <2>1. job'[o] = job[o]
    BY DEF OnlyThis
  <2>2. Busy(o) /\ Selected(o)' = Selected(o)
    BY <1>3, <2>1 DEF Busy, Selected
  <2>3. Knows(o)
    BY <2>2 DEF MarkInv, KnowsInv
  <2> QED BY <1>1, <2>1, <2>2, <2>3 DEF Knows, Ids
<1>4. NumInv' /\ CopyInv'
  BY <1>1 DEF MarkInv, NumInv, CopyInv, Ids
<1>5. CountInv'
  BY <1>1, <1>2 DEF MarkInv, CountInv
<1>6. KnowsInv'
  BY <1>3 DEF KnowsInv
<1>7. SelInv'
  BY <1>1 DEF MarkInv, SelInv, OnlyThis, Ids
<1> QED BY <1>4, <1>5, <1>6, <1>7 DEF MarkInv

LEMMA MarksAfterAsk ==
    ASSUME TablesInv, JobInv, MarkInv, NEW p \in Procs, NEW q \in Requests, Ask(p, q)
    PROVE  MarkInv'
<1>1. /\ OnlyThis(p) /\ UNCHANGED <<table, num, archived, phase, disturbed>>
      /\ job'[p].at = "select" /\ job'[p].q = q /\ job'[p].sel = {}
  BY AskedIsOK DEF JobInv
<1>2. job[p].at = "idle" /\ job'[p].table = TableFor(q)
  <2>1. job[p].at = "idle" /\ DOMAIN job = Procs
    BY DEF Ask, JobInv
  <2> QED BY <2>1 DEF Ask
<1>3. ~Made(p) /\ ~Made(p)'
  BY <1>1, <1>2 DEF Made, Told
<1>4. ASSUME Busy(p)' PROVE Knows(p)'
  <2>1. q.rep \in Slips
    BY <1>1, <1>4 DEF Busy
  <2>2. TableFor(q) = IF q.from <= archived THEN "his" ELSE "trn"
    BY <2>1 DEF TableFor, ByArchive, Slips
  <2>3. \A r \in Calm : r.date = q.from => TableFor(q) = Place(r)
    BY <2>2, CalmRows
  <2>4. Calm' = Calm /\ \A r : Place(r)' = Place(r)
    BY <1>1 DEF Calm, Place
  <2> QED BY <1>1, <1>2, <2>2, <2>3, <2>4 DEF Knows
<1>5. Ids(job'[p].sel) \subseteq Ids(Present)
  BY <1>1 DEF Ids
<1> QED BY <1>1, <1>3, <1>4, <1>5, MarksKept

(* The request a step of which is taken.                                    *)
LEMMA Acting ==
    ASSUME JobInv, NEW p \in Procs,
           Select(p) \/ ReadBank(p) \/ Output(p) \/ Mark(p) \/ Answer(p)
    PROVE  Asked(job[p]) /\ DOMAIN job = Procs /\ DOMAIN job[p] = Fields /\ job[p].at # "idle"
<1>1. job[p].at # "idle"
  BY DEF Select, ReadBank, Output, Mark, Answer
<1> QED BY <1>1 DEF JobInv, Idle, Asked

LEMMA MarksAfterSelect ==
    ASSUME TablesInv, JobInv, MarkInv, NEW p \in Procs, Select(p)
    PROVE  MarkInv'
<1> DEFINE S == Selected(p)
           j == job[p]
           k == Fetched(p, S)
<1>1. /\ OnlyThis(p) /\ job'[p] = k /\ j.at = "select"
      /\ UNCHANGED <<table, num, archived, phase, disturbed>>
  BY Acting, SelectKeeps DEF Select
<1>2. /\ Keeps(j, k)
      /\ k.at \in {"bank", "print", "done"}
      /\ k.at = "bank" => j.q.rep \in ByBank
      /\ k.at = "done" => k.code = "norecord"
      /\ j.q.rep \in Slips => k.sel = j.sel \cup S
  BY Acting, FetchedKeeps
<1> HIDE DEF k
<1>3. ~Made(p) /\ ~Made(p)'
  BY <1>1, <1>2 DEF Made, Told
<1>4. ASSUME j.q.rep \in Slips
      PROVE  k.sel = S /\ Ids(S) \subseteq Ids(Present) /\ (Busy(p)' => Knows(p)')
  <2>1. j.sel = {}
    BY <1>1, <1>4, Acting DEF Asked
  <2>2. Ids(S) \subseteq Ids(Present)
    BY <1>1, <1>4, SlipRows
  <2>3. /\ \A r \in Calm : j.table = Place(r) \/ r.date # j.q.from
        /\ j.table = "his" => j.q.from <= archived
    BY <1>1, <1>4 DEF MarkInv, KnowsInv, Busy, Knows
  <2>4. Calm' = Calm /\ \A r : Place(r)' = Place(r)
    BY <1>1 DEF Calm, Place
  <2>5. Selected(p)' = S
    BY <1>1, <1>2, <1>4, SlipSelected DEF Keeps
  <2>6. k.sel = S
    BY <1>2, <1>4, <2>1
  <2> HIDE DEF S
  <2> QED BY <1>1, <1>2, <1>4, <2>2, <2>3, <2>4, <2>5, <2>6 DEF Knows, Keeps, Ids
<1>5. Busy(p)' => Knows(p)'
  BY <1>1, <1>2, <1>4 DEF Busy, Keeps
<1>6. job'[p].at # "idle" /\ job'[p].q.rep \in Slips => Ids(job'[p].sel) \subseteq Ids(Present)
  BY <1>1, <1>2, <1>4 DEF Keeps
<1> QED BY <1>1, <1>3, <1>5, <1>6, MarksKept

LEMMA MarksAfterReadBank ==
    ASSUME TablesInv, JobInv, MarkInv, NEW p \in Procs, ReadBank(p)
    PROVE  MarkInv'
<1>1. /\ OnlyThis(p) /\ Keeps(job[p], job'[p]) /\ job[p].at = "bank"
      /\ UNCHANGED <<table, num, archived, phase, disturbed>>
  BY Acting, ReadBankKeeps
<1>2. job[p].q.rep \notin Slips
  BY <1>1, Acting DEF Asked, ByBank, Slips
<1>3. job'[p].q.rep \notin Slips
  BY <1>1, <1>2 DEF Keeps
<1>4. ~Made(p) /\ ~Made(p)' /\ ~Busy(p)'
  BY <1>2, <1>3 DEF Made, Busy
<1> QED BY <1>1, <1>3, <1>4, MarksKept

LEMMA MarksAfterOutput ==
    ASSUME TablesInv, JobInv, MarkInv, NEW p \in Procs, Output(p)
    PROVE  MarkInv'
<1>1. /\ OnlyThis(p) /\ Keeps(job[p], job'[p]) /\ job[p].at = "print"
      /\ job'[p].sel = job[p].sel
      /\ \/ job'[p].at = "print"
         \/ job'[p].at = "select" /\ job[p].q.rep = "PrintDiffNote"
         \/ job'[p].at = "mark" /\ Marks(job[p].q)
         \/ job'[p].at = "answer" /\ ~Marks(job[p].q)
         \/ job'[p].at = "done" /\ job'[p].code = "error"
      /\ UNCHANGED <<table, num, archived, phase, disturbed>>
  BY Acting, OutputKeeps
<1>2. ~Made(p) /\ ~Made(p)'
  BY <1>1 DEF Made, Told, Marks, Keeps
<1>3. ASSUME Busy(p)' PROVE Knows(p)'
  <2>1. job[p].q.rep \in Slips /\ Busy(p)
    BY <1>1, <1>3 DEF Busy, Keeps
  <2>2. Knows(p)
    BY <2>1 DEF MarkInv, KnowsInv
  <2>3. Calm' = Calm /\ \A r : Place(r)' = Place(r)
    BY <1>1 DEF Calm, Place
  <2>4. Selected(p)' = Selected(p)
    BY <1>1, <2>1, SlipSelected DEF Keeps
  <2> QED BY <1>1, <2>2, <2>3, <2>4 DEF Knows, Keeps, Ids
<1>4. job'[p].q.rep \in Slips => Ids(job'[p].sel) \subseteq Ids(Present)
  BY <1>1 DEF MarkInv, SelInv, Keeps
<1> QED BY <1>1, <1>2, <1>3, <1>4, MarksKept

LEMMA MarksAfterAnswer ==
    ASSUME TablesInv, JobInv, MarkInv, NEW p \in Procs, Answer(p)
    PROVE  MarkInv'
<1>1. /\ OnlyThis(p) /\ Keeps(job[p], job'[p]) /\ job[p].at = "answer"
      /\ job'[p].at = "done" /\ job'[p].code = "ok" /\ job'[p].sel = job[p].sel
      /\ UNCHANGED <<table, num, archived, phase, disturbed>>
  BY Acting, AnswerKeeps
<1>2. (Made(p) <=> Made(p)') /\ ~Busy(p)'
  BY <1>1 DEF Made, Told, Busy, Keeps
<1>3. job'[p].q.rep \in Slips => Ids(job'[p].sel) \subseteq Ids(Present)
  BY <1>1 DEF MarkInv, SelInv, Keeps
<1> QED BY <1>1, <1>2, <1>3, MarksKept

(* What the UPDATE does to the marks and to the history.                    *)
LEMMA MarkDoes ==
    ASSUME TablesInv, JobInv, NumInv, NEW p \in Procs, Mark(p)
    PROVE  /\ OnlyThis(p) /\ Keeps(job[p], job'[p]) /\ job[p].at = "mark"
           /\ job'[p].at = "answer" /\ job'[p].sel = job[p].sel
           /\ UNCHANGED <<table, archived, phase>>
           /\ disturbed \subseteq disturbed'
           /\ \/ num' = num /\ Ids(job[p].sel) \subseteq disturbed'
              \/ /\ NumInv'
                 /\ \A t \in TableNames, k \in Keys :
                       t # job[p].table \/ k \notin Ids(Selected(p)) => num'[t][k] = num[t][k]
                 /\ \A k \in Keys \cap Ids(Selected(p)) :
                       num'[job[p].table][k] = Marked(job[p].q, num[job[p].table][k])
                 /\ Turned(Procs \ {p}) \subseteq disturbed'
                 /\ phase = "copied" => Ids(Selected(p) \cap Leaving) \subseteq disturbed'
<1> DEFINE t == job[p].table
           S == Ids(Selected(p))
           L == Ids(Selected(p) \cap Leaving)
           T == Turned(Procs \ {p})
           g == [k \in DOMAIN num[t] |-> IF k \in S THEN Marked(job[p].q, num[t][k]) ELSE num[t][k]]
           done == [num EXCEPT ![t] = g]
           wrote == disturbed \cup T \cup (IF phase = "copied" THEN L ELSE {})
<1>1. /\ OnlyThis(p) /\ Keeps(job[p], job'[p]) /\ job[p].at = "mark"
      /\ job'[p].at = "answer" /\ job'[p].sel = job[p].sel
      /\ UNCHANGED <<table, archived, phase>>
  BY Acting, MarkKeeps
<1>2. \/ num' = done /\ disturbed' = wrote
      \/ num' = num /\ disturbed' = disturbed \cup Ids(job[p].sel)
  BY DEF Mark
<1>3. t \in TableNames /\ num[t] \in [Keys -> Nat]
  BY Acting DEF Asked, NumInv
<1>4. /\ g \in [Keys -> Nat]
      /\ \A k \in Keys : g[k] = IF k \in S THEN Marked(job[p].q, num[t][k]) ELSE num[t][k]
  <2> HIDE DEF S
  <2> QED BY <1>3 DEF Marked
<1>5. CASE num' = num /\ disturbed' = disturbed \cup Ids(job[p].sel)
  BY <1>1, <1>5
<1>6. CASE num' = done /\ disturbed' = wrote
  <2> HIDE DEF g, S, t, L, T
  <2>1. NumInv'
    BY <1>3, <1>4, <1>6 DEF NumInv, Keys
  <2>2. num'[t] = g /\ \A u \in TableNames : u # t => num'[u] = num[u]
    BY <1>3, <1>6 DEF NumInv
  <2>3. T \subseteq disturbed' /\ (phase = "copied" => L \subseteq disturbed')
    BY <1>6
  <2>4. disturbed \subseteq disturbed'
    BY <1>6
  <2>5. \A u \in TableNames, k \in Keys : u # t \/ k \notin S => num'[u][k] = num[u][k]
    BY <1>4, <2>2
  <2>6. \A k \in Keys \cap S : num'[t][k] = Marked(job[p].q, num[t][k])
    BY <1>4, <2>2
  <2> QED BY <1>1, <2>1, <2>3, <2>4, <2>5, <2>6 DEF S, t, L, T
<1> QED BY <1>2, <1>5, <1>6

LEMMA MarksAfterMark ==
    ASSUME TablesInv, JobInv, MarkInv, NEW p \in Procs, Mark(p)
    PROVE  MarkInv'
<1> DEFINE j == job[p]
           q == j.q
           S == Selected(p)
           written ==
             /\ NumInv'
             /\ \A t \in TableNames, k \in Keys :
                   t # j.table \/ k \notin Ids(S) => num'[t][k] = num[t][k]
             /\ \A k \in Keys \cap Ids(S) : num'[j.table][k] = Marked(q, num[j.table][k])
             /\ Turned(Procs \ {p}) \subseteq disturbed'
             /\ phase = "copied" => Ids(S \cap Leaving) \subseteq disturbed'
<1>1. /\ OnlyThis(p) /\ Keeps(j, job'[p]) /\ j.at = "mark"
      /\ job'[p].at = "answer" /\ job'[p].sel = j.sel
      /\ UNCHANGED <<table, archived, phase>>
      /\ disturbed \subseteq disturbed'
      /\ \/ num' = num /\ Ids(j.sel) \subseteq disturbed'
         \/ written
  BY MarkDoes DEF MarkInv
<1>2. /\ q \in Requests /\ j.table \in TableNames /\ Marks(q) /\ j.at # "idle"
      /\ q.rep \notin Slips => j.table = "other"
  <2>1. /\ q \in Requests /\ j.table \in TableNames /\ Marks(q) /\ j.at # "idle"
        /\ q.rep \notin InJournal => j.table = "other"
    BY <1>1, Acting DEF Asked
  <2> QED BY <2>1 DEF Marks, InJournal, ByArchive, NamedFirst
<1>3. Calm' \subseteq Calm /\ Present' = Present /\ \A r : Place(r)' = Place(r)
  BY <1>1 DEF Calm, Present, Place
<1>4. \A r \in Calm : /\ r \in Rows /\ r.id \in Keys
                      /\ Place(r) \in {"trn", "his"} /\ Place(r) \in TableNames
  BY CalmRows DEF TableNames
<1>5. ~Made(p) /\ (Made(p)' <=> q.rep \in Slips)
  BY <1>1 DEF Made, Told, Keeps
<1>6. \A o \in Procs \ {p} : (Made(o) <=> Made(o)') /\ job'[o] = job[o]
  BY <1>1 DEF OnlyThis, Made, Told
<1>7. NumInv'
  BY <1>1 DEF MarkInv, NumInv, Keys
<1>8. ASSUME q.rep \in Slips
      PROVE  /\ Knows(p) /\ j.table \in {"trn", "his"} /\ Ids(S) \subseteq Ids(Present)
             /\ \A s \in S : s \in Rows /\ s \in table[j.table] /\ s.date = q.from
  BY <1>1, <1>2, <1>8, SlipRows DEF MarkInv, KnowsInv, Busy
<1> HIDE DEF S
<1>9. ASSUME NEW r \in Rows, r.id \in Ids(S), q.rep \in Slips
      PROVE  \E s \in S : /\ s.id = r.id /\ s.date = r.date /\ s \in table[j.table]
                          /\ r.date = q.from
  <2>1. PICK s \in S : s.id = r.id
    BY <1>9 DEF Ids
  <2>2. s.date = r.date
    BY <1>8, <1>9, <2>1, SameRow
  <2> QED BY <1>8, <1>9, <2>1, <2>2
<1>10. CopyInv'
  <2>1. ASSUME NEW r \in Rows, r.id \notin Ids(Present) PROVE num'["trn"][r.id] = 0
    <3>1. num["trn"][r.id] = 0 /\ r.id \in Keys
      BY <2>1 DEF MarkInv, CopyInv, Keys, Ids
    <3>2. "trn" # j.table \/ r.id \notin Ids(S)
      BY <1>2, <1>8, <2>1
    <3> QED BY <1>1, <3>1, <3>2 DEF TableNames
  <2>2. ASSUME phase = "copied", NEW r \in Calm', r.date = archived + 1
        PROVE  num'["his"][r.id] = num'["trn"][r.id]
    <3>1. r \in Calm /\ r \in Rows /\ r.id \in Keys /\ num["his"][r.id] = num["trn"][r.id]
          /\ archived \in Nat
      BY <1>3, <1>4, <2>2 DEF MarkInv, CopyInv, TablesInv
    <3>2. CASE num' = num
      BY <3>1, <3>2
    <3>3. CASE written
      <4>1. ASSUME r.id \in Ids(S), q.rep \in Slips PROVE FALSE
        <5>1. PICK s \in S : /\ s.id = r.id /\ s.date = r.date /\ s \in table[j.table]
                             /\ r.date = q.from
          BY <1>9, <3>1, <4>1
        <5>2. CASE j.table = "trn"
          <6>1. s \in Leaving
            BY <2>2, <3>1, <5>1, <5>2 DEF Leaving
          <6>2. r.id \in disturbed'
            BY <2>2, <3>3, <5>1, <6>1 DEF Ids
          <6> QED BY <6>2 DEF Calm
        <5>3. CASE j.table = "his"
          BY <1>8, <2>2, <3>1, <4>1, <5>1, <5>3 DEF Knows
        <5> QED BY <1>8, <4>1, <5>2, <5>3
      <4>2. CASE r.id \notin Ids(S)
        BY <3>1, <3>3, <4>2 DEF TableNames
      <4>3. CASE q.rep \notin Slips
        BY <1>2, <3>1, <3>3, <4>3 DEF TableNames
      <4> QED BY <4>1, <4>2, <4>3
    <3> QED BY <1>1, <3>2, <3>3
  <2> QED BY <1>1, <1>3, <2>1, <2>2 DEF CopyInv, Ids
<1>11. CountInv'
  <2> SUFFICES ASSUME NEW r \in Calm' PROVE (num[Place(r)][r.id] = Cardinality(SlipsOf(r)))'
    BY DEF CountInv
  <2>1. /\ r \in Calm /\ r \in Rows /\ r.id \in Keys /\ Place(r)' = Place(r)
        /\ Place(r) \in {"trn", "his"} /\ Place(r) \in TableNames
        /\ num[Place(r)][r.id] = Cardinality(SlipsOf(r))
    BY <1>3, <1>4 DEF MarkInv, CountInv
  <2>2. ASSUME q.rep \notin Slips \/ r.id \notin Ids(j.sel) PROVE SlipsOf(r)' = SlipsOf(r)
    <3>1. (Made(p) /\ r.id \in Ids(job[p].sel)) <=> (Made(p) /\ r.id \in Ids(job[p].sel))'
      BY <1>1, <1>5, <2>2 DEF Ids
    <3>2. \A o \in Procs : (Made(o) /\ r.id \in Ids(job[o].sel)) <=> (Made(o) /\ r.id \in Ids(job[o].sel))'
      BY <1>6, <3>1 DEF Ids
    <3> QED BY <3>2, SlipsOfSame
  <2>3. CASE num' = num /\ Ids(j.sel) \subseteq disturbed'
    <3>1. r.id \notin Ids(j.sel)
      BY <2>3 DEF Calm
    <3> QED BY <2>1, <2>2, <2>3, <3>1
  <2>4. CASE q.rep \notin Slips /\ written
    <3>1. num'[Place(r)][r.id] = num[Place(r)][r.id]
      BY <1>2, <2>1, <2>4
    <3> QED BY <2>1, <2>2, <2>4, <3>1
  <2>5. CASE q.rep \in Slips /\ written
    <3>1. r.id \in Ids(j.sel) <=> r.id \in Ids(S)
      BY <1>1, <1>8, <2>1, <2>5 DEF Knows, S
    <3>2. CASE r.id \notin Ids(S)
      <4>1. num'[Place(r)][r.id] = num[Place(r)][r.id]
        BY <2>1, <2>5, <3>2
      <4> QED BY <2>1, <2>2, <3>1, <3>2, <4>1
    <3>3. CASE r.id \in Ids(S)
      <4>1. r.date = q.from
        BY <1>9, <2>1, <2>5, <3>3
      <4>2. j.table = Place(r)
        BY <1>8, <2>1, <2>5, <4>1 DEF Knows
      <4>3. num'[Place(r)][r.id] = num[Place(r)][r.id] + 1
        BY <2>1, <2>5, <3>3, <4>2 DEF Marked
      <4>4. SlipsOf(r)' = SlipsOf(r) \cup {p}
        <5>1. r.id \in Ids(job[p].sel)'
          BY <1>1, <3>1, <3>3 DEF Ids
        <5>2. \A o \in Procs \ {p} :
                (Made(o) /\ r.id \in Ids(job[o].sel)) <=> (Made(o) /\ r.id \in Ids(job[o].sel))'
          BY <1>6 DEF Ids
        <5> QED BY <1>5, <2>5, <5>1, <5>2 DEF SlipsOf
      <4>5. p \notin SlipsOf(r)
        BY <1>5 DEF SlipsOf
      <4>6. IsFiniteSet(SlipsOf(r))
        BY RequestsAssumption, FS_Subset DEF SlipsOf
      <4>7. Cardinality(SlipsOf(r) \cup {p}) = Cardinality(SlipsOf(r)) + 1
        BY <4>5, <4>6, FS_AddElement
      <4> QED BY <2>1, <4>3, <4>4, <4>7
    <3> QED BY <3>2, <3>3
  <2> QED BY <1>1, <2>3, <2>4, <2>5
<1>12. KnowsInv'
  <2> SUFFICES ASSUME NEW o \in Procs, Busy(o)' PROVE Knows(o)'
    BY DEF KnowsInv
  <2>1. o # p /\ job'[o] = job[o] /\ o \in Procs \ {p}
    BY <1>1, <1>6 DEF Busy
  <2>2. Busy(o) /\ Knows(o)
    BY <2>1 DEF Busy, MarkInv, KnowsInv
  <2>3. ASSUME NEW r \in Calm', job[o].at # "select"
        PROVE  r.id \in Ids(job[o].sel) <=> r.id \in Ids(Selected(o))'
    <3>1. r.id \in Ids(job[o].sel) <=> r.id \in Ids(Selected(o))
      BY <1>3, <2>2, <2>3 DEF Knows
    <3>2. CASE num' = num
      <4>1. Selected(o)' = Selected(o)
        BY <1>1, <2>1, <3>2 DEF Selected
      <4> QED BY <3>1, <4>1 DEF Ids
    <3>3. CASE written
      <4>1. r.id \notin Turned(Procs \ {p})
        BY <3>3 DEF Calm
      <4>2. Between(o)
        BY <2>2, <2>3 DEF Between
      <4> QED BY <2>1, <3>1, <4>1, <4>2, TurnedMeans
    <3> QED BY <1>1, <3>2, <3>3
  <2>4. Ids(job[o].sel)' = Ids(job[o].sel)
    BY <2>1 DEF Ids
  <2> QED BY <1>1, <1>3, <2>1, <2>2, <2>3, <2>4 DEF Knows
<1>13. SelInv'
  BY <1>1, <1>3, <1>6 DEF MarkInv, SelInv, Keeps, Ids
<1> QED BY <1>7, <1>10, <1>11, <1>12, <1>13 DEF MarkInv

(* Steps of the journal leave the requests as they are, but for the note    *)
(* that it moved under them.                                                *)
Undisturbed == /\ \A p \in Procs : /\ job'[p].at = job[p].at /\ (Told(p)' <=> Told(p))
                                   /\ job[p].at # "idle" =>
                                        /\ job'[p].q = job[p].q /\ job'[p].table = job[p].table
                                        /\ job'[p].sel = job[p].sel
LEMMA MoveLeavesJobs ==
    ASSUME JobInv, Move
    PROVE  Undisturbed
<1>1. ASSUME NEW p \in Procs, job[p].at # "select"
      PROVE  job'[p] = job[p]
  BY <1>1 DEF Move
<1>2. ASSUME NEW p \in Procs, job[p].at = "select"
      PROVE  /\ job'[p].at = job[p].at /\ job'[p].q = job[p].q
             /\ job'[p].table = job[p].table /\ job'[p].sel = job[p].sel
  <2>1. Asked(job[p])
    BY <1>2 DEF JobInv, Idle
  <2>2. job'[p] = [job[p] EXCEPT !.moved = TRUE]
    BY <1>2 DEF Move
  <2> QED BY <2>1, <2>2 DEF Asked, Fields
<1> QED BY <1>1, <1>2 DEF Undisturbed, Told

(* It is enough that a step of the journal keeps the marks of the rows it   *)
(* does not disturb, and what the slips under way know of them.             *)
LEMMA JournalStep ==
    ASSUME TablesInv, JobInv, MarkInv, Undisturbed, NumInv', CopyInv',
           Ids(Present) \subseteq Ids(Present)',
           \A r \in Calm' :
              \/ \E s \in Calm : /\ s.id = r.id
                                 /\ num'[Place(r)'][r.id] = num[Place(s)][r.id]
              \/ r.id \notin Ids(Present) /\ num'[Place(r)'][r.id] = 0,
           \A p \in Procs : Busy(p) => Knows(p)'
    PROVE  MarkInv'
<1>1. \A p \in Procs : /\ Made(p)' <=> Made(p)
                       /\ Busy(p)' <=> Busy(p)
  BY DEF Undisturbed, Made, Busy, Told
<1>2. ASSUME NEW r, NEW s, s.id = r.id PROVE SlipsOf(s)' = SlipsOf(r)
  <2>1. \A p \in Procs : Made(p) => job'[p].sel = job[p].sel
    BY DEF Undisturbed, Made, Told
  <2>2. \A p \in Procs : (Made(p) /\ r.id \in Ids(job[p].sel)) <=> (Made(p) /\ r.id \in Ids(job[p].sel))'
    BY <1>1, <2>1 DEF Ids
  <2> QED BY <1>2, <2>2, SlipsOfSame
<1>3. CountInv'
  <2> SUFFICES ASSUME NEW r \in Calm' PROVE (num[Place(r)][r.id] = Cardinality(SlipsOf(r)))'
    BY DEF CountInv
  <2>1. CASE \E s \in Calm : s.id = r.id /\ num'[Place(r)'][r.id] = num[Place(s)][r.id]
    <3>1. PICK s \in Calm : s.id = r.id /\ num'[Place(r)'][r.id] = num[Place(s)][r.id]
      BY <2>1
    <3>2. num[Place(s)][s.id] = Cardinality(SlipsOf(s))
      BY DEF MarkInv, CountInv
    <3>3. SlipsOf(r)' = SlipsOf(s)
      BY <1>2, <3>1
    <3> QED BY <3>1, <3>2, <3>3
  <2>2. CASE r.id \notin Ids(Present) /\ num'[Place(r)'][r.id] = 0
    <3>1. SlipsOf(r) = {}
      BY <2>2 DEF SlipsOf, Made, Told, MarkInv, SelInv
    <3> QED BY <1>2, <2>2, <3>1, FS_EmptySet
  <2> QED BY <2>1, <2>2
<1>4. KnowsInv'
  BY <1>1 DEF KnowsInv
<1>5. SelInv'
  <2> SUFFICES ASSUME NEW p \in Procs, job'[p].at # "idle", job'[p].q.rep \in Slips
               PROVE  Ids(job[p].sel)' \subseteq Ids(Present)'
    BY DEF SelInv
  <2>1. job[p].at # "idle" /\ job'[p].q = job[p].q /\ job'[p].sel = job[p].sel
    BY DEF Undisturbed
  <2>2. Ids(job[p].sel) \subseteq Ids(Present)
    BY <2>1 DEF MarkInv, SelInv
  <2>3. Ids(job[p].sel)' = Ids(job[p].sel)
    BY <2>1 DEF Ids
  <2> QED BY <2>2, <2>3
<1> QED BY <1>3, <1>4, <1>5 DEF MarkInv

(* What is to be shown of a slip under way in such a step.                  *)
LEMMA StillKnows ==
    ASSUME JobInv, MarkInv, Undisturbed, NEW p \in Procs, Busy(p),
           job[p].table = "his" => job[p].q.from <= archived',
           \A r \in Calm' : r.date = job[p].q.from => job[p].table = Place(r)',
           job[p].at # "select" =>
              \A r \in Calm' : r.id \in Ids(job[p].sel) <=> r.id \in Ids(Selected(p))'
    PROVE  Knows(p)'
<1>1. job'[p].at = job[p].at /\ job'[p].q = job[p].q /\ job'[p].table = job[p].table
      /\ job'[p].sel = job[p].sel
  BY DEF Undisturbed, Busy
<1>2. Ids(job[p].sel)' = Ids(job[p].sel)
  BY <1>1 DEF Ids
<1> QED BY <1>1, <1>2 DEF Knows

LEMMA BusyKnows ==
    ASSUME TablesInv, JobInv, MarkInv, NEW p \in Procs, Busy(p)
    PROVE  /\ Knows(p) /\ job[p].at # "idle" /\ job[p].q.rep \in Slips
           /\ job[p].q \in Requests /\ job[p].q.from \in Nat
           /\ job[p].table \in {"trn", "his"}
           /\ \A r, part, n : Takes(job[p].q, part, r, n) => r.date = job[p].q.from
           /\ \A r \in Selected(p) : /\ r \in Rows /\ r \in table[job[p].table]
                                     /\ r.date = job[p].q.from
           /\ Ids(Selected(p)) \subseteq Ids(Present)
           /\ Ids(job[p].sel) \subseteq Ids(Present)
<1>1. job[p].at # "idle" /\ job[p].q.rep \in Slips
  BY DEF Busy
<1>2. Knows(p) /\ Ids(job[p].sel) \subseteq Ids(Present)
  BY <1>1 DEF MarkInv, KnowsInv, SelInv
<1> QED BY <1>1, <1>2, SlipRows, RequestsAssumption

LEMMA MarksAfterArrive ==
    ASSUME TablesInv, JobInv, MarkInv, NEW a \in Rows, Arrive(a)
    PROVE  MarkInv'
<1>1. /\ a.id \notin Ids(Present) /\ a.date > archived /\ (phase # "idle" => a.date > archived + 1)
      /\ table' = [table EXCEPT !["trn"] = @ \cup {a}]
      /\ disturbed' = disturbed \cup Turned(Procs)
      /\ UNCHANGED <<num, archived, phase, files, second, job>>
  BY DEF Arrive
<1>2. /\ table'["trn"] = table["trn"] \cup {a} /\ table'["his"] = table["his"]
      /\ table'["other"] = table["other"] /\ a \notin table["other"]
  BY <1>1, ReportsAssumption DEF TablesInv, TableNames
<1>3. Present' = Present \cup {a} /\ \A r \in Calm' : r \in Calm \/ r = a
  <2> HIDE DEF Turned
  <2> QED BY <1>1, <1>2 DEF Present, Calm
<1>4. \A r : Place(r)' = Place(r)
  BY <1>1, <1>2 DEF Place
<1>5. num["trn"][a.id] = 0 /\ a.date \in Nat /\ archived \in Nat
  BY <1>1, ReportsAssumption DEF MarkInv, CopyInv, TablesInv
<1>6. Place(a) = "trn"
  BY <1>1, <1>2, <1>5 DEF Place
<1>7. Ids(Present)' = Ids(Present) \cup {a.id}
  BY <1>3 DEF Ids
<1>8. NumInv' /\ CopyInv'
  <2>1. NumInv' /\ \A r \in Rows : r.id \notin Ids(Present)' => num'["trn"][r.id] = 0
    BY <1>1, <1>7 DEF MarkInv, NumInv, CopyInv, Keys
  <2>2. ASSUME phase = "copied", NEW r \in Calm', r.date = archived + 1
        PROVE  num["his"][r.id] = num["trn"][r.id]
    <3>1. a.date # archived + 1
      BY <1>1, <1>5, <2>2
    <3>2. r \in Calm
      BY <1>3, <2>2, <3>1
    <3> QED BY <2>2, <3>2 DEF MarkInv, CopyInv
  <2> QED BY <1>1, <2>1, <2>2 DEF CopyInv
<1>9. Undisturbed
  BY <1>1 DEF Undisturbed, Told
<1>10. ASSUME NEW r \in Calm'
       PROVE  \/ \E s \in Calm : /\ s.id = r.id
                                 /\ num'[Place(r)'][r.id] = num[Place(s)][r.id]
              \/ r.id \notin Ids(Present) /\ num'[Place(r)'][r.id] = 0
  BY <1>1, <1>3, <1>4, <1>5, <1>6
<1>11. ASSUME NEW p \in Procs, Busy(p) PROVE Knows(p)'
  <2>1. /\ Knows(p) /\ job[p].q.from \in Nat /\ job[p].table \in {"trn", "his"}
        /\ Ids(Selected(p)) \subseteq Ids(Present) /\ Ids(job[p].sel) \subseteq Ids(Present)
    BY <1>11, BusyKnows
  <2>2. \A r \in Calm' : r.date = job[p].q.from => job[p].table = Place(r)'
    BY <1>1, <1>3, <1>4, <1>5, <1>6, <2>1 DEF Knows
  <2>3. ASSUME job[p].at # "select", NEW r \in Calm'
        PROVE  r.id \in Ids(job[p].sel) <=> r.id \in Ids(Selected(p))'
    <3>1. r.id \notin Turned(Procs)
      <4> HIDE DEF Turned
      <4> QED BY <1>1 DEF Calm
    <3>2. r.id \in Ids(Selected(p)) <=> r.id \in Ids(Selected(p))'
      BY <1>11, <2>3, <3>1, TurnedMeans DEF Between
    <3>3. r.id \in Ids(job[p].sel) <=> r.id \in Ids(Selected(p))
      BY <1>1, <1>3, <2>1, <2>3 DEF Knows
    <3> QED BY <3>2, <3>3
  <2> QED BY <1>1, <1>9, <1>11, <2>1, <2>2, <2>3, StillKnows DEF Knows
<1> QED BY <1>7, <1>8, <1>9, <1>10, <1>11, JournalStep

(* A row of which another version is there keeps its marks and its place.   *)
LEMMA MarksAfterChange ==
    ASSUME TablesInv, JobInv, MarkInv, NEW b \in Rows, NEW c \in Rows, Change(b, c)
    PROVE  MarkInv'
<1>1. /\ b \in table["trn"] /\ c.id = b.id
      /\ table' = [table EXCEPT !["trn"] = (@ \ {b}) \cup {c}]
      /\ disturbed' = disturbed \cup Turned(Procs)
      /\ UNCHANGED <<num, archived, phase, files, second, job>>
  BY DEF Change
<1>2. /\ table'["trn"] = (table["trn"] \ {b}) \cup {c} /\ table'["his"] = table["his"]
      /\ table'["other"] = table["other"] /\ c.date = b.date
      /\ b \notin table["other"] /\ c \notin table["other"]
  BY <1>1, SameRow, ReportsAssumption DEF TablesInv, TableNames
<1>3. Ids(Present)' = Ids(Present)
  <2>1. Ids(table["trn"])' = Ids(table["trn"])
    BY <1>1, <1>2, IdsReplaced DEF Ids
  <2> QED BY <1>2, <2>1 DEF Ids, Present
<1>4. ASSUME NEW r \in Calm'
      PROVE  \E s \in Calm : s.id = r.id /\ s.date = r.date /\ Place(s) = Place(r)'
  <2> HIDE DEF Turned
  <2>1. r \in Calm \/ r = c
    BY <1>1, <1>2 DEF Calm
  <2>2. CASE r \in Calm
    BY <1>1, <1>2, <2>2 DEF Place
  <2>3. CASE r = c
    <3>1. b \in Calm
      BY <1>1, <2>3 DEF Calm
    <3>2. Place(b) = Place(c)'
      BY <1>1, <1>2 DEF Place
    <3> QED BY <1>1, <1>2, <2>3, <3>1, <3>2
  <2> QED BY <2>1, <2>2, <2>3
<1>5. NumInv' /\ CopyInv'
  <2>1. NumInv' /\ \A r \in Rows : r.id \notin Ids(Present)' => num'["trn"][r.id] = 0
    BY <1>1, <1>3 DEF MarkInv, NumInv, CopyInv, Keys
  <2>2. ASSUME phase = "copied", NEW r \in Calm', r.date = archived + 1
        PROVE  num["his"][r.id] = num["trn"][r.id]
    BY <1>4, <2>2 DEF MarkInv, CopyInv
  <2> QED BY <1>1, <2>1, <2>2 DEF CopyInv
<1>6. Undisturbed
  BY <1>1 DEF Undisturbed, Told
<1>7. ASSUME NEW r \in Calm'
      PROVE  \E s \in Calm : s.id = r.id /\ num'[Place(r)'][r.id] = num[Place(s)][r.id]
  BY <1>1, <1>4
<1>8. ASSUME NEW p \in Procs, Busy(p) PROVE Knows(p)'
  <2>1. Knows(p)
    BY <1>8, BusyKnows
  <2>2. \A r \in Calm' : r.date = job[p].q.from => job[p].table = Place(r)'
    BY <1>4, <2>1 DEF Knows
  <2>3. ASSUME job[p].at # "select", NEW r \in Calm'
        PROVE  r.id \in Ids(job[p].sel) <=> r.id \in Ids(Selected(p))'
    <3>1. r.id \notin Turned(Procs)
      <4> HIDE DEF Turned
      <4> QED BY <1>1 DEF Calm
    <3>2. r.id \in Ids(Selected(p)) <=> r.id \in Ids(Selected(p))'
      BY <1>8, <2>3, <3>1, TurnedMeans DEF Between
    <3>3. r.id \in Ids(job[p].sel) <=> r.id \in Ids(Selected(p))
      <4>1. PICK s \in Calm : s.id = r.id
        BY <1>4
      <4> QED BY <2>1, <2>3, <4>1 DEF Knows
    <3> QED BY <3>2, <3>3
  <2> QED BY <1>1, <1>6, <1>8, <2>1, <2>2, <2>3, StillKnows DEF Knows
<1> QED BY <1>3, <1>5, <1>6, <1>7, <1>8, JournalStep

LEMMA MarksAfterCopy ==
    ASSUME TablesInv, JobInv, MarkInv, ArchiveCopy
    PROVE  MarkInv'
<1> DEFINE L == Ids(Leaving)
           g == [k \in DOMAIN num["his"] |-> IF k \in L THEN num["trn"][k] ELSE num["his"][k]]
<1>1. /\ phase = "idle" /\ phase' = "copied" /\ archived' = archived
      /\ table' = [table EXCEPT !["his"] = @ \cup Leaving]
      /\ num' = [num EXCEPT !["his"] = g] /\ disturbed' = disturbed /\ Move
  BY DEF ArchiveCopy
<1>2. /\ table'["trn"] = table["trn"] /\ table'["his"] = table["his"] \cup Leaving
      /\ table'["other"] = table["other"] /\ Leaving \subseteq table["trn"]
  BY <1>1 DEF TablesInv, TableNames, Leaving
<1>3. /\ num["his"] \in [Keys -> Nat] /\ num["trn"] \in [Keys -> Nat]
      /\ DOMAIN num = TableNames
  BY DEF MarkInv, NumInv, TableNames
<1>4. /\ g \in [Keys -> Nat]
      /\ \A k \in Keys : g[k] = IF k \in L THEN num["trn"][k] ELSE num["his"][k]
  <2> HIDE DEF L
  <2> QED BY <1>3
<1> HIDE DEF g
<1>5. num'["his"] = g /\ num'["trn"] = num["trn"] /\ num'["other"] = num["other"]
  BY <1>1, <1>3 DEF TableNames
<1>6. Present' = Present /\ Calm' = Calm /\ \A r : Place(r)' = Place(r)
  BY <1>1, <1>2 DEF Present, Calm, Place
<1>7. \A r \in Calm : r \in Rows /\ r.id \in Keys /\ r.date \in Nat /\ archived \in Nat
  BY CalmRows DEF TablesInv
<1>8. ASSUME NEW r \in Rows, r.date <= archived PROVE r.id \notin L
  <2> SUFFICES ASSUME NEW s \in Leaving, s.id = r.id PROVE FALSE
    BY DEF Ids
  <2>1. s \in Rows /\ s.date > archived
    BY <1>1, <1>2 DEF TablesInv
  <2>2. s.date = r.date
    BY <2>1, SameRow
  <2> QED BY <1>8, <2>1, <2>2, ReportsAssumption DEF TablesInv
<1>9. NumInv'
  BY <1>1, <1>4 DEF MarkInv, NumInv, Keys
<1>10. CopyInv'
  <2>1. ASSUME NEW r \in Calm', r.date = archived + 1 PROVE num'["his"][r.id] = num'["trn"][r.id]
    <3>1. r \in Leaving
      BY <1>1, <1>6, <1>7, <2>1 DEF Calm, Leaving, TablesInv
    <3>2. r.id \in L
      BY <3>1 DEF Ids
    <3> QED BY <1>4, <1>5, <1>6, <1>7, <3>2
  <2> QED BY <1>1, <1>5, <1>6, <2>1 DEF MarkInv, CopyInv, Ids
<1>11. Undisturbed
  BY <1>1, MoveLeavesJobs
<1>12. \A r \in Calm : num'[Place(r)'][r.id] = num[Place(r)][r.id]
  <2> SUFFICES ASSUME NEW r \in Calm PROVE num'[Place(r)][r.id] = num[Place(r)][r.id]
    BY <1>6
  <2>1. CASE r.date <= archived
    <3>1. r.id \notin L
      BY <1>7, <1>8, <2>1
    <3>2. Place(r) = "his"
      BY <2>1, CalmRows
    <3> QED BY <1>4, <1>5, <1>7, <3>1, <3>2
  <2>2. CASE ~(r.date <= archived)
    <3>1. Place(r) = "trn"
      BY <2>2, CalmRows
    <3> QED BY <1>5, <3>1
  <2> QED BY <2>1, <2>2
<1>13. ASSUME NEW p \in Procs, Busy(p) PROVE Knows(p)'
  <2>1. /\ Knows(p) /\ job[p].q.from \in Nat /\ job[p].table \in {"trn", "his"}
        /\ job[p].at # "idle" /\ job[p].q.rep \in Slips
        /\ \A r, part, n : Takes(job[p].q, part, r, n) => r.date = job[p].q.from
        /\ \A r \in Selected(p) : /\ r \in Rows /\ r \in table[job[p].table]
                                  /\ r.date = job[p].q.from
    BY <1>13, BusyKnows
  <2>2. job'[p].q = job[p].q /\ job'[p].table = job[p].table
    BY <1>11, <2>1 DEF Undisturbed
  <2>3. CASE job[p].table = "trn"
    <3>1. Selected(p)' = Selected(p)
      BY <1>2, <1>5, <2>1, <2>2, <2>3, SlipSelected
    <3>2. Ids(Selected(p))' = Ids(Selected(p))
      BY <3>1 DEF Ids
    <3> QED BY <1>1, <1>6, <1>11, <1>13, <2>1, <3>2, StillKnows DEF Knows
  <2>4. CASE job[p].table = "his"
    <3>1. job[p].q.from <= archived
      BY <2>1, <2>4 DEF Knows
    <3>2. ASSUME NEW x, x \in Rows, x.date = job[p].q.from
          PROVE  x \notin Leaving /\ x.id \in Keys /\ num'["his"][x.id] = num["his"][x.id]
      <4>1. x.id \in Keys /\ x.id \notin L
        BY <1>8, <3>1, <3>2 DEF Keys, Ids
      <4> QED BY <1>4, <1>5, <4>1 DEF Ids
    <3>3. ASSUME NEW x \in Selected(p)' PROVE x \in Selected(p)
      <4>1. x \in table["his"] \cup Leaving /\ Takes(job[p].q, job'[p].part, x, num'["his"][x.id])
        BY <1>2, <2>2, <2>4, <3>3 DEF Selected
      <4>2. x \in Rows /\ x.date = job[p].q.from
        BY <1>2, <2>1, <4>1 DEF TablesInv
      <4>3. x \in table["his"] /\ Takes(job[p].q, job'[p].part, x, num["his"][x.id])
        BY <3>2, <4>1, <4>2
      <4> QED BY <2>1, <2>4, <4>3 DEF Selected, Takes, Slips
    <3>4. ASSUME NEW x \in Selected(p) PROVE x \in Selected(p)'
      <4>1. x \in Rows /\ x.date = job[p].q.from /\ x \in table["his"]
            /\ Takes(job[p].q, job[p].part, x, num["his"][x.id])
        BY <2>1, <2>4, <3>4 DEF Selected
      <4>2. x \in table'["his"] /\ Takes(job[p].q, job[p].part, x, num'["his"][x.id])
        BY <1>2, <3>2, <4>1
      <4> QED BY <2>1, <2>2, <2>4, <4>2 DEF Selected, Takes, Slips
    <3>5. Ids(Selected(p))' = Ids(Selected(p))
      <4>1. Selected(p)' = Selected(p)
        BY <3>3, <3>4
      <4> QED BY <4>1 DEF Ids
    <3> QED BY <1>1, <1>6, <1>11, <1>13, <2>1, <3>5, StillKnows DEF Knows
  <2> QED BY <2>1, <2>3, <2>4
<1>14. Ids(Present)' = Ids(Present)
  BY <1>6 DEF Ids
<1> QED BY <1>6, <1>9, <1>10, <1>11, <1>12, <1>13, <1>14, JournalStep

LEMMA MarksAfterDate ==
    ASSUME TablesInv, JobInv, MarkInv, ArchiveDate
    PROVE  MarkInv'
<1> DEFINE D == Ids({r \in Leaving : \E p \in Procs :
                        Busy(p) /\ job[p].table = "trn" /\ job[p].q.from = r.date})
<1>1. /\ phase = "copied" /\ phase' = "dated" /\ archived' = archived + 1
      /\ table' = table /\ num' = num /\ disturbed' = disturbed \cup D /\ Move
  BY DEF ArchiveDate
<1> HIDE DEF D
<1>2. Present' = Present /\ Calm' \subseteq Calm
  BY <1>1 DEF Present, Calm
<1>3. Ids(Present)' = Ids(Present)
  BY <1>2 DEF Ids
<1>4. ASSUME NEW r \in Calm'
      PROVE  /\ r \in Calm /\ r \in Rows /\ r.date \in Nat /\ archived \in Nat /\ r.id \notin D
  <2>1. r.id \notin D
    BY <1>1 DEF Calm
  <2> QED BY <1>2, <2>1, CalmRows DEF TablesInv
<1>5. NumInv' /\ CopyInv'
  BY <1>1, <1>3 DEF MarkInv, NumInv, CopyInv, Keys
<1>6. Undisturbed
  BY <1>1, MoveLeavesJobs
<1>7. ASSUME NEW r \in Calm', r.date # archived + 1 PROVE Place(r)' = Place(r)
  BY <1>1, <1>4, <1>7 DEF Place
<1>8. ASSUME NEW r \in Calm', r.date = archived + 1
      PROVE  /\ Place(r) = "trn" /\ Place(r)' = "his"
             /\ num'[Place(r)'][r.id] = num[Place(r)][r.id]
             /\ \E s \in Leaving : s.id = r.id /\ s.date = r.date
  <2>1. r.id \in Ids(table["trn"])
    BY <1>1, <1>4, <1>8 DEF Calm, TablesInv, Ids
  <2>2. PICK s \in table["trn"] : s.id = r.id
    BY <2>1 DEF Ids
  <2>3. s \in Rows /\ s.date = r.date
    BY <1>4, <2>2, SameRow DEF TablesInv
  <2>4. s \in Leaving
    BY <1>4, <1>8, <2>2, <2>3 DEF Leaving
  <2>5. Place(r) = "trn"
    BY <1>4, <1>8, CalmRows
  <2>6. Place(r)' = "his"
    BY <1>1, <1>4, <1>8, ReportsAssumption DEF Place, TablesInv
  <2>7. num["his"][r.id] = num["trn"][r.id]
    BY <1>1, <1>4, <1>8 DEF MarkInv, CopyInv
  <2> QED BY <1>1, <2>2, <2>3, <2>4, <2>5, <2>6, <2>7
<1>9. \A r \in Calm' : r \in Calm /\ num'[Place(r)'][r.id] = num[Place(r)][r.id]
  BY <1>1, <1>4, <1>7, <1>8
<1>10. ASSUME NEW p \in Procs, Busy(p) PROVE Knows(p)'
  <2>1. /\ Knows(p) /\ job[p].q.from \in Nat /\ job[p].table \in {"trn", "his"}
        /\ job[p].at # "idle" /\ job[p].q.rep \in Slips
    BY <1>10, BusyKnows
  <2>2. job'[p].q = job[p].q /\ job'[p].table = job[p].table
    BY <1>6, <2>1 DEF Undisturbed
  <2>3. ASSUME NEW r \in Calm', r.date = job[p].q.from PROVE job[p].table = Place(r)'
    <3>1. CASE r.date # archived + 1
      BY <1>4, <1>7, <2>1, <2>3, <3>1 DEF Knows
    <3>2. CASE r.date = archived + 1
      <4>1. PICK s \in Leaving : s.id = r.id /\ s.date = r.date
        BY <1>8, <3>2
      <4>2. job[p].table = "trn" => r.id \in D
        BY <1>10, <2>3, <4>1 DEF D, Ids
      <4> QED BY <1>4, <1>8, <2>1, <3>2, <4>2
    <3> QED BY <3>1, <3>2
  <2>4. Ids(Selected(p))' = Ids(Selected(p))
    <3>1. Selected(p)' = Selected(p)
      BY <1>1, <2>1, <2>2, SlipSelected
    <3> QED BY <3>1 DEF Ids
  <2>5. job[p].table = "his" => job[p].q.from <= archived'
    <3>1. archived \in Nat
      BY DEF TablesInv
    <3> QED BY <1>1, <2>1, <3>1 DEF Knows
  <2> QED BY <1>4, <1>6, <1>10, <2>1, <2>3, <2>4, <2>5, StillKnows DEF Knows
<1> QED BY <1>3, <1>5, <1>6, <1>9, <1>10, JournalStep

LEMMA MarksAfterDelete ==
    ASSUME TablesInv, JobInv, MarkInv, ArchiveDelete
    PROVE  MarkInv'
<1>1. /\ phase = "dated" /\ phase' = "idle" /\ archived' = archived
      /\ table' = [table EXCEPT !["trn"] = {r \in @ : r.date > archived}]
      /\ num' = num /\ disturbed' = disturbed /\ Move
  BY DEF ArchiveDelete
<1>2. /\ table'["trn"] = {r \in table["trn"] : r.date > archived}
      /\ table'["his"] = table["his"] /\ table'["other"] = table["other"]
      /\ archived \in Nat /\ table["trn"] \subseteq Rows
      /\ \A r \in table["trn"] : r.date <= archived => r.id \in Ids(table["his"])
  BY <1>1 DEF TablesInv, TableNames
<1>3. Ids(Present)' = Ids(Present)
  <2>1. Ids(Present)' \subseteq Ids(Present)
    BY <1>2 DEF Present, Ids
  <2>2. ASSUME NEW r \in Present PROVE r.id \in Ids(Present)'
    <3>1. CASE r \in table["trn"] /\ r.date <= archived
      BY <1>2, <3>1 DEF Present, Ids
    <3>2. CASE r \in table["trn"] /\ ~(r.date <= archived)
      <4>1. r.date \in Nat
        BY <1>2, <3>2, ReportsAssumption
      <4> QED BY <1>2, <3>2, <4>1 DEF Present, Ids
    <3>3. CASE r \in table["his"] \cup table["other"]
      BY <1>2, <3>3 DEF Present, Ids
    <3> QED BY <3>1, <3>2, <3>3 DEF Present
  <2>3. Ids(Present) \subseteq Ids(Present)'
    <3> HIDE DEF Present
    <3> QED BY <2>2 DEF Ids
  <2> QED BY <2>1, <2>3
<1>4. Calm' \subseteq Calm /\ \A r : Place(r)' = Place(r)
  BY <1>1, <1>2 DEF Calm, Place
<1>5. NumInv' /\ CopyInv'
  BY <1>1, <1>3 DEF MarkInv, NumInv, CopyInv, Keys
<1>6. Undisturbed
  BY <1>1, MoveLeavesJobs
<1>7. ASSUME NEW p \in Procs, Busy(p) PROVE Knows(p)'
  <2>1. /\ Knows(p) /\ job[p].q.from \in Nat /\ job[p].table \in {"trn", "his"}
        /\ job[p].at # "idle" /\ job[p].q.rep \in Slips
        /\ \A r \in Selected(p) : /\ r \in Rows /\ r \in table[job[p].table]
                                  /\ r.date = job[p].q.from
    BY <1>7, BusyKnows
  <2>2. job'[p].q = job[p].q /\ job'[p].table = job[p].table
    BY <1>6, <2>1 DEF Undisturbed
  <2>3. ASSUME NEW r \in Calm', job[p].at # "select"
        PROVE  r.id \in Ids(job[p].sel) <=> r.id \in Ids(Selected(p))'
    <3>1. r \in Calm /\ r \in Rows
      BY <1>4, CalmRows
    <3>2. r.id \in Ids(job[p].sel) <=> r.id \in Ids(Selected(p))
      BY <2>1, <2>3, <3>1 DEF Knows
    <3>3. ASSUME NEW x \in Selected(p), x.id = r.id PROVE x \in Selected(p)'
      <4>1. x \in Rows /\ x \in table[job[p].table] /\ x.date = job[p].q.from /\ x.date = r.date
        BY <2>1, <3>1, <3>3, SameRow
      <4>2. job[p].table = Place(r)
        BY <2>1, <3>1, <4>1 DEF Knows
      <4>3. x \in table'[job[p].table]
        <5>1. CASE job[p].table = "his"
          BY <1>2, <4>1, <5>1
        <5>2. CASE job[p].table = "trn"
          <6>1. ~(r.date <= archived) /\ r.date \in Nat
            BY <3>1, <4>2, <5>2, CalmRows
          <6> QED BY <1>2, <4>1, <5>2, <6>1
        <5> QED BY <2>1, <5>1, <5>2
      <4> QED BY <1>1, <2>1, <2>2, <3>3, <4>3 DEF Selected, Takes, Slips
    <3>4. ASSUME NEW x \in Selected(p)' PROVE x \in Selected(p)
      <4>1. x \in table'[job[p].table]
        BY <2>2, <3>4 DEF Selected
      <4>2. x \in table[job[p].table]
        BY <1>2, <2>1, <4>1
      <4> QED BY <1>1, <2>1, <2>2, <3>4, <4>2 DEF Selected, Takes, Slips
    <3>5. r.id \in Ids(Selected(p)) <=> r.id \in Ids(Selected(p))'
      <4> HIDE DEF Selected
      <4> QED BY <3>3, <3>4 DEF Ids
    <3> QED BY <3>2, <3>5
  <2> QED BY <1>1, <1>4, <1>6, <1>7, <2>1, <2>3, StillKnows DEF Knows
<1>8. \A r \in Calm' : r \in Calm /\ num'[Place(r)'][r.id] = num[Place(r)][r.id]
  BY <1>1, <1>4
<1> QED BY <1>3, <1>5, <1>6, <1>7, <1>8, JournalStep

LEMMA MarksStep == TablesInv /\ JobInv /\ MarkInv /\ [Next]_vars => MarkInv'
<1> SUFFICES ASSUME TablesInv, JobInv, MarkInv, [Next]_vars PROVE MarkInv'
  OBVIOUS
<1>1. ASSUME NEW p \in Procs, NEW q \in Requests, Ask(p, q) PROVE MarkInv'
  BY <1>1, MarksAfterAsk
<1>2. ASSUME NEW p \in Procs, Select(p) PROVE MarkInv'
  BY <1>2, MarksAfterSelect
<1>3. ASSUME NEW p \in Procs, ReadBank(p) PROVE MarkInv'
  BY <1>3, MarksAfterReadBank
<1>4. ASSUME NEW p \in Procs, Output(p) PROVE MarkInv'
  BY <1>4, MarksAfterOutput
<1>5. ASSUME NEW p \in Procs, Mark(p) PROVE MarkInv'
  BY <1>5, MarksAfterMark
<1>6. ASSUME NEW p \in Procs, Answer(p) PROVE MarkInv'
  BY <1>6, MarksAfterAnswer
<1>7. ASSUME NEW r \in Rows, Arrive(r) PROVE MarkInv'
  BY <1>7, MarksAfterArrive
<1>8. ASSUME NEW r \in Rows, NEW s \in Rows, Change(r, s) PROVE MarkInv'
  BY <1>8, MarksAfterChange
<1>9. CASE UNCHANGED <<table, num, archived, phase, job, disturbed>>
  <2>1. /\ Calm' = Calm /\ Present' = Present /\ (\A r : Place(r)' = Place(r))
        /\ (\A r : SlipsOf(r)' = SlipsOf(r))
    BY <1>9 DEF Calm, Present, Place, SlipsOf, Made, Told, Ids
  <2>2. \A p : Knows(p)' <=> Knows(p)
    BY <1>9 DEF Knows, Calm, Place, Selected, Ids
  <2>3. Ids(Present)' = Ids(Present)
    BY <2>1 DEF Ids
  <2> QED BY <1>9, <2>1, <2>2, <2>3
          DEF MarkInv, NumInv, CopyInv, CountInv, KnowsInv, SelInv, Busy, Keys, Ids
<1> QED BY <1>1, <1>2, <1>3, <1>4, <1>5, <1>6, <1>7, <1>8, <1>9,
           MarksAfterCopy, MarksAfterDate, MarksAfterDelete DEF Next, Tick, vars

LEMMA MarksInit == Init => MarkInv
<1> SUFFICES ASSUME Init PROVE MarkInv
  OBVIOUS
<1>1. /\ num = [t \in TableNames |-> [k \in Keys |-> 0]]
      /\ phase = "idle" /\ \A p \in Procs : job[p].at = "idle"
  BY DEF Init, TableNames, Idle, Keys
<1>2. NumInv /\ CopyInv
  BY <1>1 DEF NumInv, CopyInv, TableNames, Keys, Ids
<1>3. CountInv
  <2>1. \A r : SlipsOf(r) = {}
    BY <1>1 DEF SlipsOf, Made, Told
  <2>2. \A r \in Calm : r.id \in Keys /\ Place(r) \in {"trn", "his"}
    BY ReportsInit, CalmRows
  <2> QED BY <1>1, <2>1, <2>2, FS_EmptySet DEF CountInv, TableNames
<1>4. KnowsInv /\ SelInv
  BY <1>1 DEF KnowsInv, SelInv, Busy
<1> QED BY <1>2, <1>3, <1>4 DEF MarkInv

(* The marks tell what was printed: at any time a row is marked as often as *)
(* slips were made for it, however it changed, was archived and was printed *)
(* by others meanwhile - unless something brought it under the condition of *)
(* an UPDATE or out of it between SELECT and UPDATE, its day was archived   *)
(* under a slip, its mark was put on the copy left behind, or the UPDATE    *)
(* failed.                                                                  *)
THEOREM MarksAreTrue == Spec => []MarksTellPrints
<1>1. Init => TablesInv /\ JobInv /\ MarkInv
  BY ReportsInit, MarksInit
<1>2. (TablesInv /\ JobInv /\ MarkInv) /\ [Next]_vars => (TablesInv /\ JobInv /\ MarkInv)'
  BY TablesStep, JobStep, MarksStep
<1>3. MarkInv => MarksTellPrints
  BY DEF MarkInv, CountInv, Calm, MarksTellPrints
<1> QED BY <1>1, <1>2, <1>3, PTL DEF Spec

-----------------------------------------------------------------------------
(* The tables stay finite, and so does what a request selects.              *)
FiniteInv == IsFiniteSet(table["trn"]) /\ IsFiniteSet(table["his"])

LEMMA FiniteStep == TablesInv /\ FiniteInv /\ [Next]_vars => FiniteInv'
<1> SUFFICES ASSUME TablesInv, FiniteInv, [Next]_vars PROVE FiniteInv'
  OBVIOUS
<1>0. DOMAIN table = TableNames /\ IsFiniteSet(table["trn"]) /\ IsFiniteSet(table["his"])
  BY DEF TablesInv, FiniteInv
<1>1. CASE UNCHANGED table
  BY <1>1 DEF FiniteInv
<1>2. ASSUME NEW r \in Rows, Arrive(r) PROVE FiniteInv'
  <2>1. table'["trn"] = table["trn"] \cup {r} /\ table'["his"] = table["his"]
    BY <1>0, <1>2 DEF Arrive, TableNames
  <2>2. IsFiniteSet(table["trn"] \cup {r})
    BY <1>0, FS_AddElement
  <2> QED BY <1>0, <2>1, <2>2 DEF FiniteInv
<1>6. ASSUME NEW r \in Rows, NEW s \in Rows, Change(r, s) PROVE FiniteInv'
  <2>1. table'["trn"] = (table["trn"] \ {r}) \cup {s} /\ table'["his"] = table["his"]
    BY <1>0, <1>6 DEF Change, TableNames
  <2>2. IsFiniteSet(table["trn"] \ {r})
    BY <1>0, FS_Subset
  <2>3. IsFiniteSet((table["trn"] \ {r}) \cup {s})
    BY <2>2, FS_AddElement
  <2> QED BY <1>0, <2>1, <2>3 DEF FiniteInv
<1>3. CASE ArchiveCopy
  <2>1. table'["trn"] = table["trn"] /\ table'["his"] = table["his"] \cup Leaving
    BY <1>0, <1>3 DEF ArchiveCopy, TableNames
  <2>2. Leaving \in SUBSET table["trn"]
    BY DEF Leaving
  <2>3. IsFiniteSet(Leaving)
    BY <1>0, <2>2, FS_Subset
  <2>4. IsFiniteSet(table["his"] \cup Leaving)
    BY <1>0, <2>3, FS_Union
  <2> QED BY <1>0, <2>1, <2>4 DEF FiniteInv
<1>4. CASE ArchiveDelete
  <2>1. table'["trn"] \in SUBSET table["trn"] /\ table'["his"] = table["his"]
    BY <1>0, <1>4 DEF ArchiveDelete, TableNames
  <2>2. IsFiniteSet(table'["trn"])
    BY <1>0, <2>1, FS_Subset
  <2> QED BY <1>0, <2>1, <2>2 DEF FiniteInv
<1>5. ASSUME NEW p \in Procs,
             \/ \E q \in Requests : Ask(p, q)
             \/ Select(p) \/ ReadBank(p) \/ Output(p) \/ Mark(p) \/ Answer(p)
      PROVE  UNCHANGED table
  BY <1>5 DEF Ask, Select, ReadBank, Output, Mark, Answer
<1> QED BY <1>1, <1>2, <1>3, <1>4, <1>5, <1>6 DEF Next, Tick, ArchiveDate, vars

LEMMA SelectedRows ==
    ASSUME TablesInv, FiniteInv, NEW p \in Procs, job[p].table \in TableNames
    PROVE  /\ IsFiniteSet(Selected(p)) /\ Selected(p) \subseteq Rows \cup Other
           /\ \A r \in Selected(p) : Takes(job[p].q, job[p].part, r, num[job[p].table][r.id])
<1>1. table[job[p].table] \subseteq Rows \cup Other
  BY DEF TablesInv
<1>2. IsFiniteSet(table[job[p].table])
  BY ReportsAssumption DEF TablesInv, FiniteInv, TableNames
<1>3. Selected(p) \in SUBSET table[job[p].table]
  BY DEF Selected
<1>4. IsFiniteSet(Selected(p))
  BY <1>2, <1>3, FS_Subset
<1> QED BY <1>1, <1>3, <1>4 DEF Selected

-----------------------------------------------------------------------------
(* A form is whole when each of the rows is on one of its lines and its     *)
(* footers add up to them; it is on paper when every section gave pages.    *)
Whole(q, S, form) ==
    Exact(q, S) => /\ Covers(S, form)
                   /\ q.rep \in WithFoot => FootTotal(q, form) = Cells(Counted(q, S))
OnPaper(out) == Sheets(out) /\ out # <<>> /\ \A i \in 1 .. Len(out) : out[i].count > 0

LEMMA FootsAre ==
    ASSUME NEW out, NEW c PROVE Foots(out, c) = FootSum(out, c)
BY DEF Foots, FootSum

LEMMA ReadsRows ==
    ASSUME NEW S, S \subseteq Rows \cup Other, IsFiniteSet(S)
    PROVE  /\ Priced(S) /\ Flagged(S) /\ Directed(S)
           /\ \A r \in S : r.booked \in Nat
           /\ \A r \in S : r.tab = "fee" => NoteNames[r.type] \in Nat
BY ReportsAssumption, ColumnsAssumption DEF Priced, Flagged, Directed

(* What a request writes for the rows it selected at once.                  *)
LEMMA SectionsWhole ==
    ASSUME NEW q \in Requests, q.rep \notin ByBank, NEW part,
           NEW S, S \subseteq Rows \cup Other, IsFiniteSet(S), S # {},
           q.rep \in {"PF10_780", "PF10_782"} => \A r \in S : r.tab = "fee",
           NEW form, form = Sections(q, part, S)
    PROVE  /\ Sheets(form) /\ form # <<>> /\ Whole(q, S, form)
           /\ q.rep = "PrintInNoteAdd_KS" => Len(form) = 1
           /\ q.rep = "PrintDiffNote" => Covers(S, form)
<1>0. /\ Priced(S) /\ Flagged(S) /\ \A r \in S : r.booked \in Nat
      /\ \A r \in S : r.tab = "fee" => NoteNames[r.type] \in Nat
  BY ReadsRows
<1>1. q.rep \in Reporting
  BY RequestsAssumption
<1>2. CASE q.rep \in {"PrintOutNoteTotal", "PrintInNoteTotal", "PrintClearTotal_PF"}
  <2>1. /\ Covers(S, form)
        /\ <<FootSum(form, 1) + FootSum(form, 3), FootSum(form, 2) + FootSum(form, 4)>> = Cells(S)
    <3>1. CASE q.rep = "PrintOutNoteTotal"
      <4>1. form = PrintOutNoteTotal(S)
        BY <3>1 DEF Sections
      <4> QED BY <1>0, <4>1, PrintOutNoteTotalIs
    <3>2. CASE q.rep = "PrintInNoteTotal"
      <4>1. form = PrintInNoteTotal(S)
        BY <3>2 DEF Sections
      <4> QED BY <1>0, <4>1, PrintInNoteTotalIs
    <3>3. CASE q.rep = "PrintClearTotal_PF"
      <4>1. form = PrintClearTotal_PF(S)
        BY <3>3 DEF Sections
      <4> QED BY <1>0, <4>1, PrintClearTotalIs
    <3> QED BY <1>2, <3>1, <3>2, <3>3
  <2>2. FootTotal(q, form) =
          <<FootSum(form, 1) + FootSum(form, 3), FootSum(form, 2) + FootSum(form, 4)>>
    BY <1>2, FootsAre DEF FootTotal
  <2>3. Counted(q, S) = S
    BY <1>2 DEF Counted
  <2>4. Sheets(form) /\ form # <<>>
    BY <2>1, CoversSheets
  <2> QED BY <1>2, <2>1, <2>2, <2>3, <2>4 DEF Whole
<1>3. CASE q.rep \in {"PrintOutNoteList", "PrintInNoteList"}
  <2>1. Covers(S, form) /\ <<FootSum(form, 1), FootSum(form, 2)>> = Cells(S)
    <3>1. CASE q.rep = "PrintOutNoteList"
      <4>1. form = PrintOutNoteList(S)
        BY <3>1 DEF Sections
      <4> QED BY <1>0, <4>1, PrintOutNoteListIs
    <3>2. CASE q.rep = "PrintInNoteList"
      <4>1. form = PrintInNoteList(S)
        BY <3>2 DEF Sections
      <4> QED BY <1>0, <4>1, PrintInNoteListIs
    <3> QED BY <1>3, <3>1, <3>2
  <2>2. FootTotal(q, form) = <<FootSum(form, 1), FootSum(form, 2)>>
    BY <1>3, FootsAre DEF FootTotal
  <2>3. Counted(q, S) = S
    BY <1>3 DEF Counted
  <2>4. Sheets(form) /\ form # <<>>
    BY <2>1, CoversSheets
  <2> QED BY <1>3, <2>1, <2>2, <2>3, <2>4 DEF Whole
<1>4. CASE q.rep \in {"QryOutNote", "QryInNote"}
  <2>1. /\ Covers(S, form)
        /\ <<FootSum(form, 1), FootSum(form, 2)>> = Cells({r \in S : Cleared(r)})
    <3>1. CASE q.rep = "QryOutNote"
      <4>1. form = QryOutNote(S)
        BY <3>1 DEF Sections
      <4> QED BY <1>0, <4>1, QryOutNoteIs
    <3>2. CASE q.rep = "QryInNote"
      <4>1. form = QryInNote(S)
        BY <3>2 DEF Sections
      <4> QED BY <1>0, <4>1, QryInNoteIs
    <3> QED BY <1>4, <3>1, <3>2
  <2>2. FootTotal(q, form) = <<FootSum(form, 1), FootSum(form, 2)>>
    BY <1>4, FootsAre DEF FootTotal
  <2>3. Counted(q, S) = {r \in S : Cleared(r)}
    BY <1>4 DEF Counted
  <2>4. Sheets(form) /\ form # <<>>
    BY <2>1, CoversSheets
  <2> QED BY <1>4, <2>1, <2>2, <2>3, <2>4 DEF Whole
<1>5. CASE q.rep \in {"PF10_780", "PF10_782"}
  <2>1. form = <<FeeSection(S)>>
    BY <1>5 DEF Sections, PF10_780, PF10_782
  <2>2. \A r \in S : NoteNames[r.type] \in Nat
    BY <1>0, <1>5
  <2>3. Sheets(form) /\ form # <<>>
    <3>1. Sheets(<<FeeSection(S)>>) /\ Len(<<FeeSection(S)>>) = 1
      BY <2>2, FeeSheets
    <3> QED BY <2>1, <3>1, EmptyList
  <2>4. ASSUME Exact(q, S)
        PROVE  Covers(S, form) /\ FootTotal(q, form) = Cells(Counted(q, S))
    <3>1. \A r \in S : NoteNames[r.type] = 1
      BY <1>5, <2>4 DEF Exact
    <3>2. Covers(S, form) /\ <<FootSum(form, 1), FootSum(form, 2)>> = Cells(S)
      BY <1>0, <2>1, <3>1, FeeSectionIs
    <3>3. FootTotal(q, form) = <<FootSum(form, 1), FootSum(form, 2)>>
      BY <1>5, FootsAre DEF FootTotal
    <3>4. Counted(q, S) = S
      BY <1>5 DEF Counted
    <3> QED BY <3>2, <3>3, <3>4
  <2> QED BY <1>5, <2>3, <2>4 DEF Whole
<1>6. CASE q.rep = "PF10_781"
  <2>1. form = PF10_781(S)
    BY <1>6 DEF Sections
  <2>2. Sheets(form) /\ form # <<>>
    <3>1. Sheets(PF10_781(S)) /\ Len(PF10_781(S)) = 1
      BY PF10_781Sheets
    <3> QED BY <2>1, <3>1, EmptyList
  <2>3. ASSUME Exact(q, S) PROVE Covers(S, form)
    <3>1. \A r \in S : r.booked \in Nat /\ r.booked <= 1
      BY <1>0, <1>6, <2>3 DEF Exact
    <3> QED BY <2>1, <3>1, PF10_781Is
  <2> QED BY <1>6, <2>2, <2>3 DEF Whole, WithFoot, NamedFirst
<1>7. CASE q.rep = "PrintDiffNote"
  <2>1. form = PrintClearDiff(S)
    BY <1>7 DEF Sections
  <2>2. Covers(S, form)
    BY <1>0, <2>1, PrintClearDiffIs
  <2>3. Sheets(form) /\ form # <<>>
    BY <2>2, CoversSheets
  <2> QED BY <1>7, <2>2, <2>3 DEF Whole, WithFoot, NamedFirst
<1>8. CASE q.rep \in Slips \cup {"PrintInQuery", "PrintOutQuery", "MailQuery", "QryOutQuery",
                                "QryInQuery", "QryAgreementList"}
  <2>1. form = PlainList(S)
    BY <1>8 DEF Sections, Slips
  <2>2. Covers(S, form) /\ Len(form) = 1
    BY <2>1, PlainCovers
  <2>3. Sheets(form) /\ form # <<>>
    BY <2>2, CoversSheets
  <2> QED BY <1>8, <2>2, <2>3 DEF Whole, WithFoot, NamedFirst, Slips
<1> QED BY <1>1, <1>2, <1>3, <1>4, <1>5, <1>6, <1>7, <1>8
        DEF Reporting, Temporary, ByBank, ByArchive, NamedFirst
-----------------------------------------------------------------------------
(* What the steps of a request do to its form.                              *)
LEMMA AskGives ==
    ASSUME DOMAIN job = Procs, NEW p \in Procs, NEW q \in Requests, Ask(p, q)
    PROVE  /\ OnlyThis(p) /\ job[p].at = "idle" /\ job'[p].at = "select" /\ job'[p].q = q
           /\ job'[p].name = NameOf(p, q) /\ job'[p].second = second
           /\ job'[p].sel = {} /\ job'[p].seen = <<>> /\ job'[p].out = <<>>
           /\ UNCHANGED <<files, second>>
<1> DEFINE n == NameOf(p, q)
           a == IF q.rep = "PrintDiffNote" /\ q.org \in Level1 THEN 1 ELSE 2
           w == Ids(Wanted(q, 2))
           s == q.from <= archived /\ archived < q.to
           m == phase # "idle"
           t == TableFor(q)
           k == [at |-> "select", q |-> q, table |-> t,
                 name |-> n, second |-> second, part |-> a, wanted |-> w, spans |-> s,
                 moved |-> m, missed |-> {}, sel |-> {}, banks |-> <<>>,
                 seen |-> << >>, todo |-> <<>>, out |-> <<>>, got |-> <<>>,
                 code |-> "none"]
<1>1. job[p].at = "idle" /\ job' = [job EXCEPT ![p] = k] /\ UNCHANGED <<files, second>>
  BY DEF Ask
<1>2. /\ k.at = "select" /\ k.q = q /\ k.name = n /\ k.second = second
      /\ k.sel = {} /\ k.seen = <<>> /\ k.out = <<>>
  <2> HIDE DEF n, a, w, s, m, t
  <2> QED OBVIOUS
<1> HIDE DEF k
<1> QED BY <1>1, <1>2 DEF OnlyThis

LEMMA FetchedGives ==
    ASSUME NEW p, DOMAIN job[p] = Fields, NEW S
    PROVE  LET j == job[p] k == Fetched(p, S) q == j.q
               first == q.rep \in NamedFirst \/ j.out # <<>>
           IN  /\ k.out = j.out /\ k.part = j.part /\ k.seen = j.seen
               /\ k.name = IF first THEN j.name ELSE NameOf(p, q)
               /\ k.second = IF first THEN j.second ELSE second
               /\ \/ /\ k.at = "bank" /\ q.rep \in ByBank /\ k.sel = {}
                     /\ \/ k.banks = NoteTypes(q)
                        \/ S # {} /\ k.banks = Values(S, BankField(q))
                  \/ /\ k.at = "print" /\ S = {} /\ q.rep \in {"PrintOutJJQD", "PrintInJJQD"}
                     /\ k.todo = <<Section(<<Blank>>, 1, <<0>>)>> /\ k.sel = j.sel \cup S
                  \/ /\ k.at = "print" /\ S # {} /\ q.rep \notin ByBank
                     /\ k.todo = Sections(q, j.part, S) /\ k.sel = j.sel \cup S
                  \/ k.at = "done" /\ k.code = "norecord"
<1> DEFINE j == job[p]  q == j.q
           n == IF q.rep \in NamedFirst \/ j.out # <<>> THEN j.name ELSE NameOf(p, q)
           c == IF q.rep \in NamedFirst \/ j.out # <<>> THEN j.second ELSE second
           m == {r \in Wanted(q, j.part) : r.id \in j.wanted} \ S
           k == [j EXCEPT !.sel = @ \cup S, !.missed = m, !.name = n, !.second = c]
           b1 == NoteTypes(q)
           b2 == Values(S, BankField(q))
           t1 == <<Section(<<Blank>>, 1, <<0>>)>>
           t2 == Sections(q, j.part, S)
           Same(e) == e.out = j.out /\ e.part = j.part /\ e.seen = j.seen
                      /\ e.name = n /\ e.second = c
<1>1. Fetched(p, S) =
          CASE q.rep = "PrintNoteTotal_PF" ->
               [k EXCEPT !.at = "bank", !.banks = b1, !.sel = {}, !.missed = {}]
          [] S # {} /\ q.rep \in ByBank \ {"PrintNoteTotal_PF"} ->
               [k EXCEPT !.at = "bank", !.banks = b2, !.sel = {}]
          [] S = {} /\ q.rep \in {"PrintOutJJQD", "PrintInJJQD"} ->
               [k EXCEPT !.at = "print", !.todo = t1]
          [] S # {} /\ q.rep \notin ByBank ->
               [k EXCEPT !.at = "print", !.todo = t2]
          [] OTHER -> [k EXCEPT !.at = "done", !.code = "norecord"]
  BY DEF Fetched
<1>2. DOMAIN k = Fields /\ Same(k) /\ k.sel = j.sel \cup S
  <2> HIDE DEF n, c, m
  <2> QED BY DEF Fields
<1>3. (Fetched(p, S).name = n /\ Fetched(p, S).second = c) =>
        /\ Fetched(p, S).name = IF q.rep \in NamedFirst \/ j.out # <<>> THEN j.name ELSE NameOf(p, q)
        /\ Fetched(p, S).second = IF q.rep \in NamedFirst \/ j.out # <<>> THEN j.second ELSE second
  OBVIOUS
<1> HIDE DEF k, m, n, c, b1, b2, t1, t2
<1>4. CASE q.rep = "PrintNoteTotal_PF"
  <2> DEFINE e == [k EXCEPT !.at = "bank", !.banks = b1, !.sel = {}, !.missed = {}]
  <2>1. Fetched(p, S) = e
    BY <1>1, <1>4 DEF ByBank
  <2>2. Same(e) /\ e.at = "bank" /\ e.sel = {} /\ e.banks = b1
    BY <1>2 DEF Fields
  <2> HIDE DEF e
  <2> QED BY <1>3, <1>4, <2>1, <2>2 DEF b1, ByBank
<1>5. CASE q.rep # "PrintNoteTotal_PF" /\ S # {} /\ q.rep \in ByBank
  <2> DEFINE e == [k EXCEPT !.at = "bank", !.banks = b2, !.sel = {}]
  <2>1. Fetched(p, S) = e
    BY <1>1, <1>5
  <2>2. Same(e) /\ e.at = "bank" /\ e.sel = {} /\ e.banks = b2
    BY <1>2 DEF Fields
  <2> HIDE DEF e
  <2> QED BY <1>3, <1>5, <2>1, <2>2 DEF b2
<1>6. CASE q.rep # "PrintNoteTotal_PF" /\ S = {} /\ q.rep \in {"PrintOutJJQD", "PrintInJJQD"}
  <2> DEFINE e == [k EXCEPT !.at = "print", !.todo = t1]
  <2>1. Fetched(p, S) = e
    BY <1>1, <1>6
  <2>2. Same(e) /\ e.at = "print" /\ e.sel = j.sel \cup S /\ e.todo = t1
    BY <1>2 DEF Fields
  <2> HIDE DEF e
  <2> QED BY <1>3, <1>6, <2>1, <2>2 DEF t1
<1>7. CASE S # {} /\ q.rep \notin ByBank
  <2> DEFINE e == [k EXCEPT !.at = "print", !.todo = t2]
  <2>1. Fetched(p, S) = e
    BY <1>1, <1>7 DEF ByBank
  <2>2. Same(e) /\ e.at = "print" /\ e.sel = j.sel \cup S /\ e.todo = t2
    BY <1>2 DEF Fields
  <2> HIDE DEF e
  <2> QED BY <1>3, <1>7, <2>1, <2>2 DEF t2
<1>8. CASE q.rep # "PrintNoteTotal_PF" /\ S = {} /\ q.rep \notin {"PrintOutJJQD", "PrintInJJQD"}
  <2> DEFINE e == [k EXCEPT !.at = "done", !.code = "norecord"]
  <2>1. Fetched(p, S) = e
    BY <1>1, <1>8
  <2>2. Same(e) /\ e.at = "done" /\ e.code = "norecord"
    BY <1>2 DEF Fields
  <2> HIDE DEF e
  <2> QED BY <1>3, <1>8, <2>1, <2>2
<1> QED BY <1>4, <1>5, <1>6, <1>7, <1>8

(* The field by which the table is asked again, the rows of the next bank   *)
(* and the form when all were asked for.                                    *)
KeyField(q) == IF q.rep = "PrintNoteTotal_PF" THEN "type" ELSE BankField(q)
NextBank(j) == j.banks[Cardinality(DOMAIN j.seen) + 1]
BankForm(q, banks, seen) ==
    CASE q.rep = "PrintOutJHD" -> PrintOutJHD(banks, seen)
      [] q.rep = "PrintNoteTotal_PF" -> PrintNoteTotal_PF(banks, seen)
      [] OTHER -> PrintJJQD(banks, seen)

LEMMA ReadBankGives ==
    ASSUME DOMAIN job = Procs, NEW p \in Procs, DOMAIN job[p] = Fields, ReadBank(p)
    PROVE  LET j == job[p] k == job'[p] q == j.q
               b == NextBank(j)
               S == Having(Selected(p), KeyField(q), b)
               all == {j.banks[i] : i \in DOMAIN j.banks}
           IN  /\ j.at = "bank" /\ k.q = q /\ k.out = j.out /\ k.part = j.part
               /\ k.name = j.name /\ k.second = j.second
               /\ \/ k.at = "done" /\ k.code = "norecord"
                  \/ /\ k.seen = Put(j.seen, b, S) /\ k.sel = j.sel \cup S /\ k.banks = j.banks
                     /\ \/ /\ k.at = "print" /\ DOMAIN k.seen = all
                           /\ k.todo = BankForm(q, j.banks, k.seen)
                        \/ k.at = "bank" /\ DOMAIN k.seen # all
               /\ UNCHANGED <<files, second>>
<1> DEFINE j == job[p]  q == j.q
           b == NextBank(j)
           S == Having(Selected(p), KeyField(q), b)
           seen == Put(j.seen, b, S)
           all == {j.banks[i] : i \in DOMAIN j.banks}
           k == [j EXCEPT !.seen = seen, !.sel = @ \cup S]
           form == BankForm(q, j.banks, seen)
           c == q.rep = "PrintNoteTotal_PF" /\ q.type # Unset /\ Having(S, "dir", "out") = {}
           x == [j EXCEPT !.at = "done", !.code = "norecord"]
           y == [k EXCEPT !.at = "print", !.todo = form]
           e == IF c THEN x ELSE IF DOMAIN seen = all THEN y ELSE k
<1>1. j.at = "bank" /\ job' = [job EXCEPT ![p] = e] /\ UNCHANGED <<files, second>>
  BY DEF ReadBank, BankForm, KeyField, NextBank
<1>2. /\ x.at = "done" /\ x.code = "norecord" /\ x.q = q /\ x.out = j.out /\ x.part = j.part
      /\ x.name = j.name /\ x.second = j.second
  BY DEF Fields
<1>3. /\ k.at = j.at /\ k.q = q /\ k.out = j.out /\ k.part = j.part /\ k.banks = j.banks
      /\ k.name = j.name /\ k.second = j.second /\ k.seen = seen /\ k.sel = j.sel \cup S
      /\ DOMAIN k = Fields
  <2> HIDE DEF seen, S
  <2> QED BY DEF Fields
<1>4. /\ y.at = "print" /\ y.q = q /\ y.out = j.out /\ y.part = j.part /\ y.banks = j.banks
      /\ y.name = j.name /\ y.second = j.second /\ y.seen = seen /\ y.sel = j.sel \cup S
      /\ y.todo = form
  <2> HIDE DEF k, form, seen, S
  <2> QED BY <1>3 DEF Fields
<1>5. job'[p] = e
  <2> HIDE DEF e
  <2> QED BY <1>1
<1> HIDE DEF x, y, k
<1>6. CASE c
  <2>1. job'[p] = x
    BY <1>5, <1>6
  <2> QED BY <1>1, <1>2, <2>1
<1>7. CASE ~c /\ DOMAIN seen = all
  <2>1. job'[p] = y
    <3> HIDE DEF c, seen, all
    <3> QED BY <1>5, <1>7
  <2>2. job'[p].todo = BankForm(q, j.banks, job'[p].seen)
    <3> HIDE DEF seen
    <3>1. form = BankForm(q, j.banks, seen)
      OBVIOUS
    <3> HIDE DEF form
    <3> QED BY <1>4, <2>1, <3>1
  <2> HIDE DEF form
  <2> QED BY <1>1, <1>4, <1>7, <2>1, <2>2
<1>8. CASE ~c /\ DOMAIN seen # all
  <2>1. job'[p] = k
    <3> HIDE DEF c, seen, all
    <3> QED BY <1>5, <1>8
  <2> QED BY <1>1, <1>3, <1>8, <2>1
<1> QED BY <1>6, <1>7, <1>8

LEMMA OutputGives ==
    ASSUME DOMAIN job = Procs, NEW p \in Procs, DOMAIN job[p] = Fields, Output(p)
    PROVE  LET j == job[p] k == job'[p]
               s == Head(j.todo)
               old == IF j.name \in DOMAIN files /\ j.q.rep # "PrintInNoteAdd_KS"
                      THEN files[j.name] ELSE <<>>
           IN  /\ j.at = "print" /\ k.q = j.q /\ k.sel = j.sel
               /\ k.name = j.name /\ k.second = j.second
               /\ \/ /\ Printable(s) /\ k.out = Append(j.out, s)
                     /\ files' = Put(files, j.name, old \o Own(p, PrintReportList(s)))
                     /\ \/ /\ Tail(j.todo) # <<>> /\ k.at = "print" /\ k.part = j.part
                           /\ k.todo = Tail(j.todo)
                        \/ /\ Tail(j.todo) = <<>> /\ k.at = "select" /\ k.part = 2
                           /\ j.q.rep = "PrintDiffNote" /\ j.part = 1
                        \/ Tail(j.todo) = <<>> /\ k.at \in {"mark", "answer"}
                  \/ /\ k.out = j.out /\ k.at = "done" /\ k.code = "error"
                     /\ files' = Put(files, j.name, old)
               /\ second' = second
<1> DEFINE j == job[p]
           s == Head(j.todo)
           rest == Tail(j.todo)
           old == IF j.name \in DOMAIN files /\ j.q.rep # "PrintInNoteAdd_KS"
                  THEN files[j.name] ELSE <<>>
           o == Append(j.out, s)
           k == [j EXCEPT !.todo = rest, !.out = o]
           d == j.q.rep = "PrintDiffNote" /\ j.part = 1 /\ ~j.q.bankOnly
           a == IF Marks(j.q) THEN "mark" ELSE "answer"
           x == [k EXCEPT !.at = "select", !.part = 2]
           y == [k EXCEPT !.at = a]
           e == IF rest # <<>> THEN k ELSE IF d THEN x ELSE y
           f == [j EXCEPT !.at = "done", !.code = "error"]
<1>1. /\ j.at = "print" /\ second' = second
      /\ \/ /\ Printable(s) /\ files' = Put(files, j.name, old \o Own(p, PrintReportList(s)))
            /\ job' = [job EXCEPT ![p] = e]
         \/ files' = Put(files, j.name, old) /\ job' = [job EXCEPT ![p] = f]
  BY DEF Output
<1>2. /\ k.at = j.at /\ k.q = j.q /\ k.sel = j.sel /\ k.name = j.name /\ k.second = j.second
      /\ k.part = j.part /\ k.out = o /\ k.todo = rest /\ DOMAIN k = Fields
  <2> HIDE DEF rest, o
  <2> QED BY DEF Fields
<1>3. /\ f.at = "done" /\ f.code = "error" /\ f.q = j.q /\ f.sel = j.sel /\ f.name = j.name
      /\ f.second = j.second /\ f.out = j.out
  BY DEF Fields
<1>4. /\ x.at = "select" /\ x.part = 2 /\ x.q = j.q /\ x.sel = j.sel /\ x.name = j.name
      /\ x.second = j.second /\ x.out = o
  <2> HIDE DEF k, o
  <2> QED BY <1>2 DEF Fields
<1>5. /\ y.at \in {"mark", "answer"} /\ y.q = j.q /\ y.sel = j.sel /\ y.name = j.name
      /\ y.second = j.second /\ y.out = o
  <2> HIDE DEF k, o
  <2> QED BY <1>2 DEF Fields
<1> HIDE DEF k, x, y, f
<1>6. CASE /\ Printable(s) /\ files' = Put(files, j.name, old \o Own(p, PrintReportList(s)))
           /\ job' = [job EXCEPT ![p] = e]
  <2>1. job'[p] = e
    <3> HIDE DEF e
    <3> QED BY <1>6
  <2>2. CASE rest # <<>>
    <3>1. job'[p] = k
      BY <2>1, <2>2
    <3> QED BY <1>1, <1>2, <1>6, <2>2, <3>1
  <2>3. CASE rest = <<>> /\ d
    <3>1. job'[p] = x
      BY <2>1, <2>3
    <3> QED BY <1>1, <1>4, <1>6, <2>3, <3>1
  <2>4. CASE rest = <<>> /\ ~d
    <3>1. job'[p] = y
      BY <2>1, <2>4
    <3> QED BY <1>1, <1>5, <1>6, <2>4, <3>1
  <2> QED BY <2>2, <2>3, <2>4
<1>7. CASE files' = Put(files, j.name, old) /\ job' = [job EXCEPT ![p] = f]
  <2>1. job'[p] = f
    BY <1>7
  <2> QED BY <1>1, <1>3, <1>7, <2>1
<1> QED BY <1>1, <1>6, <1>7

LEMMA MarkGives ==
    ASSUME DOMAIN job = Procs, NEW p \in Procs, DOMAIN job[p] = Fields, Mark(p)
    PROVE  /\ job[p].at = "mark" /\ job'[p].at = "answer" /\ job'[p].q = job[p].q
           /\ job'[p].sel = job[p].sel /\ job'[p].out = job[p].out
           /\ job'[p].name = job[p].name /\ job'[p].second = job[p].second
           /\ UNCHANGED <<files, second>>
<1> DEFINE k == [job[p] EXCEPT !.at = "answer"]
<1>1. /\ job' = [job EXCEPT ![p] = k] /\ job[p].at = "mark" /\ UNCHANGED <<files, second>>
  BY DEF Mark
<1>2. /\ k.at = "answer" /\ k.q = job[p].q /\ k.sel = job[p].sel /\ k.out = job[p].out
      /\ k.name = job[p].name /\ k.second = job[p].second
  BY DEF Fields
<1> HIDE DEF k
<1> QED BY <1>1, <1>2

LEMMA AnswerGives ==
    ASSUME DOMAIN job = Procs, NEW p \in Procs, DOMAIN job[p] = Fields, Answer(p)
    PROVE  /\ job[p].at = "answer" /\ job'[p].at = "done" /\ job'[p].q = job[p].q
           /\ job'[p].sel = job[p].sel /\ job'[p].out = job[p].out
           /\ job'[p].name = job[p].name /\ job'[p].second = job[p].second
           /\ job'[p].got = files[job[p].name]
           /\ UNCHANGED <<files, second>>
<1> DEFINE g == files[job[p].name]
           k == [job[p] EXCEPT !.at = "done", !.code = "ok", !.got = g]
<1>1. /\ job' = [job EXCEPT ![p] = k] /\ job[p].at = "answer" /\ UNCHANGED <<files, second>>
  BY DEF Answer
<1>2. /\ k.at = "done" /\ k.q = job[p].q /\ k.sel = job[p].sel /\ k.out = job[p].out
      /\ k.name = job[p].name /\ k.second = job[p].second /\ k.got = g
  <2> HIDE DEF g
  <2> QED BY DEF Fields
<1> HIDE DEF k
<1> QED BY <1>1, <1>2

(* The archive tells those that have not selected yet that it moved.        *)
LEMMA MoveGives ==
    ASSUME JobInv, Move, NEW p \in Procs
    PROVE  LET j == job[p] k == job'[p]
           IN  /\ k.at = j.at
               /\ j.at # "select" => k = j
               /\ j.at = "select" =>
                     /\ k.q = j.q /\ k.out = j.out /\ k.part = j.part /\ k.sel = j.sel
                     /\ k.seen = j.seen /\ k.name = j.name /\ k.second = j.second
<1>1. job'[p] = IF job[p].at = "select" THEN [job[p] EXCEPT !.moved = TRUE] ELSE job[p]
  BY DEF Move
<1>2. CASE job[p].at = "select"
  <2>1. DOMAIN job[p] = Fields
    BY <1>2 DEF JobInv, Idle, Asked
  <2> QED BY <1>1, <1>2, <2>1 DEF Fields
<1> QED BY <1>1, <1>2
-----------------------------------------------------------------------------
(* How far the form of a request is.  Before its SELECT nothing is written, *)
(* except that the difference note of a head office has its own part on     *)
(* paper, with rows of another table than those of its branches.  While the *)
(* banks are asked for one after the other, the first so many were seen;    *)
(* and what is on paper together with what is still to be put there is      *)
(* always the whole form.                                                   *)
Selecting(j) ==
    \/ j.out = <<>> /\ j.sel = {} /\ j.seen = <<>>
    \/ /\ j.q.rep = "PrintDiffNote" /\ j.part # 1
       /\ OnPaper(j.out) /\ Covers(j.sel, j.out) /\ \A r \in j.sel : r.tab = "recon"
Banking(j) ==
    /\ j.q.rep \in ByBank /\ j.out = <<>> /\ List(j.banks)
    /\ \A i, k \in 1 .. Len(j.banks) : j.banks[i] = j.banks[k] => i = k
    /\ \/ j.banks = <<>>
       \/ /\ \E n \in 0 .. Len(j.banks) - 1 : DOMAIN j.seen = {j.banks[i] : i \in 1 .. n}
          /\ j.sel \subseteq Rows \cup Other /\ IsFiniteSet(j.sel)
          /\ \A b \in DOMAIN j.seen : \A r \in j.seen[b] : r[KeyField(j.q)] = b
          /\ j.sel = UNION {j.seen[b] : b \in DOMAIN j.seen}
Printing(j) ==
    /\ j.todo # <<>> /\ Sheets(j.todo) /\ (j.out = <<>> \/ OnPaper(j.out))
    /\ Whole(j.q, j.sel, j.out \o j.todo)
    /\ j.q.rep = "PrintInNoteAdd_KS" => j.out = <<>> /\ Len(j.todo) = 1
    /\ j.q.rep = "PrintDiffNote" /\ j.part = 1 => \A r \in j.sel : r.tab = "recon"
Finished(j) == OnPaper(j.out) /\ Whole(j.q, j.sel, j.out)
FormOf(j) ==
    /\ j.at = "select" => Selecting(j)
    /\ j.at = "bank" => Banking(j)
    /\ j.at = "print" => Printing(j)
    /\ j.at \in {"mark", "answer"} \/ (j.at = "done" /\ j.code = "ok") => Finished(j)
FormInv == \A p \in Procs : job[p].at # "idle" => FormOf(job[p])

(* The first so many elements of a list without repetition.                 *)
LEMMA FirstOnes ==
    ASSUME NEW s, List(s), \A i, k \in 1 .. Len(s) : s[i] = s[k] => i = k,
           NEW n \in Nat, n < Len(s)
    PROVE  /\ Cardinality({s[i] : i \in 1 .. n}) = n
           /\ s[n + 1] \notin {s[i] : i \in 1 .. n}
           /\ {s[i] : i \in 1 .. n} \cup {s[n + 1]} = {s[i] : i \in 1 .. n + 1}
<1> DEFINE T == {s[i] : i \in 1 .. n}
           f == [i \in 1 .. n |-> s[i]]
<1>1. Len(s) \in Nat
  BY ListLen
<1>2. \A i \in 1 .. n : i \in 1 .. Len(s)
  BY <1>1
<1>3. n + 1 \in 1 .. Len(s) /\ n + 1 \notin 1 .. n
  BY <1>1
<1>4. f \in Bijection(1 .. n, T)
  <2>1. f \in [1 .. n -> T]
    OBVIOUS
  <2>2. ASSUME NEW a \in 1 .. n, NEW b \in 1 .. n, f[a] = f[b] PROVE a = b
    BY <1>2, <2>2
  <2>3. \A t \in T : \E a \in 1 .. n : f[a] = t
    OBVIOUS
  <2> HIDE DEF f, T
  <2> QED BY <2>1, <2>2, <2>3 DEF Bijection, Injection, Surjection, IsInjective
<1> HIDE DEF f
<1>5. Cardinality(T) = n
  <2>1. IsFiniteSet(1 .. n) /\ Cardinality(1 .. n) = n
    BY FS_Interval
  <2>2. Cardinality(T) = Cardinality(1 .. n)
    <3> HIDE DEF T
    <3>1. ExistsBijection(1 .. n, T)
      BY <1>4 DEF ExistsBijection
    <3> QED BY <2>1, <3>1, FS_Bijection
  <2> QED BY <2>1, <2>2
<1>6. s[n + 1] \notin T
  BY <1>2, <1>3
<1>7. T \cup {s[n + 1]} = {s[i] : i \in 1 .. n + 1}
  <2>1. \A i : i \in 1 .. n + 1 <=> i \in 1 .. n \/ i = n + 1
    OBVIOUS
  <2> QED BY <2>1
<1> QED BY <1>5, <1>6, <1>7

LEMMA OneSheet ==
    ASSUME NEW s PROVE <<s>> # <<>>
BY OneList, EmptyList

(* A request that acts was asked, and its form is as far as it says.        *)
LEMMA FormActs ==
    ASSUME JobInv, FormInv, NEW p \in Procs,
           Select(p) \/ ReadBank(p) \/ Output(p) \/ Mark(p) \/ Answer(p)
    PROVE  /\ DOMAIN job = Procs /\ Asked(job[p]) /\ DOMAIN job[p] = Fields
           /\ job[p].table \in TableNames /\ job[p].q \in Requests /\ FormOf(job[p])
<1>1. job[p].at # "idle"
  BY DEF Select, ReadBank, Output, Mark, Answer
<1> QED BY <1>1 DEF JobInv, FormInv, Idle, Asked

LEMMA FormAfterSelect ==
    ASSUME TablesInv, FiniteInv, JobInv, FormInv, NEW p \in Procs, Select(p)
    PROVE  OnlyThis(p) /\ FormOf(job'[p])
<1> DEFINE j == job[p]  q == j.q  S == Selected(p)  k == Fetched(p, S)
<1>1. /\ DOMAIN job = Procs /\ Asked(j) /\ DOMAIN j = Fields /\ j.at = "select"
      /\ j.table \in TableNames /\ q \in Requests /\ Selecting(j)
  BY FormActs DEF Select, FormOf
<1>2. OnlyThis(p) /\ job'[p] = k
  BY <1>1, SelectKeeps
<1>3. k.q = q
  BY <1>1, FetchedKeeps DEF Keeps
<1>4. /\ IsFiniteSet(S) /\ S \subseteq Rows \cup Other
      /\ \A r \in S : Takes(q, j.part, r, num[j.table][r.id])
  BY <1>1, SelectedRows
<1>5. /\ k.out = j.out /\ k.part = j.part /\ k.seen = j.seen
      /\ \/ /\ k.at = "bank" /\ q.rep \in ByBank /\ k.sel = {}
            /\ \/ k.banks = NoteTypes(q)
               \/ S # {} /\ k.banks = Values(S, BankField(q))
         \/ /\ k.at = "print" /\ S = {} /\ q.rep \in {"PrintOutJJQD", "PrintInJJQD"}
            /\ k.todo = <<Section(<<Blank>>, 1, <<0>>)>> /\ k.sel = j.sel \cup S
         \/ /\ k.at = "print" /\ S # {} /\ q.rep \notin ByBank
            /\ k.todo = Sections(q, j.part, S) /\ k.sel = j.sel \cup S
         \/ k.at = "done" /\ k.code = "norecord"
  BY <1>1, FetchedGives
<1> HIDE DEF k, S
<1>6. CASE /\ k.at = "bank" /\ q.rep \in ByBank /\ k.sel = {}
           /\ \/ k.banks = NoteTypes(q)
              \/ S # {} /\ k.banks = Values(S, BankField(q))
  <2>1. k.out = <<>> /\ k.seen = <<>>
    BY <1>1, <1>5, <1>6 DEF Selecting, ByBank
  <2>2. \E K : Names(k.banks, K)
    <3>1. CASE k.banks = NoteTypes(q) /\ q.type = Unset
      <4>1. Names(SetToSeq(DOMAIN NoteNames), DOMAIN NoteNames)
        BY ColumnsAssumption, SetToSeqNames
      <4> QED BY <3>1, <4>1 DEF NoteTypes
    <3>2. CASE k.banks = NoteTypes(q) /\ q.type # Unset
      <4>1. k.banks = <<q.type>>
        BY <3>2 DEF NoteTypes
      <4>2. List(<<q.type>>) /\ Len(<<q.type>>) = 1 /\ <<q.type>>[1] = q.type
        BY OneList
      <4>3. Names(k.banks, {q.type})
        BY <4>1, <4>2 DEF Names
      <4> QED BY <4>3
    <3>3. CASE k.banks = Values(S, BankField(q))
      <4> DEFINE K == {r[BankField(q)] : r \in S}
                 f == [r \in S |-> r[BankField(q)]]
      <4>1. K = {f[r] : r \in S}
        OBVIOUS
      <4>2. IsFiniteSet(K)
        <5> HIDE DEF f, K
        <5> QED BY <1>4, <4>1, FiniteValues
      <4>3. Names(SetToSeq(K), K)
        <5> HIDE DEF K
        <5> QED BY <4>2, SetToSeqNames
      <4> QED BY <3>3, <4>3 DEF Values
    <3> QED BY <1>6, <3>1, <3>2, <3>3
  <2>3. /\ List(k.banks) /\ \A i, h \in 1 .. Len(k.banks) : k.banks[i] = k.banks[h] => i = h
        /\ Len(k.banks) \in Nat
    BY <2>2, ListLen DEF Names
  <2>4. DOMAIN k.seen = {}
    BY <2>1, EmptyList, ListLen
  <2>5. ASSUME k.banks # <<>>
        PROVE  \E n \in 0 .. Len(k.banks) - 1 : DOMAIN k.seen = {k.banks[i] : i \in 1 .. n}
    <3>1. Len(k.banks) # 0
      BY <2>3, <2>5, EmptyList
    <3>2. 0 \in 0 .. Len(k.banks) - 1 /\ 1 .. 0 = {}
      BY <2>3, <3>1
    <3>3. {k.banks[i] : i \in 1 .. 0} = {}
      BY <3>2
    <3> QED BY <2>4, <3>2, <3>3
  <2>6. IsFiniteSet({})
    BY FS_EmptySet
  <2>7. Banking(k)
    BY <1>3, <1>6, <2>1, <2>3, <2>4, <2>5, <2>6 DEF Banking
  <2> QED BY <1>2, <1>6, <2>7 DEF FormOf
<1>7. CASE /\ k.at = "print" /\ S = {} /\ q.rep \in {"PrintOutJJQD", "PrintInJJQD"}
           /\ k.todo = <<Section(<<Blank>>, 1, <<0>>)>> /\ k.sel = j.sel \cup S
  <2>1. k.out = <<>> /\ k.sel = {}
    BY <1>1, <1>5, <1>7 DEF Selecting
  <2>2. Covers({}, k.todo) /\ Sheets(k.todo) /\ k.todo # <<>>
    BY <1>7, BlankCovers, CoversSheets, OneSheet
  <2>3. k.out \o k.todo = k.todo
    BY <2>1, <2>2, ConcatEmpty DEF Sheets
  <2>4. Whole(q, k.sel, k.out \o k.todo)
    BY <1>7, <2>1, <2>2, <2>3 DEF Whole, WithFoot, NamedFirst
  <2>5. Printing(k)
    BY <1>3, <1>7, <2>1, <2>2, <2>4 DEF Printing
  <2> QED BY <1>2, <1>7, <2>5 DEF FormOf
<1>8. CASE /\ k.at = "print" /\ S # {} /\ q.rep \notin ByBank
           /\ k.todo = Sections(q, j.part, S) /\ k.sel = j.sel \cup S
  <2>1. q.rep \in {"PF10_780", "PF10_782"} => \A r \in S : r.tab = "fee"
    BY <1>4 DEF Takes, FeeListTakes, DetailFeeListTakes
  <2>2. /\ Sheets(k.todo) /\ k.todo # <<>> /\ Whole(q, S, k.todo)
        /\ q.rep = "PrintInNoteAdd_KS" => Len(k.todo) = 1
        /\ q.rep = "PrintDiffNote" => Covers(S, k.todo)
    BY <1>1, <1>4, <1>8, <2>1, SectionsWhole
  <2>3. q.rep = "PrintDiffNote" =>
          /\ j.part = 1 => \A r \in S : r.tab = "recon"
          /\ j.part # 1 => \A r \in S : r.tab = "branch"
    BY <1>4 DEF Takes, ClearDiffTakes, DiffNoteTakes
  <2>4. CASE j.out = <<>> /\ j.sel = {}
    <3>1. k.out \o k.todo = k.todo
      BY <1>5, <2>2, <2>4, ConcatEmpty DEF Sheets
    <3>2. k.sel = S
      BY <1>8, <2>4
    <3>3. Printing(k)
      BY <1>3, <1>5, <2>2, <2>3, <2>4, <3>1, <3>2 DEF Printing
    <3> QED BY <1>2, <1>8, <3>3 DEF FormOf
  <2>5. CASE /\ q.rep = "PrintDiffNote" /\ j.part # 1
             /\ OnPaper(j.out) /\ Covers(j.sel, j.out) /\ \A r \in j.sel : r.tab = "recon"
    <3>1. j.sel \cap S = {}
      BY <2>3, <2>5
    <3>2. Covers(j.sel \cup S, j.out \o k.todo)
      BY <2>2, <2>5, <3>1, CoversConcat
    <3>3. Whole(q, k.sel, k.out \o k.todo)
      BY <1>5, <1>8, <2>5, <3>2 DEF Whole, WithFoot, NamedFirst
    <3>4. Printing(k)
      BY <1>3, <1>5, <2>2, <2>5, <3>3 DEF Printing
    <3> QED BY <1>2, <1>8, <3>4 DEF FormOf
  <2> QED BY <1>1, <2>4, <2>5 DEF Selecting
<1>9. CASE k.at = "done" /\ k.code = "norecord"
  BY <1>2, <1>9 DEF FormOf
<1> QED BY <1>5, <1>6, <1>7, <1>8, <1>9

(* The form of a report by bank, once every bank was seen.                  *)
LEMMA BankFormWhole ==
    ASSUME NEW q \in Requests, q.rep \in ByBank, NEW banks, NEW seen, NEW field, NEW S,
           Seen(banks, seen, field, S), S \subseteq Rows \cup Other, IsFiniteSet(S),
           NEW form, form = BankForm(q, banks, seen)
    PROVE  Sheets(form) /\ form # <<>> /\ Whole(q, S, form)
<1>1. Priced(S) /\ Directed(S)
  BY ReadsRows
<1>2. CASE q.rep = "PrintOutJHD"
  <2>1. form = PrintOutJHD(banks, seen)
    BY <1>2 DEF BankForm
  <2>2. Covers(S, form)
    BY <2>1, PrintOutJHDIs
  <2>3. form # <<>>
    BY <2>1, OneSheet DEF PrintOutJHD
  <2> QED BY <1>2, <2>2, <2>3, CoversSheets DEF Whole, WithFoot, NamedFirst
<1>3. CASE q.rep \in {"PrintOutJJQD", "PrintInJJQD"}
  <2>1. form = PrintJJQD(banks, seen)
    BY <1>3 DEF BankForm
  <2>2. Covers(S, form)
    BY <2>1, PrintJJQDIs
  <2>3. form # <<>>
    BY <2>1, OneSheet DEF PrintJJQD
  <2> QED BY <1>3, <2>2, <2>3, CoversSheets DEF Whole, WithFoot, NamedFirst
<1>4. CASE q.rep = "PrintNoteTotal_PF"
  <2>1. form = PrintNoteTotal_PF(banks, seen)
    BY <1>4 DEF BankForm
  <2>2. Covers(S, form) /\ <<FootSum(form, 5), FootSum(form, 6)>> = Cells(S)
    BY <1>1, <2>1, PrintNoteTotalIs
  <2>3. form # <<>>
    BY <2>1, OneSheet DEF PrintNoteTotal_PF
  <2>4. FootTotal(q, form) = <<FootSum(form, 5), FootSum(form, 6)>> /\ Counted(q, S) = S
    BY <1>4, FootsAre DEF FootTotal, Counted
  <2> QED BY <2>2, <2>3, <2>4, CoversSheets DEF Whole
<1> QED BY <1>2, <1>3, <1>4 DEF ByBank

LEMMA FormAfterReadBank ==
    ASSUME TablesInv, FiniteInv, JobInv, FormInv, NEW p \in Procs, ReadBank(p)
    PROVE  OnlyThis(p) /\ FormOf(job'[p])
<1> DEFINE j == job[p]  k == job'[p]  q == j.q
           b == NextBank(j)
           S == Having(Selected(p), KeyField(q), b)
           all == {j.banks[i] : i \in DOMAIN j.banks}
<1>1. /\ DOMAIN job = Procs /\ DOMAIN j = Fields /\ j.at = "bank"
      /\ j.table \in TableNames /\ q \in Requests /\ Banking(j)
  BY FormActs DEF ReadBank, FormOf
<1>2. OnlyThis(p)
  BY <1>1, ReadBankKeeps
<1>3. /\ k.q = q /\ k.out = j.out /\ k.part = j.part
      /\ \/ k.at = "done" /\ k.code = "norecord"
         \/ /\ k.seen = Put(j.seen, b, S) /\ k.sel = j.sel \cup S /\ k.banks = j.banks
            /\ \/ /\ k.at = "print" /\ DOMAIN k.seen = all
                  /\ k.todo = BankForm(q, j.banks, k.seen)
               \/ k.at = "bank" /\ DOMAIN k.seen # all
  BY <1>1, ReadBankGives
<1>4. /\ IsFiniteSet(S) /\ S \subseteq Rows \cup Other /\ \A r \in S : r[KeyField(q)] = b
  <2>1. IsFiniteSet(Selected(p)) /\ Selected(p) \subseteq Rows \cup Other
    BY <1>1, SelectedRows
  <2>2. S \in SUBSET Selected(p) /\ \A r \in S : r[KeyField(q)] = b
    BY DEF Having
  <2> QED BY <2>1, <2>2, FS_Subset
<1> HIDE DEF S, b
<1>5. CASE k.at = "done" /\ k.code = "norecord"
  BY <1>2, <1>5 DEF FormOf
<1>6. ASSUME k.seen = Put(j.seen, b, S), k.sel = j.sel \cup S, k.banks = j.banks,
             \/ /\ k.at = "print" /\ DOMAIN k.seen = all
                /\ k.todo = BankForm(q, j.banks, k.seen)
             \/ k.at = "bank" /\ DOMAIN k.seen # all
      PROVE  FormOf(k)
  <2>1. /\ DOMAIN k.seen = DOMAIN j.seen \cup {b}
        /\ \A n \in DOMAIN k.seen : k.seen[n] = IF n = b THEN S ELSE j.seen[n]
    BY <1>6 DEF Put
  <2>2. /\ q.rep \in ByBank /\ j.out = <<>> /\ List(j.banks)
        /\ \A i, h \in 1 .. Len(j.banks) : j.banks[i] = j.banks[h] => i = h
        /\ DOMAIN j.banks = 1 .. Len(j.banks) /\ Len(j.banks) \in Nat
    BY <1>1, ListLen DEF Banking
  <2>3. CASE j.banks = <<>>
    <3>1. all = {}
      BY <2>3, EmptyList, ListLen
    <3>2. k.at = "bank"
      BY <1>6, <2>1, <3>1
    <3>3. Banking(k)
      BY <1>3, <1>6, <2>2, <2>3 DEF Banking
    <3> QED BY <3>2, <3>3 DEF FormOf
  <2>4. CASE j.banks # <<>>
    <3>1. /\ j.sel \subseteq Rows \cup Other /\ IsFiniteSet(j.sel)
          /\ \A c \in DOMAIN j.seen : \A r \in j.seen[c] : r[KeyField(q)] = c
          /\ j.sel = UNION {j.seen[c] : c \in DOMAIN j.seen}
          /\ \E n \in 0 .. Len(j.banks) - 1 : DOMAIN j.seen = {j.banks[i] : i \in 1 .. n}
      BY <1>1, <2>4 DEF Banking
    <3>2. PICK n \in 0 .. Len(j.banks) - 1 : DOMAIN j.seen = {j.banks[i] : i \in 1 .. n}
      BY <3>1
    <3>3. n \in Nat /\ n < Len(j.banks)
      BY <2>2
    <3>4. /\ Cardinality({j.banks[i] : i \in 1 .. n}) = n
          /\ j.banks[n + 1] \notin {j.banks[i] : i \in 1 .. n}
          /\ {j.banks[i] : i \in 1 .. n} \cup {j.banks[n + 1]} = {j.banks[i] : i \in 1 .. n + 1}
      BY <2>2, <3>3, FirstOnes
    <3>5. b = j.banks[n + 1]
      BY <3>2, <3>4 DEF b, NextBank
    <3>6. b \notin DOMAIN j.seen /\ DOMAIN k.seen = {j.banks[i] : i \in 1 .. n + 1}
      BY <2>1, <3>2, <3>4, <3>5
    <3>7. \A c \in DOMAIN k.seen : \A r \in k.seen[c] : r[KeyField(q)] = c
      BY <1>4, <2>1, <3>1
    <3>8. k.sel = UNION {k.seen[c] : c \in DOMAIN k.seen}
      BY <1>6, <2>1, <3>1, <3>6
    <3>9. k.sel \subseteq Rows \cup Other /\ IsFiniteSet(k.sel)
      <4>1. IsFiniteSet(j.sel)
        BY <3>1
      <4>2. IsFiniteSet(j.sel \cup S)
        BY <1>4, <4>1, FS_Union
      <4> QED BY <1>4, <1>6, <3>1, <4>2
    <3>10. CASE k.at = "bank" /\ DOMAIN k.seen # all
      <4>1. n + 1 # Len(j.banks)
        BY <2>2, <3>6, <3>10
      <4>2. n + 1 \in 0 .. Len(j.banks) - 1
        BY <2>2, <3>3, <4>1
      <4>3. k.q = q /\ k.banks = j.banks /\ k.out = j.out
        BY <1>3, <1>6
      <4>4. \E m \in 0 .. Len(k.banks) - 1 : DOMAIN k.seen = {k.banks[i] : i \in 1 .. m}
        <5> DEFINE h == n + 1
        <5>1. h \in 0 .. Len(j.banks) - 1 /\ DOMAIN k.seen = {j.banks[i] : i \in 1 .. h}
          BY <3>6, <4>2
        <5>2. k.banks = j.banks
          BY <4>3
        <5>3. h \in 0 .. Len(k.banks) - 1 /\ DOMAIN k.seen = {k.banks[i] : i \in 1 .. h}
          BY <5>1, <5>2
        <5> HIDE DEF h, k, all, j
        <5> QED BY <5>3
      <4>5. \A c \in DOMAIN k.seen : \A r \in k.seen[c] : r[KeyField(k.q)] = c
        BY <3>7, <4>3
      <4>6. Banking(k)
        <5> HIDE DEF k, all
        <5> QED BY <2>2, <3>8, <3>9, <4>3, <4>4, <4>5 DEF Banking
      <4> QED BY <3>10, <4>6 DEF FormOf
    <3>11. CASE k.at = "print" /\ DOMAIN k.seen = all /\ k.todo = BankForm(q, j.banks, k.seen)
      <4>1. Seen(j.banks, k.seen, KeyField(q), k.sel)
        <5>1. \A i \in 1 .. Len(j.banks) : j.banks[i] \in DOMAIN k.seen
          BY <2>2, <3>11
        <5>2. k.sel = UNION {k.seen[j.banks[i]] : i \in 1 .. Len(j.banks)}
          <6>1. \A c \in DOMAIN k.seen : \E i \in 1 .. Len(j.banks) : c = j.banks[i]
            BY <2>2, <3>11
          <6> QED BY <3>8, <5>1, <6>1
        <5> QED BY <2>2, <3>7, <5>1, <5>2 DEF Seen
      <4>2. Sheets(k.todo) /\ k.todo # <<>> /\ Whole(q, k.sel, k.todo)
        BY <1>1, <2>2, <3>9, <3>11, <4>1, BankFormWhole
      <4>3. k.out \o k.todo = k.todo
        BY <1>3, <2>2, <4>2, ConcatEmpty DEF Sheets
      <4>4. Printing(k)
        BY <1>3, <2>2, <4>2, <4>3 DEF Printing, ByBank
      <4> QED BY <3>11, <4>4 DEF FormOf
    <3> QED BY <1>6, <3>10, <3>11
  <2> QED BY <2>3, <2>4
<1> QED BY <1>2, <1>3, <1>5, <1>6

LEMMA FormAfterOutput ==
    ASSUME JobInv, FormInv, NEW p \in Procs, Output(p)
    PROVE  OnlyThis(p) /\ FormOf(job'[p])
<1> DEFINE j == job[p]  k == job'[p]  q == j.q
           s == Head(j.todo)
           rest == Tail(j.todo)
<1>1. /\ DOMAIN job = Procs /\ DOMAIN j = Fields /\ j.at = "print" /\ q \in Requests /\ Printing(j)
  BY FormActs DEF Output, FormOf
<1>2. OnlyThis(p)
  BY <1>1, OutputKeeps
<1>3. /\ k.q = q /\ k.sel = j.sel
      /\ \/ /\ Printable(s) /\ k.out = Append(j.out, s)
            /\ \/ /\ Tail(j.todo) # <<>> /\ k.at = "print" /\ k.part = j.part
                  /\ k.todo = Tail(j.todo)
               \/ /\ Tail(j.todo) = <<>> /\ k.at = "select" /\ k.part = 2
                  /\ j.q.rep = "PrintDiffNote" /\ j.part = 1
               \/ Tail(j.todo) = <<>> /\ k.at \in {"mark", "answer"}
         \/ k.at = "done" /\ k.code = "error"
  BY <1>1, OutputGives
<1>4. CASE k.at = "done" /\ k.code = "error"
  BY <1>2, <1>4 DEF FormOf
<1>5. ASSUME Printable(s), k.out = Append(j.out, s) PROVE FormOf(k)
  <2>1. List(j.out) /\ Sheets(j.out) /\ \A i \in 1 .. Len(j.out) : j.out[i].count > 0
    BY <1>1, EmptyList DEF Printing, OnPaper, Sheets
  <2>2. List(j.todo) /\ j.todo # <<>> /\ \A i \in 1 .. Len(j.todo) : j.todo[i].count \in Nat
    BY <1>1 DEF Printing, Sheets
  <2>3. /\ List(rest) /\ Len(rest) = Len(j.todo) - 1 /\ Len(j.todo) > 0
        /\ (\A i \in 1 .. Len(j.todo) - 1 : rest[i] = j.todo[i + 1])
        /\ s = j.todo[1] /\ Len(j.todo) \in Nat
    BY <2>2, TailList, ListLen
  <2>4. s.count \in Nat /\ s.count > 0
    BY <1>5, <2>2, <2>3 DEF Printable
  <2>5. Sheets(rest)
    BY <2>2, <2>3 DEF Sheets
  <2>6. OnPaper(k.out)
    <3>1. /\ List(Append(j.out, s)) /\ Len(Append(j.out, s)) = Len(j.out) + 1
          /\ \A i \in 1 .. Len(j.out) : Append(j.out, s)[i] = j.out[i]
          /\ Append(j.out, s)[Len(j.out) + 1] = s
      BY <2>1, AppendList
    <3>2. Len(j.out) \in Nat
      BY <2>1, ListLen
    <3>3. \A i \in 1 .. Len(k.out) : k.out[i].count \in Nat /\ k.out[i].count > 0
      <4> SUFFICES ASSUME NEW i \in 1 .. Len(k.out)
                   PROVE  k.out[i].count \in Nat /\ k.out[i].count > 0
        OBVIOUS
      <4>1. i \in 1 .. Len(j.out) \/ i = Len(j.out) + 1
        BY <1>5, <3>1, <3>2
      <4> QED BY <1>5, <2>1, <2>4, <3>1, <4>1 DEF Sheets
    <3>4. k.out # <<>>
      BY <1>5, <3>1, <3>2, EmptyList
    <3> QED BY <1>5, <3>1, <3>3, <3>4 DEF OnPaper, Sheets
  <2>7. k.out \o rest = j.out \o j.todo
    BY <1>5, <2>1, <2>2, MoveHead
  <2>8. Whole(q, k.sel, k.out \o rest)
    BY <1>1, <1>3, <2>7 DEF Printing
  <2>9. CASE rest # <<>> /\ k.at = "print" /\ k.part = j.part /\ k.todo = rest
    <3>1. q.rep # "PrintInNoteAdd_KS"
      <4> SUFFICES ASSUME q.rep = "PrintInNoteAdd_KS" PROVE FALSE
        OBVIOUS
      <4>1. Len(j.todo) = 1
        BY <1>1 DEF Printing
      <4>2. Len(rest) = 0
        BY <2>3, <4>1
      <4> QED BY <2>3, <2>9, <4>2, EmptyList
    <3>2. q.rep = "PrintDiffNote" /\ k.part = 1 => \A r \in k.sel : r.tab = "recon"
      BY <1>1, <1>3, <2>9 DEF Printing
    <3>3. Printing(k)
      BY <1>3, <2>5, <2>6, <2>8, <2>9, <3>1, <3>2 DEF Printing
    <3> QED BY <2>9, <3>3 DEF FormOf
  <2>10. rest = <<>> => k.out \o rest = k.out
    BY <2>6, ConcatEmpty DEF OnPaper, Sheets
  <2>11. CASE /\ rest = <<>> /\ k.at = "select" /\ k.part = 2
              /\ q.rep = "PrintDiffNote" /\ j.part = 1
    <3>1. Covers(k.sel, k.out)
      BY <2>8, <2>10, <2>11 DEF Whole, Exact
    <3>2. \A r \in k.sel : r.tab = "recon"
      BY <1>1, <1>3, <2>11 DEF Printing
    <3>3. Selecting(k)
      BY <1>3, <2>6, <2>11, <3>1, <3>2 DEF Selecting
    <3> QED BY <2>11, <3>3 DEF FormOf
  <2>12. CASE rest = <<>> /\ k.at \in {"mark", "answer"}
    <3>1. Finished(k)
      BY <1>3, <2>6, <2>8, <2>10, <2>12 DEF Finished
    <3> QED BY <2>12, <3>1 DEF FormOf
  <2>13. k.at = "done" /\ k.code = "error" => FormOf(k)
    BY DEF FormOf
  <2> QED BY <1>3, <2>9, <2>11, <2>12, <2>13
<1> QED BY <1>2, <1>3, <1>4, <1>5

LEMMA FormStep ==
    TablesInv /\ FiniteInv /\ JobInv /\ FormInv /\ [Next]_vars => FormInv'
<1> SUFFICES ASSUME TablesInv, FiniteInv, JobInv, FormInv, [Next]_vars PROVE FormInv'
  OBVIOUS
<1>1. ASSUME NEW p \in Procs, OnlyThis(p), FormOf(job'[p]) PROVE FormInv'
  BY <1>1 DEF OnlyThis, FormInv
<1>2. ASSUME NEW p \in Procs, NEW q \in Requests, Ask(p, q) PROVE FormInv'
  <2>1. /\ OnlyThis(p) /\ job'[p].at = "select"
        /\ job'[p].sel = {} /\ job'[p].seen = <<>> /\ job'[p].out = <<>>
    BY <1>2, AskGives DEF JobInv
  <2>2. FormOf(job'[p])
    BY <2>1 DEF FormOf, Selecting
  <2> QED BY <1>1, <2>1, <2>2
<1>3. ASSUME NEW p \in Procs, Select(p) PROVE FormInv'
  BY <1>1, <1>3, FormAfterSelect
<1>4. ASSUME NEW p \in Procs, ReadBank(p) PROVE FormInv'
  BY <1>1, <1>4, FormAfterReadBank
<1>5. ASSUME NEW p \in Procs, Output(p) PROVE FormInv'
  BY <1>1, <1>5, FormAfterOutput
<1>6. ASSUME NEW p \in Procs, Mark(p) PROVE FormInv'
  <2>1. DOMAIN job = Procs /\ DOMAIN job[p] = Fields /\ FormOf(job[p])
    BY <1>6, FormActs
  <2>2. OnlyThis(p)
    BY <1>6, <2>1, MarkKeeps
  <2>3. /\ job[p].at = "mark" /\ job'[p].at = "answer" /\ job'[p].q = job[p].q
        /\ job'[p].sel = job[p].sel /\ job'[p].out = job[p].out
    BY <1>6, <2>1, MarkGives
  <2>4. FormOf(job'[p])
    BY <2>1, <2>3 DEF FormOf, Finished
  <2> QED BY <1>1, <2>2, <2>4
<1>7. ASSUME NEW p \in Procs, Answer(p) PROVE FormInv'
  <2>1. DOMAIN job = Procs /\ DOMAIN job[p] = Fields /\ FormOf(job[p])
    BY <1>7, FormActs
  <2>2. OnlyThis(p)
    BY <1>7, <2>1, AnswerKeeps
  <2>3. /\ job[p].at = "answer" /\ job'[p].at = "done" /\ job'[p].q = job[p].q
        /\ job'[p].sel = job[p].sel /\ job'[p].out = job[p].out
    BY <1>7, <2>1, AnswerGives
  <2>4. FormOf(job'[p])
    BY <2>1, <2>3 DEF FormOf, Finished
  <2> QED BY <1>1, <2>2, <2>4
<1>8. CASE Move
  <2> SUFFICES ASSUME NEW p \in Procs, job'[p].at # "idle" PROVE FormOf(job'[p])
    BY DEF FormInv
  <2>1. /\ job'[p].at = job[p].at
        /\ job[p].at # "select" => job'[p] = job[p]
        /\ job[p].at = "select" =>
              /\ job'[p].q = job[p].q /\ job'[p].out = job[p].out /\ job'[p].part = job[p].part
              /\ job'[p].sel = job[p].sel /\ job'[p].seen = job[p].seen
    BY <1>8, MoveGives
  <2>2. FormOf(job[p])
    BY <2>1 DEF FormInv
  <2>3. CASE job[p].at = "select"
    BY <2>1, <2>2, <2>3 DEF FormOf, Selecting
  <2>4. CASE job[p].at # "select"
    BY <2>1, <2>2, <2>4
  <2> QED BY <2>3, <2>4
<1>9. CASE UNCHANGED job
  BY <1>9 DEF FormInv
<1> QED BY <1>2, <1>3, <1>4, <1>5, <1>6, <1>7, <1>8, <1>9
        DEF Next, vars, Arrive, Change, ArchiveCopy, ArchiveDate, ArchiveDelete, Tick
LEMMA FormInit == Init => FiniteInv /\ FormInv
<1> SUFFICES ASSUME Init PROVE FiniteInv /\ FormInv
  OBVIOUS
<1>1. FiniteInv
  BY ReportsAssumption, FS_EmptySet DEF Init, FiniteInv
<1>2. FormInv
  BY DEF Init, FormInv, Idle
<1> QED BY <1>1, <1>2

(* Every row a report selected is on exactly one line of its pages, and its *)
(* footers add up to those rows, for any rows, any width of the page and    *)
(* any number of sections, whatever is archived while the banks are asked   *)
(* for one after the other.                                                 *)
THEOREM EveryRowIsPrinted == Spec => []EveryRowPrinted
<1>1. Init => TablesInv /\ JobInv /\ FiniteInv /\ FormInv
  BY ReportsInit, FormInit
<1>2. (TablesInv /\ JobInv /\ FiniteInv /\ FormInv) /\ [Next]_vars
        => (TablesInv /\ JobInv /\ FiniteInv /\ FormInv)'
  BY TablesStep, JobStep, FiniteStep, FormStep
<1>3. FormInv => EveryRowPrinted
  <2> SUFFICES ASSUME FormInv, NEW p \in Procs, Told(p), Exact(job[p].q, job[p].sel)
               PROVE  LET q == job[p].q
                          lines == PageLinesOf(job[p].out)
                      IN  /\ \A r \in job[p].sel :
                               Cardinality({i \in DOMAIN lines : r \in lines[i].of}) = 1
                          /\ q.rep \in WithFoot =>
                               FootTotal(q, job[p].out) = Cells(Counted(q, job[p].sel))
    BY DEF EveryRowPrinted
  <2> DEFINE lines == PageLinesOf(job[p].out)
  <2>1. OnPaper(job[p].out) /\ Whole(job[p].q, job[p].sel, job[p].out)
    BY DEF FormInv, Told, FormOf, Finished
  <2>2. /\ Covers(job[p].sel, job[p].out)
        /\ job[p].q.rep \in WithFoot =>
             FootTotal(job[p].q, job[p].out) = Cells(Counted(job[p].q, job[p].sel))
    BY <2>1 DEF Whole
  <2>3. \A i \in 1 .. Len(job[p].out) : job[p].out[i].count > 0
    BY <2>1 DEF OnPaper
  <2>4. Once(job[p].sel, lines)
    BY <2>2, <2>3, CoversPages DEF PageLinesOf
  <2> HIDE DEF lines
  <2>5. \A r \in job[p].sel : Cardinality({i \in DOMAIN lines : r \in lines[i].of}) = 1
    BY <2>4, OnceCount
  <2> QED BY <2>2, <2>5 DEF lines
<1> QED BY <1>1, <1>2, <1>3, PTL DEF Spec

-----------------------------------------------------------------------------
(* Whose pages are in a result file.  The name of a request's file is fixed *)
(* by its SELECT; from then on the file holds the request's own pages and   *)
(* nothing else, unless another request has fixed the same name; and a file *)
(* with pages belongs to one that has.                                      *)
PagesOf(p, out) == FlattenSeq([i \in DOMAIN out |-> Own(p, PrintReportList(out[i]))])
Fixed(j) == j.at \notin {"idle", "select"} \/ (j.at = "select" /\ j.out # <<>>)
Clash(p) == \E o \in Procs \ {p} : Fixed(job[o]) /\ job[o].name = job[p].name
NamedWell(p, j) ==
    j.at # "idle" => j.name = IF j.q.rep \in Temporary THEN <<"tmp", p, 0>>
                              ELSE <<Extension(j.q.rep), j.q.org, j.second>>
Held(p, j, f) ==
    IF j.out = <<>> THEN j.name \in DOMAIN f => f[j.name] = <<>>
                    ELSE j.name \in DOMAIN f /\ f[j.name] = PagesOf(p, j.out)
Holding(p) == Fixed(job[p]) /\ job[p].at # "done" => Held(p, job[p], files) \/ Clash(p)
Given(p) == Told(p) => job[p].got = PagesOf(p, job[p].out) \/ Clash(p)
FilesInv ==
    /\ \A p \in Procs : NamedWell(p, job[p]) /\ Holding(p) /\ Given(p)
    /\ \A n \in DOMAIN files :
          files[n] = <<>> \/ \E o \in Procs : Fixed(job[o]) /\ job[o].name = n

LEMMA PagesAppend ==
    ASSUME NEW p, NEW out, List(out), NEW s, s.count \in Nat
    PROVE  LET new == Own(p, PrintReportList(s))
           IN  /\ List(new)
               /\ PagesOf(p, Append(out, s)) = IF out = <<>> THEN new ELSE PagesOf(p, out) \o new
<1> DEFINE new == Own(p, PrintReportList(s))
           L == [i \in DOMAIN out |-> Own(p, PrintReportList(out[i]))]
           M == [i \in DOMAIN Append(out, s) |-> Own(p, PrintReportList(Append(out, s)[i]))]
<1>1. List(new)
  <2>1. TotalPages(s) \in Nat
    BY PageLinesAssumption DEF TotalPages
  <2>2. DOMAIN PrintReportList(s) = 1 .. TotalPages(s)
    BY DEF PrintReportList
  <2>3. DOMAIN new = 1 .. TotalPages(s)
    BY <2>2 DEF Own
  <2>4. new = [i \in 1 .. TotalPages(s) |-> new[i]]
    BY <2>2 DEF Own
  <2> QED BY <2>1, <2>4 DEF List
<1>2. Len(out) \in Nat /\ DOMAIN out = 1 .. Len(out)
  BY ListLen
<1>3. /\ List(Append(out, s)) /\ Len(Append(out, s)) = Len(out) + 1
      /\ (\A i \in 1 .. Len(out) : Append(out, s)[i] = out[i])
      /\ Append(out, s)[Len(out) + 1] = s
      /\ DOMAIN Append(out, s) = 1 .. Len(out) + 1
  BY AppendList, ListLen
<1>4. List(L) /\ Len(L) = Len(out) /\ \A i \in 1 .. Len(out) : L[i] = Own(p, PrintReportList(out[i]))
  <2>1. L = [i \in 1 .. Len(out) |-> L[i]]
    BY <1>2
  <2> QED BY <1>2, <2>1, ToList
<1>5. /\ List(M) /\ Len(M) = Len(out) + 1
      /\ (\A i \in 1 .. Len(out) : M[i] = Own(p, PrintReportList(out[i])))
      /\ M[Len(out) + 1] = new
  <2>1. M = [i \in 1 .. Len(out) + 1 |-> M[i]]
    BY <1>3
  <2>2. List(M) /\ Len(M) = Len(out) + 1
    <3>1. Len(out) + 1 \in Nat
      BY <1>2
    <3> HIDE DEF M
    <3> QED BY <2>1, <3>1, ToList
  <2>3. \A i \in 1 .. Len(out) : M[i] = Own(p, PrintReportList(out[i]))
    BY <1>2, <1>3
  <2>4. M[Len(out) + 1] = new
    BY <1>2, <1>3
  <2> QED BY <2>2, <2>3, <2>4
<1>6. PagesOf(p, Append(out, s)) = FlattenSeq(M) /\ PagesOf(p, out) = FlattenSeq(L)
  BY DEF PagesOf
<1> HIDE DEF L, M, new
<1>7. M = Append(L, new)
  <2>1. /\ List(Append(L, new)) /\ Len(Append(L, new)) = Len(L) + 1
        /\ (\A i \in 1 .. Len(L) : Append(L, new)[i] = L[i])
        /\ Append(L, new)[Len(L) + 1] = new
    BY <1>4, AppendList
  <2>2. ASSUME NEW i \in 1 .. Len(M) PROVE M[i] = Append(L, new)[i]
    <3>1. i \in 1 .. Len(out) \/ i = Len(out) + 1
      BY <1>2, <1>5
    <3> QED BY <1>4, <1>5, <2>1, <3>1
  <2> QED BY <1>4, <1>5, <2>1, <2>2, ListsEqual
<1>8. L = <<>> <=> out = <<>>
  BY <1>4, EmptyList
<1>9. FlattenSeq(M) = IF L = <<>> THEN new ELSE FlattenSeq(L) \o new
  BY <1>4, <1>7, FlattenAppend
<1>10. PagesOf(p, Append(out, s)) = IF out = <<>> THEN new ELSE PagesOf(p, out) \o new
  BY <1>6, <1>8, <1>9
<1> QED BY <1>1, <1>10 DEF new

(* It is enough to look at the request that acts: what it writes goes to    *)
(* the file whose name it has fixed.                                        *)
LEMMA FilesKept ==
    ASSUME FilesInv, NEW p \in Procs, OnlyThis(p),
           Fixed(job[p]) => Fixed(job'[p]) /\ job'[p].name = job[p].name,
           \/ files' = files
           \/ Fixed(job'[p]) /\ \E pages : files' = Put(files, job'[p].name, pages),
           NamedWell(p, job'[p]), Holding(p)', Given(p)'
    PROVE  FilesInv'
<1>1. \A o \in Procs : Fixed(job[o]) => Fixed(job'[o]) /\ job'[o].name = job[o].name
  BY DEF OnlyThis
<1>2. ASSUME NEW o \in Procs \ {p}, Clash(o) PROVE Clash(o)'
  <2>1. job'[o] = job[o]
    BY DEF OnlyThis
  <2> QED BY <1>1, <1>2, <2>1 DEF Clash
<1>3. ASSUME NEW o \in Procs \ {p} PROVE Given(o)'
  <2>1. job'[o] = job[o]
    BY DEF OnlyThis
  <2> QED BY <1>2, <2>1 DEF FilesInv, Given, Told
<1>4. ASSUME NEW o \in Procs \ {p} PROVE Holding(o)'
  <2> SUFFICES ASSUME Fixed(job'[o]), job'[o].at # "done"
               PROVE  Held(o, job'[o], files') \/ Clash(o)'
    BY DEF Holding
  <2>1. job'[o] = job[o]
    BY DEF OnlyThis
  <2>2. Held(o, job[o], files) \/ Clash(o)
    BY <2>1 DEF FilesInv, Holding
  <2>3. CASE files' = files
    BY <1>2, <2>1, <2>2, <2>3
  <2>4. ASSUME Fixed(job'[p]), NEW pages, files' = Put(files, job'[p].name, pages)
        PROVE  Held(o, job'[o], files') \/ Clash(o)'
    <3>1. CASE job'[p].name = job[o].name
      BY <2>1, <2>4, <3>1 DEF Clash
    <3>2. CASE job'[p].name # job[o].name
      <4>1. /\ job[o].name \in DOMAIN files' <=> job[o].name \in DOMAIN files
            /\ job[o].name \in DOMAIN files => files'[job[o].name] = files[job[o].name]
        BY <2>4, <3>2 DEF Put
      <4>2. Held(o, job[o], files) => Held(o, job'[o], files')
        BY <2>1, <4>1 DEF Held
      <4> QED BY <1>2, <2>2, <4>2
    <3> QED BY <3>1, <3>2
  <2> QED BY <2>3, <2>4
<1>5. ASSUME NEW n \in DOMAIN files'
      PROVE  files'[n] = <<>> \/ \E o \in Procs : Fixed(job'[o]) /\ job'[o].name = n
  <2>1. CASE n \in DOMAIN files /\ files'[n] = files[n]
    BY <1>1, <2>1 DEF FilesInv
  <2>2. CASE Fixed(job'[p]) /\ n = job'[p].name
    BY <2>2
  <2>3. (n \in DOMAIN files /\ files'[n] = files[n]) \/ (Fixed(job'[p]) /\ n = job'[p].name)
    BY <1>5 DEF Put
  <2> QED BY <2>1, <2>2, <2>3
<1>6. \A o \in Procs : NamedWell(o, job'[o])
  BY DEF FilesInv, OnlyThis
<1> QED BY <1>3, <1>4, <1>5, <1>6 DEF FilesInv

LEMMA ClashStays ==
    ASSUME NEW p \in Procs, OnlyThis(p), Clash(p), job'[p].name = job[p].name
    PROVE  Clash(p)'
BY DEF Clash, OnlyThis

LEMMA FilesAfterSelect ==
    ASSUME JobInv, FormInv, FilesInv, NEW p \in Procs, Select(p)
    PROVE  FilesInv'
<1> DEFINE j == job[p]  q == j.q  S == Selected(p)  k == Fetched(p, S)
           first == q.rep \in NamedFirst \/ j.out # <<>>
<1>1. /\ DOMAIN job = Procs /\ DOMAIN j = Fields /\ j.at = "select" /\ Selecting(j)
  BY FormActs DEF Select, FormOf
<1>2. OnlyThis(p) /\ job'[p] = k
  BY <1>1, SelectKeeps
<1>3. /\ k.q = q /\ k.at \in {"bank", "print", "done"}
      /\ k.at = "done" => k.code = "norecord"
  BY <1>1, FetchedKeeps DEF Keeps
<1>4. /\ k.out = j.out
      /\ k.name = IF first THEN j.name ELSE NameOf(p, q)
      /\ k.second = IF first THEN j.second ELSE second
  BY <1>1, FetchedGives
<1>5. files' = IF q.rep \in Slips /\ S # {} THEN Put(files, job'[p].name, <<>>) ELSE files
  BY DEF Select
<1> HIDE DEF k, S
<1>6. Fixed(k)
  BY <1>3 DEF Fixed
<1>7. Fixed(j) => job'[p].name = j.name
  BY <1>1, <1>2, <1>4 DEF Fixed
<1>8. NamedWell(p, k)
  <2>1. NamedWell(p, j)
    BY DEF FilesInv
  <2> QED BY <1>1, <1>3, <1>4, <2>1 DEF NamedWell, NameOf
<1>9. Given(p)'
  BY <1>2, <1>3 DEF Given, Told
<1>10. Held(p, k, files') \/ Clash(p)'
  <2>1. CASE j.out # <<>>
    <3>1. q.rep \notin Slips
      BY <1>1, <2>1 DEF Selecting, Slips
    <3>2. files' = files
      BY <1>5, <3>1
    <3>3. Held(p, j, files) \/ Clash(p)
      BY <1>1, <2>1 DEF FilesInv, Holding, Fixed
    <3>4. k.name = j.name
      BY <1>4, <2>1
    <3>5. Held(p, j, files) => Held(p, k, files')
      BY <1>4, <3>2, <3>4 DEF Held
    <3> QED BY <1>2, <3>3, <3>4, <3>5, ClashStays
  <2>2. CASE j.out = <<>> /\ files' = Put(files, k.name, <<>>)
    <3>1. files'[k.name] = <<>>
      BY <2>2 DEF Put
    <3> QED BY <1>4, <2>2, <3>1 DEF Held
  <2>3. CASE j.out = <<>> /\ files' = files
    <3> SUFFICES ASSUME k.name \in DOMAIN files, files[k.name] # <<>> PROVE Clash(p)'
      BY <1>4, <2>3 DEF Held
    <3>1. PICK o \in Procs : Fixed(job[o]) /\ job[o].name = k.name
      BY DEF FilesInv
    <3>2. o # p
      BY <1>1, <2>3, <3>1 DEF Fixed
    <3>3. job'[o] = job[o]
      BY <1>2, <3>2 DEF OnlyThis
    <3> QED BY <1>2, <3>1, <3>2, <3>3 DEF Clash
  <2> QED BY <1>2, <1>5, <2>1, <2>2, <2>3
<1>11. Holding(p)'
  BY <1>2, <1>10 DEF Holding
<1>12. files' = files \/ (Fixed(job'[p]) /\ \E pages : files' = Put(files, job'[p].name, pages))
  BY <1>2, <1>5, <1>6
<1> QED BY <1>2, <1>6, <1>7, <1>8, <1>9, <1>11, <1>12, FilesKept

LEMMA FilesAfterOutput ==
    ASSUME JobInv, FormInv, FilesInv, NEW p \in Procs, Output(p)
    PROVE  FilesInv'
<1> DEFINE j == job[p]  k == job'[p]  q == j.q
           s == Head(j.todo)
           new == Own(p, PrintReportList(s))
           old == IF j.name \in DOMAIN files /\ q.rep # "PrintInNoteAdd_KS"
                  THEN files[j.name] ELSE <<>>
<1>1. /\ DOMAIN job = Procs /\ DOMAIN j = Fields /\ j.at = "print" /\ Printing(j)
  BY FormActs DEF Output, FormOf
<1>2. OnlyThis(p)
  BY <1>1, OutputKeeps
<1>3. /\ k.q = q /\ k.name = j.name /\ k.second = j.second
      /\ \/ /\ k.out = Append(j.out, s) /\ files' = Put(files, j.name, old \o new)
            /\ k.at \in {"print", "select", "mark", "answer"}
         \/ k.at = "done" /\ k.code = "error" /\ files' = Put(files, j.name, old)
  BY <1>1, OutputGives
<1>4. List(j.out) /\ List(j.todo) /\ s.count \in Nat
  <2>1. List(j.out) /\ List(j.todo) /\ j.todo # <<>>
        /\ \A i \in 1 .. Len(j.todo) : j.todo[i].count \in Nat
    BY <1>1, EmptyList DEF Printing, OnPaper, Sheets
  <2>2. s = j.todo[1] /\ Len(j.todo) > 0 /\ Len(j.todo) \in Nat
    BY <2>1, TailList, ListLen
  <2> QED BY <2>1, <2>2
<1>5. Fixed(j) /\ NamedWell(p, j) /\ (Held(p, j, files) \/ Clash(p))
  BY <1>1 DEF FilesInv, Holding, Fixed
<1>6. NamedWell(p, k)
  BY <1>1, <1>3, <1>5 DEF NamedWell
<1>7. CASE k.at = "done" /\ k.code = "error" /\ files' = Put(files, j.name, old)
  <2>1. Fixed(k) /\ Given(p)' /\ Holding(p)'
    BY <1>7 DEF Fixed, Given, Told, Holding
  <2>2. \E pages : files' = Put(files, k.name, pages)
    BY <1>3, <1>7
  <2> QED BY <1>2, <1>3, <1>6, <2>1, <2>2, FilesKept
<1>8. CASE /\ k.out = Append(j.out, s) /\ files' = Put(files, j.name, old \o new)
           /\ k.at \in {"print", "select", "mark", "answer"}
  <2>1. /\ List(new)
        /\ PagesOf(p, k.out) = IF j.out = <<>> THEN new ELSE PagesOf(p, j.out) \o new
    <3> DEFINE x == j.out  y == s
    <3>1. List(x) /\ y.count \in Nat
      BY <1>4
    <3> HIDE DEF x, y
    <3>2. /\ List(Own(p, PrintReportList(y)))
          /\ PagesOf(p, Append(x, y)) = IF x = <<>> THEN Own(p, PrintReportList(y))
                                        ELSE PagesOf(p, x) \o Own(p, PrintReportList(y))
      BY <3>1, PagesAppend
    <3> QED BY <1>8, <3>2 DEF x, y
  <2>2. k.out # <<>>
    <3>1. Len(k.out) = Len(j.out) + 1 /\ Len(j.out) \in Nat
      BY <1>4, <1>8, AppendList, ListLen
    <3> QED BY <3>1, EmptyList
  <2>3. files'[j.name] = old \o new /\ j.name \in DOMAIN files'
    BY <1>8 DEF Put
  <2>4. Held(p, j, files) => Held(p, k, files')
    <3> SUFFICES ASSUME Held(p, j, files) PROVE old \o new = PagesOf(p, k.out)
      BY <1>3, <2>2, <2>3 DEF Held
    <3>1. CASE j.out = <<>>
      <4>1. old = <<>>
        BY <3>1 DEF Held
      <4>2. <<>> \o new = new
        BY <2>1, ConcatEmpty
      <4> HIDE DEF old, new
      <4> QED BY <2>1, <3>1, <4>1, <4>2
    <3>2. CASE j.out # <<>>
      <4>1. q.rep # "PrintInNoteAdd_KS"
        BY <1>1, <3>2 DEF Printing
      <4>2. old = PagesOf(p, j.out)
        BY <3>2, <4>1 DEF Held
      <4> HIDE DEF old, new
      <4> QED BY <2>1, <3>2, <4>2
    <3> QED BY <3>1, <3>2
  <2>5. Held(p, k, files') \/ Clash(p)'
    BY <1>2, <1>3, <1>5, <2>4, ClashStays
  <2>6. Fixed(k) /\ Given(p)' /\ Holding(p)'
    BY <1>8, <2>2, <2>5 DEF Fixed, Given, Told, Holding
  <2>7. \E pages : files' = Put(files, k.name, pages)
    BY <1>3, <1>8
  <2> QED BY <1>2, <1>3, <1>6, <2>6, <2>7, FilesKept
<1> QED BY <1>3, <1>7, <1>8

(* A step of a request after its SELECT that writes no file.                *)
LEMMA FilesRest ==
    ASSUME FilesInv, NEW p \in Procs, OnlyThis(p), files' = files,
           job[p].at \in {"bank", "print", "mark", "answer"},
           job'[p].at \in {"bank", "print", "mark", "answer", "done"},
           job'[p].q = job[p].q, job'[p].name = job[p].name, job'[p].second = job[p].second,
           job'[p].out = job[p].out,
           Told(p)' => job[p].out # <<>> /\ job'[p].got = files[job[p].name]
    PROVE  FilesInv'
<1> DEFINE j == job[p]  k == job'[p]
<1>1. Fixed(j) /\ NamedWell(p, j) /\ (Held(p, j, files) \/ Clash(p))
  BY DEF FilesInv, Holding, Fixed
<1>2. Fixed(k) /\ NamedWell(p, k)
  BY <1>1 DEF Fixed, NamedWell
<1>3. Held(p, k, files') \/ Clash(p)'
  BY <1>1, ClashStays DEF Held
<1>4. Holding(p)'
  BY <1>3 DEF Holding
<1>5. Given(p)'
  <2> SUFFICES ASSUME Told(p)' PROVE k.got = PagesOf(p, k.out) \/ Clash(p)'
    BY DEF Given
  <2> QED BY <1>3 DEF Held
<1> QED BY <1>2, <1>4, <1>5, FilesKept

LEMMA FilesStep == JobInv /\ FormInv /\ FilesInv /\ [Next]_vars => FilesInv'
<1> SUFFICES ASSUME JobInv, FormInv, FilesInv, [Next]_vars PROVE FilesInv'
  OBVIOUS
<1>1. ASSUME NEW p \in Procs, NEW q \in Requests, Ask(p, q) PROVE FilesInv'
  <2>1. /\ OnlyThis(p) /\ job[p].at = "idle" /\ job'[p].at = "select" /\ job'[p].q = q
        /\ job'[p].name = NameOf(p, q) /\ job'[p].second = second /\ job'[p].out = <<>>
        /\ files' = files
    BY <1>1, AskGives DEF JobInv
  <2>2. ~Fixed(job[p]) /\ ~Fixed(job'[p]) /\ NamedWell(p, job'[p])
    BY <2>1 DEF Fixed, NamedWell, NameOf
  <2>3. Holding(p)' /\ Given(p)'
    BY <2>1, <2>2 DEF Holding, Given, Told
  <2> QED BY <2>1, <2>2, <2>3, FilesKept
<1>2. ASSUME NEW p \in Procs, Select(p) PROVE FilesInv'
  BY <1>2, FilesAfterSelect
<1>3. ASSUME NEW p \in Procs, ReadBank(p) PROVE FilesInv'
  <2>1. DOMAIN job = Procs /\ DOMAIN job[p] = Fields
    BY <1>3, FormActs
  <2>2. OnlyThis(p)
    BY <1>3, <2>1, ReadBankKeeps
  <2>3. /\ job[p].at = "bank" /\ job'[p].q = job[p].q /\ job'[p].out = job[p].out
        /\ job'[p].name = job[p].name /\ job'[p].second = job[p].second
        /\ \/ job'[p].at = "done" /\ job'[p].code = "norecord"
           \/ job'[p].at \in {"print", "bank"}
        /\ files' = files
    BY <1>3, <2>1, ReadBankGives
  <2>4. ~Told(p)'
    BY <2>3 DEF Told
  <2> QED BY <2>2, <2>3, <2>4, FilesRest
<1>4. ASSUME NEW p \in Procs, Output(p) PROVE FilesInv'
  BY <1>4, FilesAfterOutput
<1>5. ASSUME NEW p \in Procs, Mark(p) PROVE FilesInv'
  <2>1. DOMAIN job = Procs /\ DOMAIN job[p] = Fields
    BY <1>5, FormActs
  <2>2. OnlyThis(p)
    BY <1>5, <2>1, MarkKeeps
  <2>3. /\ job[p].at = "mark" /\ job'[p].at = "answer" /\ job'[p].q = job[p].q
        /\ job'[p].out = job[p].out /\ job'[p].name = job[p].name
        /\ job'[p].second = job[p].second /\ files' = files
    BY <1>5, <2>1, MarkGives
  <2>4. ~Told(p)'
    BY <2>3 DEF Told
  <2> QED BY <2>2, <2>3, <2>4, FilesRest
<1>6. ASSUME NEW p \in Procs, Answer(p) PROVE FilesInv'
  <2>1. DOMAIN job = Procs /\ DOMAIN job[p] = Fields /\ FormOf(job[p])
    BY <1>6, FormActs
  <2>2. OnlyThis(p)
    BY <1>6, <2>1, AnswerKeeps
  <2>3. /\ job[p].at = "answer" /\ job'[p].at = "done" /\ job'[p].q = job[p].q
        /\ job'[p].out = job[p].out /\ job'[p].name = job[p].name
        /\ job'[p].second = job[p].second /\ job'[p].got = files[job[p].name]
        /\ files' = files
    BY <1>6, <2>1, AnswerGives
  <2>4. job[p].out # <<>>
    BY <2>1, <2>3 DEF FormOf, Finished, OnPaper
  <2> QED BY <2>2, <2>3, <2>4, FilesRest
<1>7. CASE Move /\ files' = files
  <2>1. ASSUME NEW p \in Procs
        PROVE  /\ job'[p].at = job[p].at
               /\ job[p].at # "select" => job'[p] = job[p]
               /\ job[p].at = "select" =>
                     /\ job'[p].q = job[p].q /\ job'[p].out = job[p].out
                     /\ job'[p].name = job[p].name /\ job'[p].second = job[p].second
    BY <1>7, MoveGives
  <2>2. \A p \in Procs : Fixed(job'[p]) <=> Fixed(job[p])
    BY <2>1 DEF Fixed
  <2>3. \A p \in Procs : Fixed(job[p]) => job'[p].name = job[p].name
    BY <2>1 DEF Fixed
  <2>4. \A p \in Procs : job[p].at # "idle" => job'[p].name = job[p].name
    BY <2>1
  <2>5. ASSUME NEW p \in Procs, job[p].at # "idle", Clash(p) PROVE Clash(p)'
    BY <2>2, <2>3, <2>4, <2>5 DEF Clash
  <2>6. ASSUME NEW p \in Procs PROVE NamedWell(p, job'[p]) /\ Holding(p)' /\ Given(p)'
    <3>1. NamedWell(p, job[p]) /\ Holding(p) /\ Given(p)
      BY DEF FilesInv
    <3>2. NamedWell(p, job'[p])
      BY <2>1, <3>1 DEF NamedWell
    <3>3. Holding(p)'
      <4> SUFFICES ASSUME Fixed(job'[p]), job'[p].at # "done"
                   PROVE  Held(p, job'[p], files') \/ Clash(p)'
        BY DEF Holding
      <4>1. Held(p, job[p], files) \/ Clash(p)
        BY <2>1, <2>2, <3>1 DEF Holding
      <4>2. job[p].at # "idle"
        BY <2>2 DEF Fixed
      <4>3. Held(p, job[p], files) => Held(p, job'[p], files')
        BY <1>7, <2>1, <4>2 DEF Held
      <4> QED BY <2>5, <4>1, <4>2, <4>3
    <3>4. Given(p)'
      BY <2>1, <2>5, <3>1 DEF Given, Told
    <3> QED BY <3>2, <3>3, <3>4
  <2>7. \A n \in DOMAIN files :
          files[n] = <<>> \/ \E o \in Procs : Fixed(job'[o]) /\ job'[o].name = n
    BY <2>2, <2>3 DEF FilesInv
  <2> QED BY <1>7, <2>6, <2>7 DEF FilesInv
<1>8. CASE UNCHANGED <<job, files>>
  BY <1>8 DEF FilesInv, Holding, Given, Clash, Told
<1> QED BY <1>1, <1>2, <1>3, <1>4, <1>5, <1>6, <1>7, <1>8
        DEF Next, vars, Arrive, Change, ArchiveCopy, ArchiveDate, ArchiveDelete, Tick

LEMMA FilesInit == Init => FilesInv
<1> SUFFICES ASSUME Init PROVE FilesInv
  OBVIOUS
<1>1. \A p \in Procs : job[p].at = "idle"
  BY DEF Init, Idle
<1>2. DOMAIN files = {}
  BY EmptyList, ListLen DEF Init
<1> QED BY <1>1, <1>2 DEF FilesInv, NamedWell, Holding, Given, Told, Fixed

(* Two requests have one name only when both are named after the kind, the  *)
(* organisation and the second.                                             *)
LEMMA ClashMeans ==
    ASSUME JobInv, FilesInv, NEW p \in Procs, job[p].at # "idle", Clash(p)
    PROVE  \E o \in Procs \ {p} :
             /\ job[o].at # "idle" /\ job[o].q.org = job[p].q.org
             /\ {job[o].q.rep, job[p].q.rep} \cap Temporary = {}
             /\ Extension(job[o].q.rep) = Extension(job[p].q.rep)
             /\ job[o].second = job[p].second
<1>1. PICK o \in Procs \ {p} : Fixed(job[o]) /\ job[o].name = job[p].name
  BY DEF Clash
<1>2. job[o].at # "idle"
  BY <1>1 DEF Fixed
<1>3. NamedWell(o, job[o]) /\ NamedWell(p, job[p])
  BY DEF FilesInv
<1>4. ASSUME NEW x \in Procs, job[x].at # "idle", job[x].q.rep \notin Temporary
      PROVE  Extension(job[x].q.rep) # "tmp"
  <2>1. job[x].q \in Requests
    BY <1>4 DEF JobInv, Idle, Asked
  <2>2. job[x].q.rep \in Reporting \ Temporary
    BY <1>4, <2>1, RequestsAssumption
  <2> DEFINE r == job[x].q.rep
  <2>3. r \in Slips \cup {"PrintOutNoteTotal", "PrintInNoteTotal", "PrintOutNoteList",
             "PrintInNoteList", "PrintOutJJQD", "PrintInJJQD", "PrintDiffNote",
             "PrintClearTotal_PF", "PrintNoteTotal_PF", "QryOutNote", "QryInNote",
             "QryOutQuery", "QryInQuery", "QryAgreementList"}
    BY <2>2 DEF Reporting, Temporary, ByBank, ByArchive, NamedFirst
  <2> HIDE DEF r
  <2> QED BY <2>3 DEF Extension, Slips, r
<1>5. job[p].q.rep \notin Temporary /\ job[o].q.rep \notin Temporary
  <2>1. CASE job[p].q.rep \in Temporary /\ job[o].q.rep \in Temporary
    BY <1>1, <1>2, <1>3, <2>1 DEF NamedWell
  <2>2. CASE job[p].q.rep \in Temporary /\ job[o].q.rep \notin Temporary
    <3>1. Extension(job[o].q.rep) = "tmp"
      BY <1>1, <1>2, <1>3, <2>2 DEF NamedWell
    <3> QED BY <1>2, <1>4, <2>2, <3>1
  <2>3. CASE job[p].q.rep \notin Temporary /\ job[o].q.rep \in Temporary
    <3>1. Extension(job[p].q.rep) = "tmp"
      BY <1>1, <1>2, <1>3, <2>3 DEF NamedWell
    <3> QED BY <1>4, <2>3, <3>1
  <2> QED BY <2>1, <2>2, <2>3
<1>6. /\ Extension(job[o].q.rep) = Extension(job[p].q.rep)
      /\ job[o].q.org = job[p].q.org /\ job[o].second = job[p].second
  BY <1>1, <1>2, <1>3, <1>5 DEF NamedWell
<1> QED BY <1>2, <1>5, <1>6

(* The file a requester is given holds the pages of its report and nothing  *)
(* else, unless another request of the same organisation for a report of    *)
(* the same kind was named in the same second.                              *)
THEOREM FilesAreOwn == Spec => []OwnFile
<1>1. Init => TablesInv /\ JobInv /\ FiniteInv /\ FormInv /\ FilesInv
  BY ReportsInit, FormInit, FilesInit
<1>2. (TablesInv /\ JobInv /\ FiniteInv /\ FormInv /\ FilesInv) /\ [Next]_vars
        => (TablesInv /\ JobInv /\ FiniteInv /\ FormInv /\ FilesInv)'
  BY TablesStep, JobStep, FiniteStep, FormStep, FilesStep
<1>3. JobInv /\ FilesInv => OwnFile
  <2> SUFFICES ASSUME JobInv, FilesInv, NEW p \in Procs, Told(p),
                      job[p].got # PagesOf(p, job[p].out)
               PROVE  \E o \in Procs \ {p} :
                        /\ job[o].at # "idle" /\ job[o].q.org = job[p].q.org
                        /\ {job[o].q.rep, job[p].q.rep} \cap Temporary = {}
                        /\ Extension(job[o].q.rep) = Extension(job[p].q.rep)
                        /\ job[o].second = job[p].second
    BY DEF OwnFile, PagesOf
  <2>1. Clash(p) /\ job[p].at # "idle"
    BY DEF FilesInv, Given, Told
  <2> QED BY <2>1, ClashMeans
<1> QED BY <1>1, <1>2, <1>3, PTL DEF Spec
==============================================================================
