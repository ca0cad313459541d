---------------------------- MODULE ReportForms -----------------------------
(***************************************************************************)
(* The reports of region sz (PrintSvr.c, QuerySvr.c, mailqry.c) and of the *)
(* bank (780, 781, 782 in process10.c): which rows each one selects, and   *)
(* the sections, lines, row count and footer it writes into its data file, *)
(* which PrintReportList (PrintText.c) turns into pages.                   *)
(*                                                                         *)
(* A row of any table is one record.  What a request filters on besides    *)
(* the organisation, the date, the round, the note type and the print      *)
(* state (amounts, account numbers, reference ranges, class) is taken to   *)
(* hold for every row; the columns printed are reduced to counts and sums. *)
(***************************************************************************)
EXTENDS Integers, Sequences, FiniteSets, FiniteSetsExt, SequencesExt

CONSTANTS PresProxy,    \* organinfo: who presents for an organisation,
          AcptProxy,    \* who accepts for it,
          Level1,       \* and the organisations of level 1
          NoteNames,    \* the rows noteinfo has of a note type
          PageLines     \* the lines of a page, from the .para file

ASSUME PageLinesAssumption == PageLines \in Nat \ {0}

Unset == "unset"          \* a field the request leaves empty

-----------------------------------------------------------------------------
(* The conditions the reports share.                                       *)

OfParty(q, r, field, proxy) ==
    IF q.party = Unset THEN proxy[r[field]] = q.org ELSE r[field] = q.party
InRound(q, r) == q.round = 0 \/ r.round = q.round
OfType(q, r) == q.type = Unset \/ r.type = q.type
Within(q, r) == q.from <= r.date /\ r.date <= q.to
Cleared(r) == r.state \in {"settled", "checked"}
PrintState(q, n) ==
    CASE q.state = "unprinted" -> n = 0
      [] q.state = "printed" -> n > 0
      [] OTHER -> TRUE

(* Slips for incoming notes, the general one, the one for deposits made    *)
(* elsewhere and the one for taxes; n is how often the row was printed.    *)
InNoteAddTakes(q, r, n) ==
    /\ r.tab = "jour" /\ r.dir = "in" /\ r.date = q.from
    /\ OfParty(q, r, "acc", AcptProxy) /\ OfType(q, r) /\ r.type # "tax"
    /\ r.accepted /\ PrintState(q, n)
InNoteAddCOPTakes(q, r, n) ==
    /\ r.tab = "jour" /\ r.dir = "in" /\ r.date = q.from
    /\ r.acc = q.party /\ r.dc = "credit" /\ r.type # "tax"
    /\ r.accepted /\ PrintState(q, n)
InNoteAddKSTakes(q, r, n) ==
    /\ r.tab = "jour" /\ r.dir = "in" /\ r.date = q.from
    /\ OfParty(q, r, "acc", AcptProxy) /\ OfType(q, r)
    /\ r.accepted /\ PrintState(q, n)

(* Query and reply letters, and free messages.                             *)
InQueryTakes(q, r, n) ==
    r.tab = "query" /\ r.dir = "in" /\ r.acc = q.org /\ Within(q, r) /\ PrintState(q, n)
OutQueryTakes(q, r) ==
    r.tab = "query" /\ r.dir = "out" /\ r.orig = q.org /\ Within(q, r)
QryInQueryTakes(q, r, n) ==
    r.tab = "query" /\ r.dir = "in" /\ r.acc = q.org /\ Within(q, r) /\ PrintState(q, n)
QryOutQueryTakes(q, r) ==
    r.tab = "query" /\ r.dir = "out" /\ r.orig = q.org /\ Within(q, r)
MailQueryTakes(q, r, n) ==
    r.tab = "mail" /\ r.acc = q.org /\ Within(q, r) /\ PrintState(q, n)
QryAgreementListTakes(q, r) == r.tab = "agreement"

(* Totals and lists of the notes of a day, by direction.                   *)
OutNoteTotalTakes(q, r) ==
    /\ r.tab = "jour" /\ r.dir = "out" /\ r.date = q.from /\ InRound(q, r)
    /\ Cleared(r) /\ OfParty(q, r, "orig", PresProxy)
InNoteTotalTakes(q, r) ==
    /\ r.tab = "jour" /\ r.dir = "in" /\ r.date = q.from /\ InRound(q, r)
    /\ Cleared(r) /\ OfParty(q, r, "acc", AcptProxy)
OutNoteListTakes(q, r) ==
    /\ r.tab = "jour" /\ r.dir = "out" /\ r.date = q.from /\ InRound(q, r)
    /\ Cleared(r) /\ OfParty(q, r, "orig", PresProxy)
InNoteListTakes(q, r) ==
    /\ r.tab = "jour" /\ r.dir = "in" /\ r.date = q.from /\ InRound(q, r)
    /\ Cleared(r) /\ OfParty(q, r, "acc", AcptProxy)

(* The queries over several days.                                          *)
QryOutNoteTakes(q, r) ==
    /\ r.tab = "jour" /\ r.dir = "out" /\ Within(q, r) /\ InRound(q, r)
    /\ q.party \in {Unset, r.orig} /\ OfType(q, r)
QryInNoteTakes(q, r) ==
    /\ r.tab = "jour" /\ r.dir = "in" /\ Within(q, r) /\ InRound(q, r)
    /\ OfParty(q, r, "acc", AcptProxy) /\ OfType(q, r)

(* Bags exchanged on paper.                                                *)
OutJHDTakes(q, r) ==
    /\ r.tab = "bag" /\ r.orig = q.org /\ q.party \in {Unset, r.acc}
    /\ r.date = q.from /\ r.round = q.round
OutJJQDTakes(q, r) ==
    r.tab = "bag" /\ r.orig = q.org /\ r.date = q.from /\ r.round = q.round
InJJQDTakes(q, r) ==
    r.tab = "bag" /\ r.acc = q.org /\ r.date = q.from /\ r.round = q.round

(* Clearing differences: the bank's from reconinfo, with the round, and    *)
(* those of the branches from ebanksumm, whose statement does not take the *)
(* condition on the round that was prepared for it.                        *)
ClearDiffTakes(q, r) ==
    r.tab = "recon" /\ r.orig = q.org /\ r.date = q.from /\ InRound(q, r)
DiffNoteTakes(q, r) ==
    r.tab = "branch" /\ (q.org \in Level1 \/ r.orig = q.org) /\ r.date = q.from
ClearTotalTakes(q, r) ==
    r.tab = "branch" /\ (q.org \in Level1 \/ r.orig = q.org) /\ Within(q, r)
NoteTotalTakes(q, r) ==
    r.tab = "jour" /\ Within(q, r) /\ Cleared(r) /\ OfType(q, r)

(* The bank's lists of fees, and of the bookings of the current day once   *)
(* it is reconciled.                                                       *)
FeeListTakes(q, r) == r.tab = "fee" /\ Within(q, r)
DetailFeeListTakes(q, r) == r.tab = "fee" /\ Within(q, r) /\ r.state = "charged"
BankAcctListTakes(q, r) ==
    /\ r.tab = "jour" /\ r.date = q.from /\ r.round = q.round /\ r.state # "started"
    /\ r[IF r.dir = "out" THEN "orig" ELSE "acc"] = q.org

-----------------------------------------------------------------------------
(* What is written.  A line shows or counts the rows in "of"; its cells    *)
(* are the numbers printed.                                                *)

Line(S, cells) == [of |-> S, cells |-> cells]
Section(lines, count, foot) == [lines |-> lines, count |-> count, foot |-> foot]

Cells(S) == <<Cardinality(S), MapThenSumSet(LAMBDA r : r.amt, S)>>
ByFlag(S) == Cells({r \in S : r.dc = "debit"}) \o Cells({r \in S : r.dc = "credit"})
Added(lines, n) == [c \in 1 .. n |-> FoldSeq(LAMBDA l, t : t + l.cells[c], 0, lines)]
Having(S, field, v) == {r \in S : r[field] = v}
Values(S, field) == SetToSeq({r[field] : r \in S})

(* One line per row of the result set.                                     *)
RowLines(S) == LET rows == SetToSeq(S)
               IN  [i \in DOMAIN rows |-> Line({rows[i]}, <<1, rows[i].amt>>)]
PlainList(S) == <<Section(RowLines(S), Cardinality(S), <<>>)>>

(* A section per currency and own organisation; in it a line for each of   *)
(* the other banks, or its rows and a subtotal.                            *)
PerOwner(S, own) ==
    LET keys == SetToSeq({<<r.cur, r[own]>> : r \in S})
    IN  [i \in DOMAIN keys |-> {r \in S : <<r.cur, r[own]>> = keys[i]}]

TotalSection(S, opp) ==
    LET banks == Values(S, opp)
        lines == [j \in DOMAIN banks |->
                    Line(Having(S, opp, banks[j]), ByFlag(Having(S, opp, banks[j])))]
    IN  Section(lines, Len(banks), Added(lines, 4))
PrintOutNoteTotal(S) ==
    LET part == PerOwner(S, "orig") IN [i \in DOMAIN part |-> TotalSection(part[i], "acc")]
PrintInNoteTotal(S) ==
    LET part == PerOwner(S, "acc") IN [i \in DOMAIN part |-> TotalSection(part[i], "orig")]

(* The subtotal is a line as well and counts no row a second time; the     *)
(* footer adds up the subtotals.                                           *)
ListSection(S, opp) ==
    LET banks == Values(S, opp)
        subs  == [j \in DOMAIN banks |-> Line({}, Cells(Having(S, opp, banks[j])))]
        lines == FlattenSeq([j \in DOMAIN banks |->
                     Append(RowLines(Having(S, opp, banks[j])), subs[j])])
    IN  Section(lines, Cardinality(S) + Len(banks), Added(subs, 2))
PrintOutNoteList(S) ==
    LET part == PerOwner(S, "orig") IN [i \in DOMAIN part |-> ListSection(part[i], "acc")]
PrintInNoteList(S) ==
    LET part == PerOwner(S, "acc") IN [i \in DOMAIN part |-> ListSection(part[i], "orig")]

(* The queries count and sum only what is settled or checked.              *)
QuerySection(S) ==
    LET done == {r \in S : Cleared(r)} IN Section(RowLines(S), Cardinality(S), Cells(done))
QryOutNote(S) == <<QuerySection(S)>>
QryInNote(S) == LET orgs == Values(S, "acc")
                IN  [i \in DOMAIN orgs |-> QuerySection(Having(S, "acc", orgs[i]))]

(* Bags: seen[b] are the bags counted for bank b.  The hand-over list puts *)
(* two banks on a line; the total takes the place after the last bank.     *)
PrintOutJHD(banks, seen) ==
    LET lines == [j \in DOMAIN banks |-> Line(seen[banks[j]], ByFlag(seen[banks[j]]))]
    IN  <<Section(lines, Len(banks), <<>>)>>
Blank == Line({}, <<0, 0, 0, 0>>)
PrintJJQD(banks, seen) ==
    LET items  == [j \in DOMAIN banks |-> Line(seen[banks[j]], ByFlag(seen[banks[j]]))]
        filled == items \o (IF Len(items) % 2 = 0 THEN <<Blank>> ELSE <<>>)
                        \o <<Line({}, Added(items, 4))>>
        lines  == [k \in 1 .. Len(filled) \div 2 |->
                     Line(filled[2 * k - 1].of \cup filled[2 * k].of,
                          filled[2 * k - 1].cells \o filled[2 * k].cells)]
    IN  <<Section(lines, Len(banks) \div 2 + 1, <<Len(banks)>>)>>

(* Sums per currency, per branch, per note type.                           *)
DiffLines(S, groups) ==
    LET keys == SetToSeq(groups)
    IN  [i \in DOMAIN keys |-> LET T == {r \in S : <<r.orig, r.cur>> = keys[i]}
                               IN  Line(T, ByFlag(T))]
PrintClearDiff(S) ==
    LET lines == DiffLines(S, {<<r.orig, r.cur>> : r \in S})
    IN  <<Section(lines, Len(lines), <<>>)>>
PrintClearTotal_PF(S) ==
    LET lines == DiffLines(S, {<<r.orig, r.cur>> : r \in S})
    IN  <<Section(lines, Len(lines), Added(lines, 4))>>
InAndOut(S) == LET out == Cells({r \in S : r.dir = "out"})
                   in  == Cells({r \in S : r.dir = "in"})
               IN  out \o in \o <<out[1] + in[1], out[2] + in[2]>>
PrintNoteTotal_PF(types, seen) ==
    LET lines == [i \in DOMAIN types |-> Line(seen[types[i]], InAndOut(seen[types[i]]))]
    IN  <<Section(lines, Len(lines), Added(lines, 6))>>

(* The fee lists join feelist with noteinfo on the note type alone.        *)
FeeSection(S) ==
    LET rows  == SetToSeq(S)
        lines == FlattenSeq([i \in DOMAIN rows |->
                     [k \in 1 .. NoteNames[rows[i].type] |-> Line({rows[i]}, <<1, rows[i].amt>>)]])
    IN  Section(lines, Len(lines), Added(lines, 2))
PF10_780(S) == <<FeeSection(S)>>
PF10_782(S) == <<FeeSection(S)>>

(* The list of bookings writes a line per booking, one when there is none, *)
(* and gives the number of transactions as its row count.                  *)
PF10_781(S) ==
    LET rows  == SetToSeq(S)
        lines == FlattenSeq([i \in DOMAIN rows |->
                     [k \in 1 .. Max({1, rows[i].booked}) |-> Line({rows[i]}, <<>>)]])
    IN  <<Section(lines, Len(rows), <<>>)>>

-----------------------------------------------------------------------------
(* PrintReportList: the data file is refused when it holds no row or fewer *)
(* lines than its row count; otherwise row-count lines are put on pages,   *)
(* each with the footer.                                                   *)
Printable(s) == s.count > 0 /\ Len(s.lines) >= s.count
FullPages(s) == s.count \div PageLines
TotalPages(s) == s.count \div PageLines + (IF s.count % PageLines # 0 THEN 1 ELSE 0)
OnPage(s, i) == {j \in 1 .. PageLines : (i - 1) * PageLines + j <= s.count}
Page(s, i) == [lines |-> [j \in OnPage(s, i) |-> s.lines[(i - 1) * PageLines + j]],
               foot  |-> s.foot]
PrintReportList(s) == [i \in 1 .. TotalPages(s) |-> Page(s, i)]
=============================================================================
