# Verification of tcop

tcop is the platform through which the commercial banks of a city clear
transfers, cheques and bank notes against each other: it sits between a bank's
core system and the local clearing center ("PH" in the code). This directory
holds TLA+ models of it, TLC configurations that check them, and proofs for
TLAPS. The models follow one configuration that is in the repository: bank 1015
(`src/src/process/PF/`) in region Suzhou (`src/src/region/sz/`), with the
message flows, SQL statements and tables under `src/` that belong to it, and the
gateway `spdbsvr` in front of it.

Contents: [the system](#the-system), [components](#components),
[the modules](#the-modules), [runs](#runs), [what the runs found](#what-the-runs-found),
[proofs](#proofs), [what is not modelled](#abstractions-and-what-is-not-modelled),
[plan](#plan).

## The system

One process (or thread) serves one request: `server.c` receives it, `appsMain.c`
drives it through the same stages whatever it is

    init (OPInitOPTran, CheckInTrans)  ->  handler before the center
      ->  message to the center and its answer  ->  OPTranAfterCommToPH
      ->  handler after the center  ->  answer  ->  OP_DoFinish

and the message flow table of the node says which handler (an "OPTCODE", e.g.
108 = outbound transaction, 104 = inbound) takes part. Requests come from
tellers (node 1015), from the clearing center (node 1010) and from timers and
operators (node 1099). A handler talks to the core system of the bank and to the
center by blocking calls that may be lost, time out, or return something that
cannot be decoded.

All lasting state is in a database and a few counter files:

| state | what it is | written by |
|---|---|---|
| `trnjour` | one row per transaction; `clearstate` 0 / settled / failed / unknown / checked | `OPInitOPTran`, `OPTranAfterCommToPH`, `OP_DoFinish`, 0009, 0066, 0006, 0010, reconciliation |
| `acctjour` | one row per leg booked in the core system; `result` 0 in doubt, 1 booked, 2 reversed, 5 suspended, 9 failed | `Accounting`, `AccountCancel`, 1609 |
| `htrnjour` | archived `trnjour` | `PF_9999` |
| `syspara` | work date, clearing dates, last round announced and settled, last date archived | 1602, 1603, 1604, 1605, `PF_9999` |
| `bankjour`, `reconinfo`, fee and exchange files | a reconciliation's snapshot and sums, from which receipts are made | `SettleSvr`, 1606 |
| `feelist`, `bankclear` | fees taken; transfers of the bank's own clearing | `fetchFee`, `PF10_903`, `PF10_904` |
| `operinfo`, `agreement`, code tables | administration | `tcMng.c`, 1011, 1012, 1619 |
| counter file | serial numbers | `GenSerial` |
| shared memory | the number of the gateway's children; the table of key machines | `UpdateProcNum`; `SZMY_API.c` |

There are no database transactions: every statement commits by itself
(`ext/udb/db_wrapper.c`), an UPDATE of no row succeeds, and a one-row query fails
unless it finds exactly one row. So *every* pair of statements is a place where
another process, or a crash, can come in between. That, and the three parties
(core system, platform, center) whose records must agree although any message
between them may be lost, is what is hard about the program and what the models
are about.

## Components

For every component: its state, its operations, what makes it correct. The
complete list, with the files of each and what of it is left out, is `components`
in `PROJECT.json`.

| component | state | operations | correct when | module |
|---|---|---|---|---|
| Booking engine | `acctjour`, serials, calls of the core system | `Accounting`, `AccountCancel`, 1609 | the core system posts a leg at most once; the journal says what it did; a reversal names the posting | `Booking`, `BookOnce` |
| Outbound transactions | `trnjour` row, the center's decision, stage of each request | 108, 0009, 0066, 0113, 0502, resubmission | a leg that must come first is booked before the center hears of it, the others after it settled; refusals are undone; the answer tells what happened | `OutTran` |
| Inbound transactions | `trnjour` row | 104, 0010, 0006, 0111, 0113 | booked once however often it is delivered; what the center is told is true | `InTran` |
| Return tickets | two legs of `acctjour`, `trnjour.tpflag` | `TP_Process` | both legs or none; the first is undone last; the flag stands for a return | `Returns` |
| Bank-side clearing | `stflag`, `tpflag`, `feelist`, `bankclear` | 122, inbound returns, 152, 153, 903, 904 | a debit is received or returned, once; no fee is forgotten; a sum is transferred once | `Receipts`, `Fees`, `Clearing` |
| Operators and administration | `operinfo`, `agreement`, `syspara`, code tables | log-in, log-out, ...; XYHREG, XYHCANCEL, 1011, 1012; 1601, 1602, 1603, 1619 | a cancelled operator stays cancelled; table and center agree; tables are replaced as a whole | `Operators`, `Agreements`, `Params` |
| Day end | `syspara` dates, `trnjour`, `htrnjour`, `bankjour`, `reconinfo` | 1602, 1603, 1604, 1605, 1606, 9999 | a row is in the table where it is looked for; reconciled rows agree with the center; only reconciled days are archived; receipts are true | `DayEnd`, `Settlement` |
| Serial numbers | counter file and its lock | `GenSerial` | no number twice before the counter goes round; no one is locked out | `Serial` |
| Queries and report printing | data and result files, print counts | `PF_PRTQRY` and the bank's 780, 781, 782 | no row is missed, each is on one line, footers add up, files are one's own, counts tell the prints | `ReportForms`, `Reports` |
| Transport | the gateway's children and their number | accept, serve, `UpdateProcNum`, restart | the number tells the children; nobody is held up | `Gateway` |
| Security | shared table of key machines | choose, mark, test | nobody is refused while a machine works; machines come back into use | `KeyMachines` |
| Message packing, database wrapper | none | pack and unpack; single statements | - | outcomes of every step |
| Other banks and regions, sources that are not built, test tools | as above | variants of the same handlers | as above | not modelled |

How they interact: a transaction calls the booking engine (`Accounting` and
`AccountCancel` are C calls inside the handler, so the calling process is inside
the engine until it returns); so do return tickets, receipts and fees. The engine
draws its serial from `GenSerial`. The day end reads and rewrites the rows the
transactions write, in the same tables, from other processes; a reconciliation
takes its snapshot before it rewrites them, and the receipts and reports are made
from what it left.

The behaviours that are hard to test are listed under `hazards` in
`PROJECT.json`, each at its line with the properties that would catch it: a
retry after a lost answer, two deliveries of one transaction, a crash between a
call and the statement that records it, a reference that is stale after a retry,
a day's rows moved while someone still writes or prints them, a shared number
read before its lock is taken.

## The modules

`Booking` is the base. `OutTran`, `InTran`, `Receipts` and `Fees` EXTEND it: their
state is added to the engine's, a process that made an engine call waits until
that call has returned, and the engine's steps interleave with everything else.
`Returns` EXTENDS `OutTran` in turn and puts `TP_Process` in the place of two of
its stages. The other components share no state in the code that both sides
write, but for the dates, and stand alone. `MC*` modules add what only TLC needs
(bounds, symmetry, views, constant definitions); `*Proofs` modules add theorems.

    BookOnce <--- implements --- Booking <--- EXTENDS --- OutTran <--- EXTENDS --- Returns
                                  ^  ^  ^                                           ^
                    BookingProofs '  |   `--- InTran            OutTranProofs ---EXTENDS---'
                                     |           ^
                                     |      InboundProofs
                                     |           v
                                      `--- Receipts, Fees
    DayEnd <--- DayEndProofs              Clearing, Settlement <--- ClearingProofs
    Serial, Gateway, KeyMachines, Agreements, Operators, Params <--- SharedProofs
    ReportForms <--- EXTENDS --- Reports <--- ReportsProofs
             ^---- ReportFormsProofs <--- EXTENDS ---'

`OutTranProofs` and `InboundProofs` extend `BookingProofs` too.

Code that is not in the repository - the core system, the center, the key
machines - is modelled from how the code uses it: the core system executes a
request at most once, whenever it gets to it; the center decides a transaction
once, and may answer before it has decided.

### Booking (`process/PF/process10.c`: `Accounting`, `AccountCancel`; 1609)

`acct` is `acctjour`, `host` its `acctserial`, the request whose answer wrote the row,
by which a reversal with flag 3 (that of a refused return) names its booking; the other
reversals name `ref`, the `reserved1` of the insert. `calls`/`answers` are what was sent
to the core system and what it did, `pc`/`job`/`ret` are each process's control point, parameters and
return code, `serial` the last serial drawn. `reopened` and `blind` are history
variables: legs booked again over a closed row, and legs whose row was written
without a readable answer of the core system (an answer that could not be
decoded reads as success; 1609 is an operator's word).

| action | code |
|---|---|
| `AccountingStart`, `AccountingQuery`, `AccountingInsert`, `AccountingSend`, `AccountingReply` | the statements of `Accounting` in order: draw the serial, SELECT the row and decide, INSERT it (the unique index may refuse), call the core system, UPDATE the result |
| `AccountCancelStart`, `AccountCancelQuery`, `AccountCancelSend`, `AccountCancelReply` | the same for `AccountCancel` |
| `CallLost` | the call fails: E_SYS_COMM_BANK |
| `BankExecute` | the core system executes a request, possibly long after its caller gave up |
| `Crash` | a process dies between two statements |
| `ManualAdjust` | 1609 |

`BookOnce` is what the engine promises of a leg, without processes and failures:
claimed, money moved at most once, recorded; undone at most once, recorded.
`Booking` implements it (`ImplementsBookOnce`) by a mapping that takes the
journal result for the abstract row and computes the money from the requests the
core system executed; a leg that was reopened or written blindly has left the
promise (`released`).

### OutTran (`appsMain.c`, `appsHandle.c`, `tcop.c`, `server.c`, `BeforeTransOut`/`AfterTransOut`)

One outbound transaction of any `kind` (personal or not, credit or debit, with
fee, with cash) and any number of processes that submit it, query it (0066),
receive the center's report (0009), reverse a leg by hand (0113), delete it
(0502, `OPT_ADM_DELTRAN`), or die. `row`
is its `trnjour.clearstate`, `center` what the center made of it, `stage` where
each process is, `tc` the answer of the center it holds, `code` the platform
code it will end with. One action per stage: `Submit`, `BeforeTransOut`,
`BeforeBooked`, `TransferToPH`, `CenterAnswer`, `OPAfterCommToPH`,
`AfterTransOut`, `Cancelled`/`SideBooked`/`MainBooked`, `Reply`, `OP_DoFinish`.
`doubts` and `byHand` are history.

### InTran (`tcTran.c`, `PF10_104`, `PF10_157`, `PF10_123`, `PF_0006`)

One inbound transaction delivered any number of times. `Deliver`, `CheckInTrans`,
`Resettle` and `InsertTrnjour` are the statements of the duplicate check;
`PF10_104`, `FirstBooked`, `MainBooked` the booking; `PF10_157`, `ReverseIn`,
`ReversedIn` the center's reversal; `PF_0006`, `PF_0006Update` its query;
`PF10_123` an operator's confirmation, `PF10_111` a reversal by hand.

### DayEnd (`region/sz/process.c`, `SettleSvr.c`)

The clearing and work dates change (`CenterMoves`, then one action per UPDATE of
1602/1603), a round is announced and reconciled (`PF_1604`, `PF_1605`, `Fetched`,
`SettleRow` once per listed row, `FailExcess`, `CheckDiffAndList`,
`UpdSettledDateround`) and reconciled days are archived (`PF_9999` and one
action per statement: clean, copy, three parameters, purge), while requests
insert rows (`Begin` reads the work date, `Insert` is the INSERT) and rewrite
them. `late`, `slipped`, `touched`, `done` are history: rows inserted after
their day was copied, days purged although `ARCHIVEDATE` was not set, rows
written after a process counted them, rounds reconciled.

### Serial (`opSerial.c`)

`GenSerial` by statement: open, spin for the `fcntl` lock, read, write, close.
The counter goes round; `lap` (history) tells the rounds apart.

### Returns (`TP_Process`)

The outbound return of an inbound ticket: a debit whose `BeforeTransOut` and
`AfterTransOut` are `TP_Process`. Its legs TPA and TPB take the places of `Main`
and `Side`; `leg` is where in `TP_Process` a process is, `flagged` the original's
`tpflag`. `FirstLeg`, `SecondLeg`, `SecondBooked`, `FirstUndone` are the way to the
center, `AfterCenter`, `CancelFirst`, `FirstCancelled` the way back; `Skeleton` is
every stage of `OutTran` that does not enter them.

### Receipts (`PF10_122`, the inbound return)

An outbound debit waits for its round to be over; then the branch that presented
it is credited when it asks for it, unless the paying bank returned it before.
`PF10_122`, `SelectRows`, `Receive`, `Received` credit the rows of a round one
after the other; `ReturnArrives`, `BookReturn`, `ReturnBooked`, `FlagReturned` are
the return that comes inbound. The clock counts half rounds: that a round works,
and that it is over. A row has the WORKDATE and WORKROUND of its round, the platform an
EXCHGDATE and EXCHGROUND of its own, which 1602 may move inside a work day: `MayReceiveAt`
compares them as `PF10_122` does, and nothing is assumed of how they go together.

### Fees (`PF10_152`, `PF10_153`, `fetchFee`)

`PF10_152` and `PF10_153` enter `fetchFee` with one row or with all rows up to a date
(`NextRow`, `CloseBatch`); `FetchQuery`, `FetchInsert`, `FetchCharge`, `FetchCharged`,
`FetchMark` are its statements. `skipped` (history) are the dates passed by force or
over a failed SELECT. A booking that is not made because of its currency returns 0, and
`FetchCharged` takes it for a success, as `fetchFee` does: the batch goes on as if the
fee had been taken.

### Clearing (`PF10_903`, `PF10_904`)

`PF10_903` with `HasRecord` and `InsertBankclear` per sum, `PF10_904` with
`ClearNothing`, `Transfer` and `TransferAnswered`/`TransferLost` per row;
`CoreExecute` is the core system. `doubtful` (history) are the sums of which an
answer was lost or unreadable, a statement failed, or two requests worked at once.

### Agreements, Operators, Params (`tcMng.c`, `appsHandle.c`, `region/sz/process.c`)

`Agreements`: a request goes to the center (`AskCenter`) and the table follows
(`DeleteAgreement`, `InsertAgreement`, `CancelAgreement`), or the bank writes it alone
(`PF_1011`, `PF_1012`). `Operators`: one action per request for what it looks at and
decides, `UpdateOper` for its UPDATE. `Params`: 1601, 1602 and 1603 write blocks
of parameters, one UPDATE each (`UpdSysPara`), of which some are looked at and others
not (`Unchecked`: the previous dates of 1602, and the UPDATE of a clearing or exchange
round after which 1601 or 1603 goes on with its next block); `PF_1619` replaces the code tables by DELETE and one INSERT a
line. The center moves on meanwhile and its notifications are lost or repeated.

### Settlement (`SettleSvr.c`, `CenterAndBankSettle.c`, 1604, 1605, 1606)

What `DayEnd` leaves out of a reconciliation: `DeleteBankJour`/`InsertBankJour` (the
snapshot), `DeleteSums`/`LoadSum`, `DeleteReconInfo`/`InsertReconInfo`, `SettleRow`,
`FailExcess`, `CheckDiffAndList`, `RecFeeSum`, `RecExchgFile`, `UpdSettledDateround`;
then the receipt: `PF_1606`, `Compare` per kind, `ListCenterRow` and `ListBankRows`
where the numbers differ, per currency. `over`, `touched`, `overlap` are history:
rounds whose list was dealt with whole, rows written meanwhile, rounds two were
at work on.

### ReportForms, Reports (`PrintSvr.c`, `QuerySvr.c`, `mailqry.c`, `PrintText.c`, 780-782)

`ReportForms` is pure: which rows each of the 24 reports selects, and the sections,
lines, row counts and footers it makes of them; `PrintReportList` turns them into
pages. `Reports` is a request from the choice of the table to the answer (`Ask`,
`Select`, `ReadBank`, `Output`, `Mark`, `Answer`) while rows arrive, change and are
archived (`ArchiveCopy`, `ArchiveDate`, `ArchiveDelete`) and the clock ticks. `Rows` are
the versions a row of `trnjour` may have: they share its key `id` and what it was entered
with, and differ in `result`, `clearstate` and the number of its bookings. `Change`
replaces one by another, as `OP_DoFinish`, `CheckInTrans` and the settlement do;
`num` is `printnum`, by key. The clock is the day of the month and the time, the part of
a file's name that comes back, and so does it. `disturbed` (history) are the rows for
which the UPDATE of a slip found something else than its SELECT, and why: `Turned` are
those a change, an arrival or another slip's mark brought under the condition or out of
it between the two; then the rows whose day the archive date passed under a slip, those
marked in `trnjour` after they were copied, and those of a failed UPDATE.

### KeyMachines (`SZMY_API.c`)

`Get_MYJ_Info`, `CreateShm`, `Wipe`, `Fill` find or make the table; `Scan` looks at one
place after the other, `CountFailed` forks the test, `Set_MYJ_Info` marks;
`TestBegin`, `TestProbe`, `TestWrite` are the child. Each access to shared memory is
a step.

### Gateway (`spdbsvr.c`, `ipc_utils.c`, `bin/Kill`)

`Accept` forks a child; `Shmat`, `Waitv`, `ReadNum`, `SetP`, `WriteNum`, `SetV` are
`UpdateProcNum`, which it calls once to enter and once to leave; `RecvReqData` and
`DoProcess` serve or exit; `Dies`, `KillAll` and `InitProcManage` are the death of a
child and the restart. `stray` (history) notes an overwritten update, an exit
without counting out and a failed `shmat`.

## Runs

All bounds are constants of the models, or conjuncts of a `BoundedStep` in the MC
module. Figures are distinct states (they vary a little from one run to the next
where symmetry and a view are combined).

| run | instance | states | shows |
|---|---|---|---|
| `MCBooking` | 2 processes, a leg that may be suspended and one in a foreign currency, 3 serials | 1.0 million | `SinglePosting`, `BookedWasPosted`, `ReversalHasTarget`, `DoubtNeedsAnswer`, and that `Booking` implements `BookOnce` |
| `MCOutTran` | all 7 kinds, 3 serials; a plain credit or debit by 2 processes at once, the others by one process after another | 2.4 million | order of booking and clearing, justified reversals, true answers, `settled` only when settled |
| `MCInTran` | 2 processes, all 4 kinds, all requests, 2 serials | 1.9 million | requested once, confirmed only when suspended, true answers |
| `MCReturns` | one return, one process after another, 4 serials | 3.0 million | the first leg is undone last, the answer and the flag tell what stands |
| `MCDayEnd` | 2 rows of the first of 2 days, one round a day, 1 reconciling process, 1 failure or repetition | 4.5 million | rows are found where they are looked for, history stays, a reconciliation that ends agrees with the center |
| `MCCounters` | `Serial`: 3 processes, numbers 1..3, 4 calls; or `Gateway`: 3 children, limit 1, 3 connections, 1 death | 112,809 | no serial twice in a lap, the lock is let go; the number tells the children, an update ends |
| `MCBackOffice` | `Init` picks one of 10 parts and the others stand still; each part by 2 processes | 1.9 million | receipts of debits, fees, bank clearing, agreements, status, tables, operators, reconciliation receipts |
| `MCReports` | 2 requests out of 24 reports, 5 rows of 2 days, one of which may change, 2 lines a page, 1 archive, a clock of 2 times that come back | 1.7 million | print counts, completeness, lines and footers, files |
| `MCKeyMachines` | 2 callers, 1 testing child, 2 machines in a table of 3 places, 2 tries (3 in the code) | 1,280,832 | nobody is refused while a machine stays normal; machines come back into use |
| `ReversalNamesOriginal`, `LostIsNotFailed` | one process, one leg or one credit | small | [below](#what-the-runs-found) |
| `ArchivedWasReconciled` | as `MCDayEnd` | - | [below](#what-the-runs-found) |

Why the bounds suffice. Two processes are what a race on one row takes: a third
would repeat one of the roles. Three serials are a booking, its retry and a
reversal (or the three legs of the kind with most legs), four the two legs of a
return and their reversals; every defect the violation runs show needs at most
three. Kinds with several legs are served by one process after another, because
two at once on one row is what the plain kinds show, and the engine below them is
proved for any number. Four calls go round a counter of three numbers with a
failed write on the way. Three children where one may serve are one that serves,
one that is refused and one that meets either between read and write. In
`MCDayEnd` a second day is needed for the switch and only the first can then be
archived; one extra event (failure, repeated notice, reconciliation by hand) at
any point shows each statement boundary. A larger instance of `DayEnd` (two
extra events, 13 million states) was run once with no violation. In `MCReports`
every section of every report has at least one row and some have more than a
page; requests are together only where their files or rows can meet, and the row that
has two versions changes only while a request that can see it is under way, the clock only
before a file is named (`Apart`). In
`MCKeyMachines` a third place is the one the table never uses.

The parts of `MCBackOffice` share no variables but `Receipts` and `Fees` the
engine's; one run for all of them is ten separate state spaces added up. Its
`BoundedStep` keeps the largest parts finite: a forced batch, a fee in cash or in a
foreign currency is alone at its time (and a batch comes to the transaction in a foreign
currency last), handlers of the status work one after the other while the
center moves twice and two at once while it moves once, and settlers likewise
with two rounds or one.

`CHECK_DEADLOCK FALSE` is set in every configuration but `MCKeyMachines`: the
numbers drawn, calls and days are bounded, and a platform at rest with nothing
more to do is a state the real one is in every night.

`MCOutTran`, `MCReturns`, `MCInTran` and `MCBackOffice` use a VIEW that drops what no
action and no invariant of that run looks at (what a process remembers of a call
that is over, codes that close the row alike); `MCDayEnd` uses one without
`done`, which only `ArchivedWasReconciled` reads. Processes, and in `DayEnd`
transactions, are symmetric; the two runs that check temporal properties under
symmetry (`MCBooking`, `MCDayEnd`) check only box-action formulas and a refinement
without fairness, whose truth for a step does not depend on the naming of
processes. `MCCounters` and `MCKeyMachines`, which check liveness, have no symmetry.

Fairness. `Serial`: weak fairness of each process's `GenSerial` steps, because a
runnable process is scheduled by the operating system and none of its steps waits
for anything but the lock. The lock is polled (`F_SETLK` in a loop), so it has no
queue and no process is promised it: what is checked is that whoever holds it
releases it. `Gateway`: weak fairness of the steps of `UpdateProcNum`, and strong
fairness of `Waitv`, because the kernel completes every waiter for zero when the
semaphore becomes zero. `KeyMachines`: weak fairness of the callers', the
child's and the clock's steps; it includes that calls keep being made, every
request of the platform makes one, and `WorkingComeBack` means nothing without
them. None is assumed of the gateway's clients, of the death of a process, or of a
machine that fails or comes back. The other models promise no progress, because the code makes
none certain: every call may be lost, and what is left in doubt is settled by an
operator or by tomorrow's reconciliation.

Every property of a passing run has a mutant, a plausible bug (a missing unique
index, an unchecked answer, a statement after another it should precede) that
makes it fail under the same configuration; the mutants stand beside the
definitions they replace, marked `Mutant`.

## What the runs found

Three runs end in a counterexample, each against something a comment or header of
the repository says of the program. They are under `findings` in `PROJECT.json`
with the lines quoted.

* `ReversalNamesOriginal` - a leg booked at the second attempt is reversed by the
  serial of the first.
* `LostIsNotFailed` - a credit whose answer from the center is lost is reversed
  and closed as failed, though the center may have settled it.
* `ArchivedWasReconciled` - a round can be marked settled and its day archived
  without having been reconciled: the mark takes the round last announced, not
  the one that was reconciled.

Other properties are stated with the exceptions the code makes necessary, each
kept in a history variable, so that what is excepted can be read off the model:

* `CountTells`: `gimaxProcNums`, "最大并发进程数" (spdbsvr.c:32), can be exceeded.
  `UpdateProcNum` reads the number before it raises the semaphore, so two
  children both read before either writes (`stray`).
* `ClearedOnce`: a transfer whose answer was lost is made again (`doubtful`).
* `FeesComplete`: a batch forced, or whose SELECT failed, moves LASTFEEDATE over
  fees that were never taken (`skipped`). Every batch does so over transactions in a
  foreign currency (`NotInCNY`): their booking is not made and returns 0, which
  `fetchFee` hands on though its comment says of 0 that the fee was taken
  (process10.c:692, "0:成功 其它:失败"), and `feelist` keeps them as not charged.
* `CancelledStays`: a log-out revives a cancelled operator.
* `DebitEndsOnce`: a round can be received while it can still be returned if it is the
  last of its date, or if the exchange date moved on while it was worked (`HeldBack`
  says of which debits the dates exclude it).
* `ReceiptIsTrue`: the receipt of a repeated reconciliation compares the center's
  view with itself.
* `SyncRepairs` speaks of four parameters: 1601 leaves EXCHGROUND as it was.
* `HistoryStays`, `FoundWhereLooked`: rows inserted after their day was copied, and
  days whose unchecked `ARCHIVEDATE` update failed (`late`, `slipped`).
* `AgreementsAgree`, `TablesWhole`: what a request or download leaves that was lost,
  failed, died or overlapped with another (`split`, `torn`), until the next one repairs
  it. `OneLocalAgreement`: two requests at once, or one whose SELECT failed (`doubled`).
* `MarksTellPrints`: a row that a change, its arrival or another slip's mark brings under
  the condition of a slip's UPDATE, or out of it, after the SELECT, is marked and not
  printed or printed and not marked (`disturbed`).
* `OwnFile`: PrintReportList appends, and the name has the day of the month and the
  time only: two requests of the same second, or of the same second of another month,
  write one file.
* `RefusedNoneNormal`: with one machine, configured last, everybody is refused (`OnlyLast`).
* `UpdatesEnd`: a child that dies with the semaphore raised holds the others up (`held`).

Each of these exceptions is what the code does in the race, failure or death it names;
the property says that nothing else breaks what it states, and does not say that
the excepted case cannot happen.

## Proofs

Eight modules: `BookingProofs`, `OutTranProofs`, `InboundProofs`, `DayEndProofs`,
`ClearingProofs`, `SharedProofs`, `ReportFormsProofs`, `ReportsProofs`. They are for all
sets of processes, keys, kinds, transactions, dates, rounds, transfers, agreements,
children, machines, code tables, rows, report requests, and any range of the counter,
under the ASSUMEs of the modules only (the leg sets are sets of keys, the legs of a
debit, of its return and of a fee are distinct keys, a return is of one currency, so
that both its legs are booked or none, Min <= Max, transactions and children are
finitely many, a file has lines and a day a number; report requests are finitely many
and ask for reports there are, a page has lines, the rows of the journal have a day after
the last archived one, the rows of the other tables and those the journal starts with are
finitely many and the former are not of the journal; the versions of a row have its key
and what it was entered with, and a key stands for one row at the start; and the columns
the reports add up are what the statements that write them put there: `dcflag` is 1 or 2, a row goes out or
comes in, amounts are integers, bookings and rows of `noteinfo` are counted). The type
invariants of `Booking`, `OutTran`, `InTran`, `DayEnd` and `Serial` are proved and
need no run.

**Booking.** None of the four properties is inductive. The inductive invariant
`IInv` adds to `TypeOK`: every request has a serial of its own, not above
`serial`, and is answered once (`SerialInv`); a process holds at each point a
serial that nobody else holds, unspent before its request leaves and spent on it
afterwards (`JobInv`); a leg that was never reopened has one claimant, whose
serial is the row's `ref`, so all its booking requests carry that serial
(`ClaimInv`); only decided rows are reopened or reversed (`DecidedInv`); and the
target of a reversal is a posting from the moment it is chosen (`TargetInv`).
`Inductive` proves it step by step, one per action;
`TypeCorrect`, `PostsOnce`, `BookedIsPosted` (a booked row is of a posting, and its
`acctserial` names one), `ReversesPosting` are its consequences, and `DoubtIsAnswered` is an action property proved from it: the
only statements that write a row in doubt are those that follow an answer to its
claimant.

`BooksOnce` is the refinement: `Spec => ImplementsBookOnce`.
It needs a second invariant, `PromiseInv`, about the legs that have not left the
promise: the row's result is the core system's answer to the request of the row's
`ref` (`RowTrue`); the row is in doubt while its claimant still works on it
(`ClaimOpen`); a reversal names `ref` and is sent only of a row that was booked
(`ReverseOpen`); and what was reversed had been posted (`UndoInv`). `MoneyIs`
computes the abstract money of a leg from the one answer to its one request;
`WriterStep` and `BankStep` then show of each step which abstract step it is, and
`AllowedIsPromised` puts a step of one leg together with the legs it leaves alone.

**OutTran.** `UsesBooking` shows that every step of a transaction is a step of
the engine or leaves it alone (`OutSpec => Spec`), so the theorems above hold of
transactions without being proved again. On that rest:

* `OutTypeCorrect` - type correctness.
* `RowSettledIsCleared` - `trnjour` says settled only of what the center settled.
  It needs that the center is asked by one process only (`OneOpener`: the insert
  of the row admits one opener, and until it has sent the center is idle), hence
  never takes a decision back (`CenterDecidesOnce`), and that whoever holds a
  success code or a positive answer has it from a settled center
  (`SuccessIsSettled`).
* `MoneyAfterSettled` - the legs that come after the center are posted only if it
  settled (`LastLegsWait`: neither a request under way nor one sent for such a
  leg exists before), which needs that no leg is both before and after
  (`LegsApart`).
* `PaidBeforeAsked` - the center hears of a booked credit only after the core
  system posted the customer's debit (`FirstLegPaid`, from `BookedIsPosted`).
* `ReversedWithReason` - the customer's leg is reversed only on a refusal or a lost
  answer, or by an operator. `ReversesWithReason` ties the answer a process
  holds, the reversal it is at and every reversal sent to that reason, and
  `ReasonKept` shows that a reason, once there, stays.

* `AnswerIsTrue` - the code a request ends with. It is a claim about every leg of
  every kind, so its invariant follows them through the stages. One process alone
  handles the row until its answer (`OneHandler`); as long as nothing was reversed,
  the legs that must stand do (`LegsStand`, from `UnreversedStands`: what is posted
  stands unless a request to reverse it was sent); after the one reversal the platform
  makes, its answer is that of the leg (`CancelExact`); and a booking that failed
  was refused in every request sent for it (`FailExact`). It needs of the engine
  that the row tells the answer of the core system (`AnswersTrue`) and of a suspended
  leg that no one posts it (`SuspendInv`), both in `BookingProofs`.

**Returns.** Also in `OutTranProofs`. `ReturnsUseBooking` is `UsesBooking` for
`TP_Process`; `ReversedInOrder`, `ReturnAnswerIsTrue` and `FlagIsTrue` are the three
properties of `MCReturns`. None is inductive: each speaks of a leg, after other
processes, operators and the core system have moved. The invariant (`ReturnInv`, which
TLC checked first, one process after another, and of legs in a foreign currency with
two processes free to interleave) says for each place in the request what is known of both legs (`Legal`):
nobody has begun a leg (`Unasked`), it is `Made` (booked, and its only reversals an
operator's), or it is `Gone` (refused in every request or reversed, unless the journal
does not know). `BookingOf` and `CancelOf` say how a call of the engine gets from one to
the other (`BookingGoesOn`, `CancelGoesOn`, from `IInv`, `UndoInv`, `SuspendInv`), and a
step that is not on a leg, or is one an operator ordered, keeps what is known of it
(`Aside`, `AsideStays`). `Past` keeps the rest when no process is left that knows: a
request to reverse the first leg means that the second is `Gone`, the flag that both
are `Made`. `MadeStands` and `GoneFalls` turn that into what stands in the core system.

**InTran.** `InUsesBooking` is `UsesBooking` for the inbound side. All properties of
`MCInTran` are proved:

* `InTypeCorrect` - type correctness.
* `AskedOnce` - the core system is asked at most once to book each leg
  (`RequestInv`). The primary key of `trnjour` admits one first handler
  (`OneHandler`), and a leg is asked for only by who handles the transaction
  and has not asked yet (`OwnLegs`): neither a repeated delivery that settles the
  row again nor a confirmation asks for the same leg.
* `ToldIsPosted` - 0006 answers success only on a row of `acctjour` that says
  booked, and `BookedIsPosted` says what that stands for.
* `ConfirmsSuspended` - a row says suspended only if the core system said so
  (`SuspendedTrue`), and a confirmation is chosen from such a row (`ConfirmTrue`);
  that an answer stays makes it true when the money moves.
* `DebitToldTruly` - `DebitInv` keeps, for every point of the handler, what its
  code tells of the leg (`Knows`): success that the row was seen booked, failure
  that nothing was posted and no request is open (`MainRefused`, which
  `RefusedKept` shows to last because no one else asks).

**Receipts.** `DebitsEndOnce`, for any dates and rounds, about the debits that are
`HeldBack`: whose round the platform's dates let nobody ask for while a return is in
time. A debit has two legs, its receipt and its return, and each is posted once by
`PostsOnce`. That not both are is `OneWay`: a debit that is held back is selected
for its receipt, and from then on at its receipt, only when a return is no longer in
time (`ReceivedLate`); who is at its return has flagged it
or found it `late`; and with both asked for it is `late`. `WorksFor` ties every engine
call to the row its process is at.

**Fees.** `FeesAreComplete`. A batch without an error has accounted for every fee up to
its date that it no longer has before it (`TaskOK`): it is taken, costs nothing, is of a
transaction that is not in CNY, or its date was `skipped`; so `UpToLast` holds of LASTFEEDATE when the batch moves it. Marks
are set only of what `feelist` has as taken, and that on a success code, which
`BookedIsPosted` turns into a posting by a request that `Charges` says was made for this
transaction (`TakenTrue`).

**DayEnd.** `DayEndTypeCorrect`, and with it two invariants that do not need each other:

* `JournalFound` and `ArchiveStays` rest on `ArchInv`. The archive works on the dates
  that follow `ARCHIVEDATE`, and when it deletes them either `ARCHIVEDATE` has
  reached the last or they are `slipped` (`ArchRange`); from the copy on, every
  row of its dates written in time is in `htrnjour` (`CopiedTrue`). `RowsWritten` is
  the lemma for everything else that writes `trnjour`: a row inserted behind the
  copy is `late`.
* `Reconciled` rests on `RecInv`: only what the center settled is checked
  (`CheckedListed`), hence the rows a counting process found in excess have failed
  (`ExcessFailed`), and as many checked rows as listed ones are all of them
  (`CountedAll`, the one step about cardinalities), so after the count the listed
  ones are checked (`ListedChecked`). `RowsTouched` shows that other processes
  only take from this what `touched` records.

**Serial.** `SerialInductive` (who holds the lock, what the holder has read, that
every saved number given out is not past the file), and from it
`SerialTypeCorrect`, `NoSerialTwice` and `NeverGoesBack`.

**Gateway.** `NumberTells`. The limit is looked at only by the child that has just
written the number, so the invariant speaks of the children that *entered*, which
serve or will when `UpdateProcNum` returns: unless `stray`, the number is that of
the counted children and no more than `gimaxProcNums` have entered. `WriteNum` is
the step that needs cardinalities; an overwritten update is one whose value is not
the number before plus or minus one, and sets `stray`.

**KeyMachines.** `RefusalIsTrue`. `normal` (history) are the machines that were marked
normal all the time a caller looked. `Unpassed` says where they can be as the scan goes
from place to place: up to where it turns back (`Wrap`) not among the places it came
over, after that only between its place and the one it began at; so when it has come
round there are none, but in the last place. All this is said while there is more than
that place (`~OnlyLast`): when the first machine is configured there the scan does not
begin. `TableOK` says that only the places of
machines are ever marked, and all of them once the table is filled.

**Clearing.** `TransfersOnce`, for every sum without doubt (`Sure`): one row of its
type, inserted by one process that saw none (`OneRow`); one request at work on it,
before whose call every earlier transfer was refused (`OneBusy`); and at most one
transfer that was not refused, which a flag stands for (`OneTransfer`). `LetGo` is
the lemma for the steps that only give work up.

**Agreements, Operators.** `TableAgrees` by `JointInv`: for an agreement not in `split`
one request is at work (`OneWorks`), it knows what the center has
(`KnowsCenter`), and with none at work the table has it too (`TableFollows`).
`LocalIsOne` by `SeesNone`: who is about to insert is alone and saw none.
`StaysCancelled` by `LookedBefore`: who may still change a cancelled operator looked
at it before the cancellation.

**Params.** `TablesAreWhole`: two downloads at once are noted in `torn` (`OneDownload`), and
the only one has filled the tables before its own with the lines of its version and its
own with those it has had (`FilledSoFar`). `SyncIsRepaired`: of each of the four parameters
1601 compares, an undisturbed 1601 has brought it up to date, or it is among the UPDATEs
of the block it is in, or a block for it is still to come (`UpToDate`).

**Settlement.** `ReceiptTellsTruth` and `DifferencesAreListed` have one invariant,
`SettleInv`, about the rounds that are `Clean`: one process at a time on them, no row
written meanwhile. `Phase` says how far a process has come with such a round: the
snapshot holds the rows the bank had (`Snapshot`), the sums cover the currencies of what
the center listed (`SumsAre`), the rows passed are checked (`Settled`); `Ended` is what
remains of it when the round is over (`Finished`), and what `Receipt` starts from: the
kinds compared so far had equal numbers, the rows listed so far are those one side
lacked, and those both had are marked in the snapshot. `Overlaps` shows that two at work
on a round is noted. `RoundKept`, and the lemma `SettleMoves` built on it, say what of a
round one step must leave alone for all this to stay.

**Reports.** Where a row of the journal is depends on how far the archive is
(`TablesInv`), and whose row it is on the condition (`TakesMeans`: a slip takes the rows
of its first day, the lists those of their days, other reports none of the journal).

* `NoRowIsMissed` - until the archive moves under it, a request still reads the table
  its first day was in when it was asked (`JobInv`), so `SelectMissesNone` finds every
  row it takes in that table. That 781 answers "not reconciled" for an archived day is
  needed here: it reads trnjour only.
* `MarksAreTrue` - `MarkInv`, about the `Calm` rows, those not `disturbed`, by their keys,
  whichever version the table holds by then. They are marked as often as slips were made
  for them (`CountInv`), which is inductive because a slip under way `Knows` them: between
  its SELECT and its UPDATE the condition holds now for just those it selected, in the
  table such a row is in (`KnowsInv`). `TurnedMeans` is why: a step that changes this puts
  the row among the `disturbed`. While a day is in both tables both copies have the same
  mark (`CopyInv`). `JournalStep` is the lemma for rows that come, change and are archived:
  of such a step it is enough that it keeps the marks of the rows it does not disturb and
  what the slips know of them. No request need have ended: the property holds at every state.

* `EveryRowIsPrinted` - by `FormInv`, which says of each point of a request how far its
  form is: before the SELECT nothing is written, but for the difference note of a head
  office, whose own part is on paper with rows of another table than those of its branches
  (`Selecting`); of the banks a report asks for one after the other the first so many were
  seen, each with its own rows (`Banking`); and what is on paper together with what is
  still to be put there is always the whole form of the selected rows (`Printing`), which
  `MoveHead` keeps. That the form is whole when it is made is `SectionsWhole` and
  `BankFormWhole`, from the lemma of each report in `ReportFormsProofs`.
* `FilesAreOwn` - by `FilesInv`: from its SELECT on a request has fixed the name of its
  file (`Fixed`), the file holds its own pages so far and nothing else (`Held`) unless
  another has fixed the same name (`Clash`), and a file with pages belongs to a request
  that has. `FilesKept` shows that only the request that acts has to be looked at;
  `ClashMeans` that names of the same second, organisation and kind are the only ones
  that are equal.

**ReportForms.** What the recursive operators compute - `FlattenSeq`, `FoldSeq`,
`MapThenSumSet`, `SetToSeq` - is proved for lists and sets of any length, by the least
number that would violate it (`LeastNat`, from the well-foundedness of <). A list of lines
has each row of a set on `Once` of its lines; `OnceFlatten` puts the lines of parts
together, `ByKey` says that the rows by the value of a key are parts. `PageEnds` is the
arithmetic of `PrintReportList` (with `PageLines` lines a page, `TotalPages` pages hold
all lines but no more), and `PagesAreLines` what follows: the lines of the pages are the
lines of the section. For the footers a column of the cells is a `Measure` of the rows,
additive over disjoint sets, so that the sum over the lines of a section
(`CellsOfParts`) and over the sections of a form (`FootsOfParts`) is that of the rows,
and so are debits and credits, out and in, taken together. On these rest a lemma for each
report (`PrintOutNoteTotalIs`, `PrintJJQDIs`, ...): its form `Covers` its rows, and what
`FootTotal` adds up to. The two reports that do not (781 with more than one booking, the
fee lists with a type `noteinfo` names twice) are excepted by `Exact`; of those it is
proved that a row count is a number (`FeeSheets`, `PF10_781Sheets`), which `FilesAreOwn`
needs.

Only model-checked: the three liveness properties (`LockReleased`, `UpdatesEnd`,
`WorkingComeBack`), which need fairness and ENABLED and are outside what the prover does.
The properties of the runs that expect a violation are refuted there.

## Abstractions and what is not modelled

* *Booking.* A request is known by its serial; that a teller's own serial may
  replace the platform's is left out. 1609's read and update are one step, on one
  key, and the row it inserts under its own code is left out. The agreement and
  fee look-ups before a booking change nothing: they are the outcome `CHECK`. The
  serial wraps in the code; in `Booking` it is bounded by `MaxSerial` and
  `Serial` says what the wrap allows.
* *OutTran.* A message is its code. "Old" transactions (`opReserved = 1`), which
  are not booked, are credits with no legs. The center reports by 0009 what it
  decided, never anything else.
* *InTran.* `trnjour.chkflag`, return tickets (type 7) and rows in state C are
  left out; the many checks of `PF10_104` are the outcomes `CHECK`, `NEG`
  (negative code) and `FAIL`. A reversal by 157 marks one `acctjour` row.
* *Returns.* The legs are `Main` and `Side` of `OutTran`. That `ACCOUNT_GET_DATE` may
  fail is left out, since nobody looks at it.
* *Receipts, Fees, Clearing.* Amounts are left out, but for whether a sum or a fee is
  nothing. The receipts of one round are selected in one SELECT. In `Clearing` one
  round is cleared; the core system executes a transfer at most once.
* *Agreements, Operators, Params.* One operator; one agreement per key, with the
  fields that decide whether a debit is accepted. A parameter file is its version
  and its lines.
* *DayEnd.* `unknown` and `settled` rows are one state, `open`, since the
  statements modelled treat them alike. One class of service. The parameters
  `PF_9999` and `PF_1605` read first are read in one step. `Rewrite` stands for
  every statement by which a request writes `clearstate`. A row's round is fixed.
  The archive starts when every round of its days has been announced: the timer
  (23:00) runs it then. A failed 1603 is sent again; a failed 1602 whose round
  was noted does nothing when repeated. The snapshot, the receipts and the files
  of a reconciliation are in `Settlement`, 1601 in `Params`.
* *Settlement.* One date and one class of service. Amounts are left out: a round in
  which the numbers agree and only amounts differ is reported as agreeing here,
  and so are two different rows of one kind, one on each side. A currency in which
  the center has nothing gets no section of the receipt, as in the code.
* *Serial.* One counter file. A call that cannot open the file returns -1, which
  no caller looks at; it is the end of the call here. A read error of an existing
  file and a partial write are left out.
* *Reports.* The columns printed are reduced to counts and sums; filters on amounts,
  account numbers and reference ranges are taken to hold. `PrintSettleResult`, which
  tests that a file exists, and what a failing `fopen` leaves are left out; 781 for an
  archived day, answered "not reconciled", is not asked; `PF_9999` is its successful
  path. A query through a temporary table is the copy made when its result is read.
  Rows of `htrnjour` do not change, rows of `trnjour` are not deleted but by the archive
  (0502 deletes one by hand), and a row changes in the columns the conditions read, whatever
  the request that rewrites it. UPDATEs that change nothing of a mark (`PrintInQuery` for
  PrintState 1) are not told from those that do.
  Kept as the code has them: 781 counts rows otherwise than it writes them and loses
  the last lines; the fee lists show a row twice when `noteinfo` names its type twice;
  `PrintDiffNote` ignores the round; a single note type with incoming rows only is "no
  record".
* *KeyMachines.* What is sent to a machine is left out. Kept as the code has them:
  the last place of the table is never used, calls are refused while another fills
  the table, and fewer than half of the machines marked are never tested again.
* *Gateway.* Conversions and the contents of answers are left out (a request is
  echoed as the answer when `tcopProcess` or the second `InitConEnv` fails,
  spdbsvr.c:281-292), a failing `fork` and the backlog of the listening socket.
  `KillAll` is one step, and the gateway is started again by `start.sh` when no child
  lives. A silent client holds its child for ever: the alarm only interrupts a
  read that is begun again (spdbsvr.c:343), so no child is promised to leave.

Not modelled at all:

* message packing (`pack.c`, `element.c`, `flow.c`): XML-driven; a message that cannot be
  converted is an outcome of every model;
* sockets and the thread-per-connection server (`comm.c`, `socket.c`, `server.c` but for
  the answer): a call is lost, unanswered or late;
* ciphers, MACs, digests and the libraries they come from;
* account administration (`OPAdminAcctHandle`: one DELETE and one INSERT on
  `acctinfo`, which no handler of bank 1015 reads), and requests that read one row
  and format it (`tcInfo.c`, `tcQryprn.c`); `tcFund.c` is a stub;
* `spdbsvr_st.c`, the same gateway for requests in C structs, on a port of its own;
  the handlers of other banks and regions, which are variants of
  those modelled; sources that the Makefiles do not build (`region/sz/print.c`,
  `qry.c`, `process13.c`, `Print/PrintSvr.c`); emulators and test programs.

These last are most of the repository by lines: copies and variants of handlers
that would give the same models again.

## Plan

In order; all are done.

1. `Booking`, `BookOnce`, `BookingProofs`: everything else books through it.
2. `OutTran`, `OutTranProofs`.
3. `InTran`, `InboundProofs`.
4. `DayEnd` (rounds, dates, archive), `DayEndProofs`.
5. `Serial`, with its proofs (in `SharedProofs`).
6. `Returns`, `Receipts`, `Fees`: further users of `Booking`.
7. `Clearing`, `Agreements`, `Operators`, `Params`, with `ClearingProofs` and `SharedProofs`.
8. `Settlement`, `ReportForms`, `Reports`, `KeyMachines`, `Gateway`, whose theorem is in `SharedProofs` too.
9. Proofs: `AnswerTellsOutcome` of `OutTran` and `Returns` (`OutTranProofs`); `Receipts` and `Fees` (in `InboundProofs`);
   `Params` and `KeyMachines` (in `SharedProofs`), `Settlement` (in `ClearingProofs`); the
   marks and the completeness of `Reports` (`ReportsProofs`).
10. Proofs: the forms, lines, pages and footers of every report (`ReportFormsProofs`), and with
   them the lines, footers and files of `Reports` (`ReportsProofs`).
