----------------------------- MODULE DayEndProofs -----------------------------
(* Theorems about DayEnd, for any transactions, dates, rounds, reconciling  *)
(* processes and number of failures.                                        *)
EXTENDS DayEnd, FiniteSetTheorems, TLAPS

(* What the conversions of dates and rounds give. *)
LEMMA Constants ==
    /\ IsFiniteSet(Txns) /\ LastDay \in Nat \ {0} /\ LastRound \in Nat \ {0} /\ MaxExtra \in Nat
    /\ DayOf \in [Txns -> Dates] /\ RoundOf \in [Txns -> Rounds]
    /\ \A t \in Txns : DayOf[t] \in Int
    /\ 0 \in Dates /\ 1 \in Dates /\ 0 \in Rounds /\ 1 \in Rounds /\ LastRound \in Rounds
    /\ Dates \subseteq Int /\ Rounds \subseteq Int
BY DayEndAssumption DEF Dates, Rounds

-----------------------------------------------------------------------------
(* Types.                                                                   *)

JournalTypes == /\ trn \in [Txns -> States \cup {"absent"}]
                /\ htrn \in [Txns -> States \cup {"absent"}]
                /\ req \in [Txns -> {"none", "begun", "in"}]
                /\ late \subseteq Txns /\ slipped \subseteq Dates
                /\ arch \in [pc : {"idle", "clean", "copy"} \cup AfterCopy,
                             first : Dates, last : Dates, wd : Dates]
DateTypes == /\ center \in [work : Dates, clear : Dates, told : Dates \X Rounds]
             /\ para \in [work : Dates, clear : Dates, preclear : Dates, archived : Dates,
                          msg : Dates \X Rounds, settled : Dates \X Rounds]
             /\ switch \in [notice : {"none", "1602", "1603"},
                            pc : {"idle", "work", "preclear", "clear"}]
             /\ extra \in 0..MaxExtra
RecTypes == /\ listed \subseteq Txns
            /\ rec \in [Procs -> [pc : Points, d : Dates, r : Rounds, mr : Rounds,
                                  todo : SUBSET Txns]]
            /\ touched \in [Procs -> SUBSET Txns]
            /\ done \subseteq Dates \X Rounds

(* Assigning a state to some rows, and noting them, keeps the types. *)
LEMMA SetType ==
    ASSUME JournalTypes, NEW T, NEW s \in States \cup {"absent"}, Set(T, s)
    PROVE  trn' \in [Txns -> States \cup {"absent"}]
BY DEF JournalTypes, Set

LEMMA TouchType ==
    ASSUME RecTypes, NEW T \in SUBSET Txns, Touch(T)
    PROVE  touched' \in [Procs -> SUBSET Txns]
BY DEF RecTypes, Touch

LEMMA LeaveType ==
    ASSUME RecTypes, NEW p \in Procs, Leave(p)
    PROVE  /\ rec' \in [Procs -> [pc : Points, d : Dates, r : Rounds, mr : Rounds,
                                  todo : SUBSET Txns]]
           /\ touched' \in [Procs -> SUBSET Txns]
BY Constants DEF RecTypes, Leave, Free, Points

LEMMA GotoType ==
    ASSUME RecTypes, NEW p \in Procs, NEW point \in Points, Goto(p, point)
    PROVE  rec' \in [Procs -> [pc : Points, d : Dates, r : Rounds, mr : Rounds,
                               todo : SUBSET Txns]]
BY DEF RecTypes, Goto

LEMMA MoreType == ASSUME DateTypes, More PROVE extra' \in 0..MaxExtra
BY Constants DEF DateTypes, More

(* The types hold at first. *)
LEMMA TypesInit == Init => JournalTypes /\ DateTypes /\ RecTypes
BY Constants DEF Init, JournalTypes, DateTypes, RecTypes, States, Quiet, Idle, Free, Points,
                 AfterCopy

(* The next round of a date the center has reached is one of the rounds. *)
LEMMA NextRoundType ==
    ASSUME DateTypes, NEW a \in {center.told, NextRound(center.told)}, a[1] <= center.work
    PROVE  a \in Dates \X Rounds
<1>1. center.told \in Dates \X Rounds /\ center.work \in Dates
  BY DEF DateTypes
<1>2. CASE a = center.told
  BY <1>1, <1>2
<1>3. CASE a = NextRound(center.told)
  BY <1>1, <1>3, Constants DEF NextRound, Dates, Rounds
<1> QED BY <1>2, <1>3

(* The requests and the switch of the day keep them. *)
LEMMA RequestTypes ==
    ASSUME JournalTypes, DateTypes, RecTypes, NEW t \in Txns, Begin(t) \/ Insert(t) \/ Rewrite(t)
    PROVE  JournalTypes' /\ DateTypes' /\ RecTypes'
<1>1. CASE Begin(t)
  BY <1>1 DEF Begin, JournalTypes, DateTypes, RecTypes
<1>2. CASE Insert(t)
  <2>1. trn' \in [Txns -> States \cup {"absent"}] /\ touched' \in [Procs -> SUBSET Txns]
    BY <1>2, SetType, TouchType DEF Insert, States
  <2> QED BY <1>2, <2>1 DEF Insert, JournalTypes, DateTypes, RecTypes
<1>3. CASE Rewrite(t)
  <2>1. trn' \in [Txns -> States \cup {"absent"}] /\ touched' \in [Procs -> SUBSET Txns]
    BY <1>3, SetType, TouchType DEF Rewrite, States
  <2> QED BY <1>3, <2>1 DEF Rewrite, JournalTypes, DateTypes, RecTypes
<1> QED BY <1>1, <1>2, <1>3

LEMMA SwitchTypes ==
    ASSUME JournalTypes, DateTypes, RecTypes, Switch
    PROVE  JournalTypes' /\ DateTypes' /\ RecTypes'
<1>1. JournalTypes' /\ RecTypes'
  BY DEF Switch, CenterMoves, UpdWorkdate, UpdPreCleardate, UpdCleardate, SwitchFails,
         switchVars, JournalTypes, RecTypes
<1>2. CASE CenterMoves
  <2>1. \A d \in Dates : d < LastDay => d + 1 \in Dates
    BY Constants DEF Dates
  <2>2. center \in [work : Dates, clear : Dates, told : Dates \X Rounds] /\ LastDay \in Nat
    BY Constants DEF DateTypes
  <2>3. center' \in [work : Dates, clear : Dates, told : Dates \X Rounds]
    BY <1>2, <2>1, <2>2 DEF CenterMoves
  <2>4. /\ switch' \in [notice : {"none", "1602", "1603"},
                        pc : {"idle", "work", "preclear", "clear"}]
        /\ UNCHANGED <<para, extra>>
    BY <1>2 DEF CenterMoves
  <2> QED BY <1>1, <2>3, <2>4 DEF DateTypes
<1>3. CASE UpdWorkdate \/ UpdCleardate
  BY <1>1, <1>3 DEF UpdWorkdate, UpdCleardate, DateTypes, Quiet
<1>4. CASE UpdPreCleardate
  BY <1>1, <1>4, MoreType DEF UpdPreCleardate, DateTypes
<1>5. CASE SwitchFails
  BY <1>1, <1>5, MoreType DEF SwitchFails, DateTypes, Quiet
<1> QED BY <1>2, <1>3, <1>4, <1>5 DEF Switch

(* Reconciliation keeps them. *)
LEMMA SettleTypes ==
    ASSUME JournalTypes, DateTypes, RecTypes, NEW p \in Procs,
           \/ Settle(p)
           \/ \E d \in 1..LastDay, r \in Rounds : PF_1605(p, d, r)
           \/ \E t \in Txns : SettleRow(p, t)
    PROVE  JournalTypes' /\ DateTypes' /\ RecTypes'
<1>1. CASE PF_1604(p)
  <2>1. JournalTypes'
    BY <1>1 DEF PF_1604, JournalTypes
  <2>2. PICK a \in {center.told, NextRound(center.told)} :
           /\ a[1] <= center.work
           /\ IF a = center.told THEN More ELSE UNCHANGED extra
           /\ center' = [center EXCEPT !.told = a]
           /\ para' = [para EXCEPT !.msg = a]
           /\ rec' = [rec EXCEPT ![p] = [Free EXCEPT !.pc = "start", !.d = a[1], !.r = a[2]]]
    BY <1>1 DEF PF_1604
  <2>3. a \in Dates \X Rounds
    BY <2>2, NextRoundType
  <2>4. extra' \in 0..MaxExtra
    BY <2>2, MoreType DEF DateTypes
  <2>5. DateTypes'
    BY <1>1, <2>2, <2>3, <2>4 DEF PF_1604, DateTypes
  <2>6. RecTypes'
    BY <1>1, <2>2, <2>3, Constants DEF PF_1604, RecTypes, Free, Points
  <2> QED BY <2>1, <2>5, <2>6
<1>2. ASSUME NEW d \in 1..LastDay, NEW r \in Rounds, PF_1605(p, d, r)
      PROVE  JournalTypes' /\ DateTypes' /\ RecTypes'
  <2>1. JournalTypes'
    BY <1>2 DEF PF_1605, recVars, JournalTypes
  <2>2. DateTypes'
    BY <1>2, MoreType DEF PF_1605, recVars, DateTypes
  <2>3. d \in Dates /\ para.msg[2] \in Rounds
    BY Constants DEF Dates, DateTypes
  <2>4. UNCHANGED <<listed, done>>
    BY <1>2 DEF PF_1605, recVars
  <2>5. \/ /\ rec' = [rec EXCEPT ![p] = [Free EXCEPT !.pc = "fetch", !.d = d, !.r = r,
                                                    !.mr = para.msg[2]]]
           /\ UNCHANGED touched
        \/ Leave(p)
    BY <1>2 DEF PF_1605
  <2>6. /\ rec' \in [Procs -> [pc : Points, d : Dates, r : Rounds, mr : Rounds,
                               todo : SUBSET Txns]]
        /\ touched' \in [Procs -> SUBSET Txns]
    <3>1. [Free EXCEPT !.pc = "fetch", !.d = d, !.r = r, !.mr = para.msg[2]]
            \in [pc : Points, d : Dates, r : Rounds, mr : Rounds, todo : SUBSET Txns]
      BY <2>3 DEF Free, Points
    <3>2. CASE Leave(p)
      BY <3>2, LeaveType
    <3> QED BY <2>5, <3>1, <3>2 DEF RecTypes
  <2> QED BY <2>1, <2>2, <2>4, <2>6 DEF RecTypes
<1>3. CASE Fetched(p)
  <2>1. JournalTypes' /\ DateTypes'
    BY <1>3 DEF Fetched, recVars, JournalTypes, DateTypes
  <2>2. rec' \in [Procs -> [pc : Points, d : Dates, r : Rounds, mr : Rounds, todo : SUBSET Txns]]
    BY <1>3, GotoType DEF Fetched, RecTypes, Points
  <2> QED BY <1>3, <2>1, <2>2 DEF Fetched, recVars, RecTypes
<1>4. ASSUME NEW t \in Txns, SettleRow(p, t)
      PROVE  JournalTypes' /\ DateTypes' /\ RecTypes'
  <2>1. trn' \in [Txns -> States \cup {"absent"}] /\ touched' \in [Procs -> SUBSET Txns]
    BY <1>4, SetType, TouchType DEF SettleRow, States
  <2>2. late' \subseteq Txns
    BY <1>4 DEF SettleRow, JournalTypes
  <2>3. JournalTypes' /\ DateTypes'
    BY <1>4, <2>1, <2>2 DEF SettleRow, recVars, JournalTypes, DateTypes
  <2>4. rec' \in [Procs -> [pc : Points, d : Dates, r : Rounds, mr : Rounds, todo : SUBSET Txns]]
    BY <1>4 DEF SettleRow, RecTypes
  <2> QED BY <1>4, <2>1, <2>3, <2>4 DEF SettleRow, recVars, RecTypes
<1>5. CASE FailExcess(p)
  <2>1. trn' \in [Txns -> States \cup {"absent"}] /\ touched' \in [Procs -> SUBSET Txns]
    BY <1>5, SetType, TouchType DEF FailExcess, States, Of
  <2>2. JournalTypes' /\ DateTypes'
    BY <1>5, <2>1 DEF FailExcess, recVars, JournalTypes, DateTypes
  <2>3. rec' \in [Procs -> [pc : Points, d : Dates, r : Rounds, mr : Rounds, todo : SUBSET Txns]]
    BY <1>5, GotoType DEF FailExcess, Points
  <2> QED BY <1>5, <2>1, <2>2, <2>3 DEF FailExcess, recVars, RecTypes
<1>6. CASE CheckDiffAndList(p)
  <2>1. JournalTypes' /\ DateTypes'
    BY <1>6 DEF CheckDiffAndList, recVars, JournalTypes, DateTypes
  <2>2. \/ Goto(p, "mark") /\ touched' = [touched EXCEPT ![p] = @ \ listed]
        \/ Leave(p)
    BY <1>6 DEF CheckDiffAndList
  <2>3. /\ rec' \in [Procs -> [pc : Points, d : Dates, r : Rounds, mr : Rounds,
                               todo : SUBSET Txns]]
        /\ touched' \in [Procs -> SUBSET Txns]
    <3>1. CASE Goto(p, "mark") /\ touched' = [touched EXCEPT ![p] = @ \ listed]
      BY <3>1, GotoType DEF RecTypes, Points
    <3> QED BY <2>2, <3>1, LeaveType
  <2> QED BY <1>6, <2>1, <2>3 DEF CheckDiffAndList, recVars, RecTypes
<1>7. CASE UpdSettledDateround(p)
  <2>1. JournalTypes'
    BY <1>7 DEF UpdSettledDateround, recVars, JournalTypes
  <2>2. rec[p].d \in Dates /\ rec[p].r \in Rounds /\ rec[p].mr \in Rounds
    BY DEF RecTypes
  <2>3. DateTypes'
    BY <1>7, <2>2, MoreType DEF UpdSettledDateround, recVars, DateTypes
  <2>4. done' \subseteq Dates \X Rounds
    BY <1>7, <2>2, Constants DEF UpdSettledDateround, RecTypes, Rounds
  <2> QED BY <1>7, <2>1, <2>3, <2>4, LeaveType DEF UpdSettledDateround, recVars, RecTypes
<1>8. CASE SettleFails(p)
  BY <1>8, LeaveType, MoreType
  DEF SettleFails, recVars, JournalTypes, DateTypes, RecTypes
<1> QED BY <1>1, <1>2, <1>3, <1>4, <1>5, <1>6, <1>7, <1>8 DEF Settle

(* And so does the archive. *)
LEMMA ArchiveTypes ==
    ASSUME JournalTypes, DateTypes, RecTypes, Archive
    PROVE  JournalTypes' /\ DateTypes' /\ RecTypes'
<1> USE DEF archVars
<1>1. CASE PF_9999
  <2>1. FirstDate \in Dates
    BY <1>1, Constants DEF PF_9999, FirstDate, DateTypes, Dates
  <2>2. arch' \in [pc : {"idle", "clean", "copy"} \cup AfterCopy,
                   first : Dates, last : Dates, wd : Dates]
    BY <1>1, <2>1, Constants DEF PF_9999, DateTypes
  <2> QED BY <1>1, <2>2 DEF PF_9999, JournalTypes, DateTypes, RecTypes
<1>2. CASE CleanHistory \/ CopyToHistory
  <2>1. arch' \in [pc : {"idle", "clean", "copy"} \cup AfterCopy,
                   first : Dates, last : Dates, wd : Dates]
    BY <1>2 DEF CleanHistory, CopyToHistory, Then, JournalTypes, AfterCopy
  <2>2. htrn' \in [Txns -> States \cup {"absent"}]
    BY <1>2 DEF CleanHistory, CopyToHistory, JournalTypes
  <2> QED BY <1>2, <2>1, <2>2
          DEF CleanHistory, CopyToHistory, JournalTypes, DateTypes, RecTypes
<1>3. CASE UpdSettlmsg \/ UpdSettled
  <2>1. arch' \in [pc : {"idle", "clean", "copy"} \cup AfterCopy,
                   first : Dates, last : Dates, wd : Dates]
    <3>1. para.work \in Dates /\ 0 \in Dates
      BY Constants DEF DateTypes
    <3>2. CASE UpdSettlmsg
      BY <3>1, <3>2 DEF UpdSettlmsg, JournalTypes, AfterCopy
    <3>3. CASE UpdSettled
      BY <3>1, <3>3 DEF UpdSettled, JournalTypes, AfterCopy
    <3> QED BY <1>3, <3>2, <3>3
  <2>2. para' \in [work : Dates, clear : Dates, preclear : Dates, archived : Dates,
                   msg : Dates \X Rounds, settled : Dates \X Rounds]
    <3>1. <<para.work, 0>> \in Dates \X Rounds /\ <<arch.wd, 0>> \in Dates \X Rounds
      BY Constants DEF DateTypes, JournalTypes
    <3> QED BY <1>3, <3>1 DEF UpdSettlmsg, UpdSettled, DateTypes
  <2> QED BY <1>3, <2>1, <2>2 DEF UpdSettlmsg, UpdSettled, JournalTypes, DateTypes, RecTypes
<1>4. CASE UpdArchivedate
  <2>1. arch.first..arch.last \subseteq Dates
    BY Constants DEF JournalTypes, Dates
  <2>2. arch' \in [pc : {"idle", "clean", "copy"} \cup AfterCopy,
                   first : Dates, last : Dates, wd : Dates]
    BY <1>4 DEF UpdArchivedate, Then, JournalTypes, AfterCopy
  <2>3. JournalTypes'
    BY <1>4, <2>1, <2>2 DEF UpdArchivedate, JournalTypes
  <2>4. DateTypes'
    BY <1>4, MoreType DEF UpdArchivedate, DateTypes, JournalTypes
  <2> QED BY <1>4, <2>3, <2>4 DEF UpdArchivedate, RecTypes
<1>5. CASE PurgeJournal
  <2>1. trn' \in [Txns -> States \cup {"absent"}] /\ touched' \in [Procs -> SUBSET Txns]
    BY <1>5, SetType, TouchType DEF PurgeJournal, Rows
  <2>2. arch' \in [pc : {"idle", "clean", "copy"} \cup AfterCopy,
                   first : Dates, last : Dates, wd : Dates]
    BY <1>5, Constants DEF PurgeJournal, Idle
  <2> QED BY <1>5, <2>1, <2>2 DEF PurgeJournal, JournalTypes, DateTypes, RecTypes
<1>6. CASE ArchiveFails
  <2>1. arch' \in [pc : {"idle", "clean", "copy"} \cup AfterCopy,
                   first : Dates, last : Dates, wd : Dates]
    BY <1>6, Constants DEF ArchiveFails, Idle
  <2> QED BY <1>6, <2>1, MoreType DEF ArchiveFails, JournalTypes, DateTypes, RecTypes
<1> QED BY <1>1, <1>2, <1>3, <1>4, <1>5, <1>6 DEF Archive

LEMMA TypesStep ==
    ASSUME JournalTypes, DateTypes, RecTypes, [Next]_vars
    PROVE  JournalTypes' /\ DateTypes' /\ RecTypes'
<1>1. CASE Next
  BY <1>1, SwitchTypes, ArchiveTypes, RequestTypes, SettleTypes DEF Next
<1>2. CASE UNCHANGED vars
  BY <1>2 DEF vars, JournalTypes, DateTypes, RecTypes
<1> QED BY <1>1, <1>2

Types == JournalTypes /\ DateTypes /\ RecTypes

(* The variables have their types: the dates and rounds the platform keeps  *)
(* stay in their ranges.                                                    *)
THEOREM DayEndTypeCorrect == Spec => []TypeOK
<1>1. Init => Types
  BY TypesInit DEF Types
<1>2. Types /\ [Next]_vars => Types'
  BY TypesStep DEF Types
<1>3. Types => TypeOK
  BY DEF Types, JournalTypes, DateTypes, RecTypes, TypeOK
<1> QED BY <1>1, <1>2, <1>3, PTL DEF Spec
-----------------------------------------------------------------------------
(* The archive.                                                             *)

(* Once the copy is made, every row of the dates that was written in time   *)
(* is in htrnjour.                                                          *)
CopiedTrue ==
    arch.pc \in AfterCopy =>
        \A t \in Journalled \ late :
            DayOf[t] \notin slipped /\ DayOf[t] \in arch.first..arch.last => htrn[t] # "absent"

(* It works on the dates after ARCHIVEDATE; when it deletes them, either    *)
(* ARCHIVEDATE has reached the last one or they have slipped.               *)
ArchRange ==
    /\ arch.pc \in {"clean", "copy", "msg", "settled", "date"} =>
          arch.first = para.archived + 1 /\ arch.first <= arch.last
    /\ arch.pc = "purge" =>
          arch.last <= para.archived \/ arch.first..arch.last \subseteq slipped

ArchInv == FoundWhereLooked /\ CopiedTrue /\ ArchRange

(* A step that leaves the archive's state alone, and at most writes rows of *)
(* trnjour that are there, or inserts some, T, and notes which came late,   *)
(* keeps all of it.                                                         *)
Quiets == UNCHANGED <<htrn, arch, slipped>> /\ para'.archived = para.archived
Written(T) ==
    /\ \A t \in Txns \ T : /\ trn'[t] = "absent" <=> trn[t] = "absent"
                           /\ req'[t] = "in" => req[t] = "in"
    /\ \A t \in T : trn'[t] # "absent" /\ (Copied(t) => t \in late')
    /\ late \subseteq late'

LEMMA RowsWritten ==
    ASSUME JournalTypes, DateTypes, ArchInv, Quiets, NEW T \in SUBSET Txns, Written(T)
    PROVE  ArchInv'
<1> USE DEF Quiets, Written
<1>1. ArchRange'
  BY DEF ArchInv, ArchRange
<1>2. ASSUME NEW t \in Journalled' \ late', t \notin T
      PROVE  t \in Journalled \ late /\ (trn'[t] = "absent" <=> trn[t] = "absent")
  BY <1>2 DEF Journalled
<1>3. ASSUME NEW t \in Journalled' \ late', t \in T
      PROVE  ~Copied(t) /\ trn'[t] # "absent"
  BY <1>3
<1>4. CopiedTrue'
  <2> SUFFICES ASSUME arch.pc \in AfterCopy, NEW t \in Journalled' \ late',
                      DayOf[t] \notin slipped, DayOf[t] \in arch.first..arch.last
               PROVE  htrn[t] # "absent"
    BY DEF CopiedTrue
  <2> QED BY <1>2, <1>3 DEF ArchInv, CopiedTrue, Copied
<1>5. FoundWhereLooked'
  <2> SUFFICES ASSUME NEW t \in Journalled' \ late', DayOf[t] \notin slipped
               PROVE  IF DayOf[t] <= para.archived THEN htrn[t] # "absent"
                                                   ELSE trn'[t] # "absent"
    BY DEF FoundWhereLooked
  <2> QED BY <1>2, <1>3 DEF ArchInv, FoundWhereLooked, Copied
<1> QED BY <1>1, <1>4, <1>5 DEF ArchInv

(* ... when no row is inserted; *)
LEMMA RowsKept ==
    ASSUME JournalTypes, DateTypes, ArchInv, Quiets, UNCHANGED late,
           \A t \in Txns : /\ trn'[t] = "absent" <=> trn[t] = "absent"
                           /\ req'[t] = "in" => req[t] = "in"
    PROVE  ArchInv'
<1>1. Written({})
  BY DEF Written
<1>2. \A T \in SUBSET Txns : Written(T) => ArchInv'
  BY RowsWritten
<1> QED BY <1>1, <1>2

(* ... when one is. *)
LEMMA RowInserted ==
    ASSUME JournalTypes, DateTypes, ArchInv, Quiets, NEW t \in Txns,
           trn'[t] # "absent", late' = late \cup (IF Copied(t) THEN {t} ELSE {}),
           \A u \in Txns \ {t} : trn'[u] = trn[u] /\ req'[u] = req[u]
    PROVE  ArchInv'
<1>1. Written({t})
  BY DEF Written
<1>2. \A T \in SUBSET Txns : Written(T) => ArchInv'
  BY RowsWritten
<1> QED BY <1>1, <1>2

LEMMA ArchInvInit == Init => ArchInv
BY DEF Init, Idle, ArchInv, ArchRange, CopiedTrue, FoundWhereLooked, Journalled, AfterCopy

(* Requests. *)
LEMMA RequestArch ==
    ASSUME JournalTypes, DateTypes, ArchInv,
           NEW t \in Txns, Begin(t) \/ Insert(t) \/ Rewrite(t)
    PROVE  ArchInv'
<1>1. CASE Begin(t)
  <2>1. \A u \in Txns : req'[u] = "in" => req[u] = "in"
    BY <1>1 DEF Begin, JournalTypes
  <2> QED BY <1>1, <2>1, RowsKept DEF Begin, Quiets
<1>2. CASE Insert(t)
  <2>1. trn' = [u \in Txns |-> IF u = t THEN "open" ELSE trn[u]]
    BY <1>2 DEF Insert, Set
  <2>2. \A u \in Txns \ {t} : trn'[u] = trn[u] /\ req'[u] = req[u]
    BY <1>2, <2>1 DEF Insert, JournalTypes
  <2>3. trn'[t] # "absent" /\ late' = late \cup (IF Copied(t) THEN {t} ELSE {})
    BY <1>2, <2>1 DEF Insert
  <2>4. Quiets
    BY <1>2 DEF Insert, Quiets
  <2> QED BY <2>2, <2>3, <2>4, RowInserted
<1>3. CASE Rewrite(t)
  <2>1. PICK s \in {"open", "failed"} : Set({t}, s)
    BY <1>3 DEF Rewrite
  <2>2. \A u \in Txns : trn'[u] = "absent" <=> trn[u] = "absent"
    BY <1>3, <2>1 DEF Rewrite, Set
  <2>3. UNCHANGED <<htrn, arch, slipped, req, late>> /\ para'.archived = para.archived
    BY <1>3 DEF Rewrite
  <2> QED BY <2>2, <2>3, RowsKept DEF Quiets
<1> QED BY <1>1, <1>2, <1>3

(* Changing the day. *)
LEMMA SwitchArch ==
    ASSUME JournalTypes, DateTypes, ArchInv, Switch
    PROVE  ArchInv'
<1>1. UNCHANGED <<trn, htrn, req, arch, late, slipped>>
  BY DEF Switch, CenterMoves, UpdWorkdate, UpdPreCleardate, UpdCleardate, SwitchFails, switchVars
<1>2. para'.archived = para.archived
  BY DEF Switch, CenterMoves, UpdWorkdate, UpdPreCleardate, UpdCleardate, SwitchFails, DateTypes
<1> QED BY <1>1, <1>2, RowsKept DEF Quiets

(* Reconciling. *)
LEMMA SettleArch ==
    ASSUME JournalTypes, DateTypes, RecTypes, ArchInv, NEW p \in Procs,
           \/ Settle(p)
           \/ \E d \in 1..LastDay, r \in Rounds : PF_1605(p, d, r)
           \/ \E t \in Txns : SettleRow(p, t)
    PROVE  ArchInv'
<1>1. ASSUME UNCHANGED <<trn, htrn, req, arch, late, slipped>>, para'.archived = para.archived
      PROVE  ArchInv'
  BY <1>1, RowsKept DEF Quiets
<1>2. CASE PF_1604(p)
  <2>1. UNCHANGED <<trn, htrn, req, arch, late, slipped>>
    BY <1>2 DEF PF_1604
  <2>2. para'.archived = para.archived
    BY <1>2 DEF PF_1604, DateTypes
  <2> QED BY <1>1, <2>1, <2>2
<1>3. CASE \E d \in 1..LastDay, r \in Rounds : PF_1605(p, d, r)
  <2>1. UNCHANGED <<recVars, para, trn, late>>
    BY <1>3 DEF PF_1605
  <2> QED BY <1>1, <2>1 DEF recVars
<1>4. CASE Fetched(p) \/ CheckDiffAndList(p) \/ SettleFails(p)
  BY <1>1, <1>4 DEF Fetched, CheckDiffAndList, SettleFails, recVars
<1>5. CASE UpdSettledDateround(p)
  <2>1. UNCHANGED <<trn, htrn, req, arch, late, slipped>>
    BY <1>5 DEF UpdSettledDateround, recVars
  <2>2. para'.archived = para.archived
    BY <1>5 DEF UpdSettledDateround, DateTypes
  <2> QED BY <1>1, <2>1, <2>2
<1>6. CASE FailExcess(p)
  <2>1. \A u \in Txns : trn'[u] = "absent" <=> trn[u] = "absent"
    BY <1>6 DEF FailExcess, Set, Rows
  <2>2. UNCHANGED <<htrn, arch, slipped, req, late>> /\ para'.archived = para.archived
    BY <1>6 DEF FailExcess, recVars
  <2> QED BY <2>1, <2>2, RowsKept DEF Quiets
<1>7. ASSUME NEW t \in Txns, SettleRow(p, t)
      PROVE  ArchInv'
  <2>1. UNCHANGED <<htrn, arch, slipped, req>> /\ para'.archived = para.archived
    BY <1>7 DEF SettleRow, recVars
  <2>2. CASE trn[t] # "absent" /\ Set({t}, "checked") /\ UNCHANGED late
    <3>1. \A u \in Txns : trn'[u] = "absent" <=> trn[u] = "absent"
      BY <2>2 DEF Set
    <3> QED BY <2>1, <2>2, <3>1, RowsKept DEF Quiets
  <2>3. CASE /\ trn[t] = "absent"
             /\ \E s \in {"open", "checked"} : Set({t}, s)
             /\ late' = late \cup (IF Copied(t) THEN {t} ELSE {})
    <3>1. \A u \in Txns \ {t} : trn'[u] = trn[u]
      BY <2>3 DEF Set
    <3>2. trn'[t] # "absent"
      BY <2>3 DEF Set
    <3> QED BY <2>1, <2>3, <3>1, <3>2, RowInserted DEF Quiets
  <2> QED BY <1>7, <2>2, <2>3 DEF SettleRow
<1> QED BY <1>2, <1>3, <1>4, <1>5, <1>6, <1>7 DEF Settle

(* The archive's own steps. *)
LEMMA ArchiveArch ==
    ASSUME JournalTypes, DateTypes, ArchInv, Archive
    PROVE  ArchInv'
<1> USE DEF archVars
<1>0. /\ para.archived \in Int /\ arch.first \in Int /\ arch.last \in Int
      /\ \A t \in Txns : DayOf[t] \in Int
  BY Constants DEF DateTypes, JournalTypes
<1>1. CASE PF_9999
  <2>1. /\ arch'.pc = "clean" /\ arch'.first = para.archived + 1 /\ arch'.first <= arch'.last
        /\ UNCHANGED <<para, req, trn, htrn, late, slipped>>
    BY <1>1 DEF PF_9999, FirstDate
  <2>2. FoundWhereLooked'
    BY <2>1 DEF ArchInv, FoundWhereLooked, Journalled
  <2> QED BY <2>1, <2>2 DEF ArchInv, ArchRange, CopiedTrue, AfterCopy
<1>2. CASE CleanHistory
  <2>1. /\ arch.pc = "clean" /\ arch'.pc = "copy"
        /\ arch'.first = arch.first /\ arch'.last = arch.last
        /\ arch.first = para.archived + 1 /\ arch.first <= arch.last
    BY <1>2 DEF CleanHistory, Then, JournalTypes, ArchInv, ArchRange
  <2>2. \A t \in Txns : DayOf[t] <= para.archived => htrn'[t] = htrn[t]
    BY <1>0, <1>2, <2>1 DEF CleanHistory, ToArchive, Between
  <2>3. Journalled' \subseteq Journalled
    BY <1>2 DEF CleanHistory, Journalled
  <2>4. UNCHANGED <<para, trn, late, slipped>>
    BY <1>2 DEF CleanHistory
  <2>5. FoundWhereLooked'
    BY <2>2, <2>3, <2>4 DEF ArchInv, FoundWhereLooked, Journalled
  <2> QED BY <2>1, <2>4, <2>5 DEF ArchInv, CopiedTrue, ArchRange, AfterCopy
<1>3. CASE CopyToHistory
  <2>1. /\ arch.pc = "copy" /\ arch'.pc = "msg"
        /\ arch'.first = arch.first /\ arch'.last = arch.last
        /\ arch.first = para.archived + 1 /\ arch.first <= arch.last
    BY <1>3 DEF CopyToHistory, Then, JournalTypes, ArchInv, ArchRange
  <2>2. UNCHANGED <<para, req, trn, late, slipped>>
    BY <1>3 DEF CopyToHistory
  <2>3. \A t \in Txns : IF DayOf[t] \in arch.first..arch.last /\ trn[t] # "absent"
                        THEN htrn'[t] = trn[t] ELSE htrn'[t] = htrn[t]
    BY <1>3 DEF CopyToHistory, ToArchive, Between
  <2>4. Journalled' \subseteq Journalled
    BY <2>2, <2>3 DEF Journalled
  <2>5. \A t \in Txns : htrn[t] # "absent" => htrn'[t] # "absent"
    BY <2>3
  <2>6. FoundWhereLooked'
    BY <2>2, <2>4, <2>5 DEF ArchInv, FoundWhereLooked, Journalled
  <2>7. CopiedTrue'
    <3> SUFFICES ASSUME NEW t \in Journalled \ late, DayOf[t] \notin slipped,
                        DayOf[t] \in arch.first..arch.last
                 PROVE  htrn'[t] # "absent"
      BY <2>1, <2>2, <2>4 DEF CopiedTrue
    <3>1. t \in Txns
      BY DEF Journalled
    <3>2. ~(DayOf[t] <= para.archived)
      BY <1>0, <2>1, <3>1
    <3>3. trn[t] # "absent"
      BY <3>2 DEF ArchInv, FoundWhereLooked
    <3> QED BY <2>3, <3>1, <3>3
  <2>8. ArchRange'
    BY <2>1, <2>2 DEF ArchRange
  <2> QED BY <2>6, <2>7, <2>8 DEF ArchInv
<1>4. CASE UpdSettlmsg \/ UpdSettled
  <2>1. /\ arch.pc \in {"msg", "settled"} /\ arch'.pc \in {"settled", "date"}
        /\ arch'.first = arch.first /\ arch'.last = arch.last
        /\ para'.archived = para.archived
        /\ UNCHANGED <<req, trn, htrn, late, slipped>>
    BY <1>4 DEF UpdSettlmsg, UpdSettled, JournalTypes, DateTypes
  <2>2. Journalled' = Journalled
    BY <2>1 DEF Journalled
  <2>3. FoundWhereLooked'
    BY <2>1, <2>2 DEF ArchInv, FoundWhereLooked
  <2>4. CopiedTrue'
    BY <2>1, <2>2 DEF ArchInv, CopiedTrue, AfterCopy
  <2>5. ArchRange'
    BY <2>1 DEF ArchInv, ArchRange
  <2> QED BY <2>3, <2>4, <2>5 DEF ArchInv
<1>5. CASE UpdArchivedate
  <2>1. /\ arch.pc = "date" /\ arch'.pc = "purge"
        /\ arch'.first = arch.first /\ arch'.last = arch.last
        /\ arch.first = para.archived + 1 /\ arch.first <= arch.last
        /\ UNCHANGED <<req, trn, htrn, late>>
    BY <1>5 DEF UpdArchivedate, Then, JournalTypes, ArchInv, ArchRange
  <2>2. Journalled' = Journalled
    BY <2>1 DEF Journalled
  <2>3. \A t \in Journalled \ late :
           DayOf[t] \notin slipped /\ DayOf[t] \in arch.first..arch.last => htrn[t] # "absent"
    BY <2>1 DEF ArchInv, CopiedTrue, AfterCopy
  <2>4. CASE para'.archived = arch.last /\ UNCHANGED slipped
    <3>1. FoundWhereLooked'
      <4> SUFFICES ASSUME NEW t \in Journalled \ late, DayOf[t] \notin slipped
                   PROVE  IF DayOf[t] <= arch.last THEN htrn[t] # "absent"
                                                   ELSE trn[t] # "absent"
        BY <2>1, <2>2, <2>4 DEF FoundWhereLooked
      <4>1. t \in Txns
        BY DEF Journalled
      <4>2. IF DayOf[t] <= para.archived THEN htrn[t] # "absent" ELSE trn[t] # "absent"
        BY DEF ArchInv, FoundWhereLooked
      <4> QED BY <1>0, <2>1, <2>3, <4>1, <4>2
    <3>2. CopiedTrue' /\ ArchRange'
      BY <1>0, <2>1, <2>2, <2>3, <2>4 DEF CopiedTrue, ArchRange
    <3> QED BY <3>1, <3>2 DEF ArchInv
  <2>5. CASE slipped' = slipped \cup (arch.first..arch.last) /\ UNCHANGED para
    <3>1. FoundWhereLooked'
      BY <2>1, <2>2, <2>5 DEF ArchInv, FoundWhereLooked
    <3>2. CopiedTrue' /\ ArchRange'
      BY <2>1, <2>2, <2>3, <2>5 DEF CopiedTrue, ArchRange
    <3> QED BY <3>1, <3>2 DEF ArchInv
  <2> QED BY <1>5, <2>4, <2>5 DEF UpdArchivedate, DateTypes
<1>6. CASE PurgeJournal
  <2>1. arch.pc = "purge" /\ arch'.pc = "idle" /\ UNCHANGED <<para, req, htrn, late, slipped>>
    BY <1>6 DEF PurgeJournal, Idle
  <2>2. trn' = [t \in Txns |-> IF DayOf[t] \in arch.first..arch.last THEN "absent" ELSE trn[t]]
    BY <1>6 DEF PurgeJournal, Set, ToArchive, Between
  <2>3. Journalled' \subseteq Journalled
    BY <2>1, <2>2 DEF Journalled
  <2>4. FoundWhereLooked'
    <3> SUFFICES ASSUME NEW t \in Journalled \ late, DayOf[t] \notin slipped
                 PROVE  IF DayOf[t] <= para.archived THEN htrn[t] # "absent"
                                                     ELSE trn'[t] # "absent"
      BY <2>1, <2>3 DEF FoundWhereLooked
    <3>1. t \in Txns
      BY DEF Journalled
    <3>2. IF DayOf[t] <= para.archived THEN htrn[t] # "absent" ELSE trn[t] # "absent"
      BY DEF ArchInv, FoundWhereLooked
    <3>3. DayOf[t] \in arch.first..arch.last => DayOf[t] <= para.archived
      BY <1>0, <2>1, <3>1 DEF ArchInv, ArchRange
    <3> QED BY <2>2, <3>1, <3>2, <3>3
  <2> QED BY <2>1, <2>4 DEF ArchInv, CopiedTrue, ArchRange, AfterCopy
<1>7. CASE ArchiveFails
  BY <1>7 DEF ArchiveFails, Idle, ArchInv, ArchRange, CopiedTrue, FoundWhereLooked, Journalled,
              AfterCopy
<1> QED BY <1>1, <1>2, <1>3, <1>4, <1>5, <1>6, <1>7 DEF Archive

LEMMA ArchInvStep ==
    ASSUME Types, ArchInv, [Next]_vars
    PROVE  ArchInv'
<1>1. CASE Next
  BY <1>1, SwitchArch, ArchiveArch, RequestArch, SettleArch DEF Next, Types
<1>2. CASE UNCHANGED vars
  BY <1>2, RowsKept DEF vars, Quiets, Types
<1> QED BY <1>1, <1>2

(* Whatever statement the archive was stopped after, and however often, a   *)
(* transaction that was journalled in time is in the table that is read for *)
(* its date.                                                                *)
THEOREM JournalFound == Spec => []FoundWhereLooked
<1>1. Init => Types /\ ArchInv
  BY TypesInit, ArchInvInit DEF Types
<1>2. Types /\ ArchInv /\ [Next]_vars => Types' /\ ArchInv'
  BY TypesStep, ArchInvStep DEF Types
<1>3. ArchInv => FoundWhereLooked
  BY DEF ArchInv
<1> QED BY <1>1, <1>2, <1>3, PTL DEF Spec

(* No step changes or removes a row of the dates that are archived.         *)
LEMMA HistoryStep ==
    ASSUME Types, ArchInv, [Next]_vars
    PROVE  \A t \in Txns : DayOf[t] <= para.archived /\ htrn[t] # "absent" => htrn'[t] = htrn[t]
<1>1. CASE CleanHistory \/ CopyToHistory
  <2>1. /\ \A t \in Txns : DayOf[t] \notin arch.first..arch.last => htrn'[t] = htrn[t]
        /\ arch.first = para.archived + 1
    BY <1>1 DEF CleanHistory, CopyToHistory, ToArchive, Between, ArchInv, ArchRange
  <2>2. /\ para.archived \in Int /\ arch.first \in Int /\ arch.last \in Int
        /\ \A t \in Txns : DayOf[t] \in Int
    BY Constants DEF Types, DateTypes, JournalTypes
  <2> QED BY <2>1, <2>2
<1>2. CASE UNCHANGED htrn
  BY <1>2
<1>3. ASSUME Archive, ~CleanHistory, ~CopyToHistory PROVE UNCHANGED htrn
  BY <1>3 DEF Archive, PF_9999, UpdSettlmsg, UpdSettled, UpdArchivedate, PurgeJournal, ArchiveFails
<1>4. ASSUME Switch PROVE UNCHANGED htrn
  BY <1>4 DEF Switch, CenterMoves, UpdWorkdate, UpdPreCleardate, UpdCleardate, SwitchFails,
              switchVars
<1>5. ASSUME NEW t \in Txns, Begin(t) \/ Insert(t) \/ Rewrite(t) PROVE UNCHANGED htrn
  BY <1>5 DEF Begin, Insert, Rewrite
<1>6. ASSUME NEW p \in Procs, Settle(p) PROVE UNCHANGED htrn
  BY <1>6 DEF Settle, PF_1604, Fetched, FailExcess, CheckDiffAndList, UpdSettledDateround,
              SettleFails, recVars
<1>7. ASSUME NEW p \in Procs, NEW d \in 1..LastDay, NEW r \in Rounds, PF_1605(p, d, r)
      PROVE  UNCHANGED htrn
  BY <1>7 DEF PF_1605, recVars
<1>8. ASSUME NEW p \in Procs, NEW t \in Txns, SettleRow(p, t) PROVE UNCHANGED htrn
  BY <1>8 DEF SettleRow, recVars
<1>9. ASSUME UNCHANGED vars PROVE UNCHANGED htrn
  BY <1>9 DEF vars
<1> QED BY <1>1, <1>2, <1>3, <1>4, <1>5, <1>6, <1>7, <1>8, <1>9 DEF Next

(* What is archived stays as it was archived. *)
THEOREM ArchiveStays == Spec => HistoryStays
<1>1. Init => Types /\ ArchInv
  BY TypesInit, ArchInvInit DEF Types
<1>2. Types /\ ArchInv /\ [Next]_vars => Types' /\ ArchInv'
  BY TypesStep, ArchInvStep DEF Types
<1>3. Types /\ ArchInv /\ [Next]_vars =>
        [\A t \in Txns : DayOf[t] <= para.archived /\ htrn[t] # "absent" =>
            htrn'[t] = htrn[t]]_vars
  BY HistoryStep
<1> QED BY <1>1, <1>2, <1>3, PTL DEF Spec, HistoryStays
-----------------------------------------------------------------------------
(* Reconciliation.                                                          *)

(* Only what the center settled is ever checked, or to be checked. *)
CheckedListed == /\ \A t \in Txns : trn[t] = "checked" => t \in listed
                 /\ \A p \in Procs : rec[p].todo \subseteq listed

(* Unless somebody has written them since, the rows the center does not     *)
(* list have failed once q counts, and those it lists are checked once q    *)
(* has counted.                                                             *)
ExcessFailed(q) ==
    rec[q].pc \in Counting /\ rec[q].r # 0 /\ Of(rec[q].d, rec[q].r) \cap listed # {} =>
        \A t \in (Of(rec[q].d, rec[q].r) \ touched[q]) \ listed : trn[t] \in {"absent", "failed"}
ListedChecked(q) ==
    rec[q].pc = "mark" =>
        \A t \in (Of(rec[q].d, rec[q].r) \ touched[q]) \cap listed : trn[t] = "checked"

RecInv == CheckedListed /\ \A q \in Procs : ExcessFailed(q) /\ ListedChecked(q)

(* A reconciliation that does not move keeps its part when every row that   *)
(* changes is noted as touched.                                             *)
LEMMA NotMoved ==
    ASSUME RecInv, UNCHANGED listed, NEW q \in Procs, rec'[q] = rec[q],
           rec[q].pc \in Counting => /\ touched[q] \subseteq touched'[q]
                                     /\ \A t \in Txns \ touched'[q] : trn'[t] = trn[t]
    PROVE  ExcessFailed(q)' /\ ListedChecked(q)'
<1>1. \A d, r : Of(d, r) \subseteq Txns
  BY DEF Of
<1>2. ExcessFailed(q) /\ ListedChecked(q)
  BY DEF RecInv
<1>3. ExcessFailed(q)'
  <2> SUFFICES ASSUME rec[q].pc \in Counting, rec[q].r # 0,
                      Of(rec[q].d, rec[q].r) \cap listed # {},
                      NEW t \in (Of(rec[q].d, rec[q].r) \ touched'[q]) \ listed
               PROVE  trn'[t] \in {"absent", "failed"}
    BY DEF ExcessFailed, Of
  <2> QED BY <1>1, <1>2 DEF ExcessFailed
<1>4. ListedChecked(q)'
  <2> SUFFICES ASSUME rec[q].pc = "mark",
                      NEW t \in (Of(rec[q].d, rec[q].r) \ touched'[q]) \cap listed
               PROVE  trn'[t] = "checked"
    BY DEF ListedChecked, Of
  <2> QED BY <1>1, <1>2 DEF ListedChecked, Counting
<1> QED BY <1>3, <1>4

(* So it is when rows T are written and touched, ... *)
LEMMA RowsTouched ==
    ASSUME RecTypes, RecInv, UNCHANGED listed, NEW T \in SUBSET Txns, Touch(T),
           \A t \in Txns \ T : trn'[t] = trn[t],
           NEW q \in Procs, rec'[q] = rec[q]
    PROVE  ExcessFailed(q)' /\ ListedChecked(q)'
<1>1. rec[q].pc \in Counting => touched'[q] = touched[q] \cup T
  BY DEF Touch
<1> QED BY <1>1, NotMoved

(* ... or nothing is. *)
LEMMA Untouched ==
    ASSUME RecInv, UNCHANGED <<listed, trn, touched, rec>>
    PROVE  RecInv'
<1>1. CheckedListed'
  BY DEF RecInv, CheckedListed
<1>2. ASSUME NEW q \in Procs PROVE ExcessFailed(q)' /\ ListedChecked(q)'
  BY NotMoved
<1> QED BY <1>1, <1>2 DEF RecInv

LEMMA RecInvInit == Init => RecInv
BY DEF Init, RecInv, CheckedListed, ExcessFailed, ListedChecked, Free, Counting

(* Requests write their own row. *)
LEMMA RequestRec ==
    ASSUME RecTypes, JournalTypes, RecInv, NEW t \in Txns, Begin(t) \/ Insert(t) \/ Rewrite(t)
    PROVE  RecInv'
<1>1. CASE Begin(t)
  BY <1>1, Untouched DEF Begin
<1>2. CASE Insert(t) \/ Rewrite(t)
  <2>1. PICK s \in {"open", "failed"} : Set({t}, s)
    BY <1>2 DEF Insert, Rewrite
  <2>2. Touch({t}) /\ UNCHANGED <<listed, rec>>
    BY <1>2 DEF Insert, Rewrite
  <2>3. \A u \in Txns : trn'[u] = IF u = t THEN s ELSE trn[u]
    BY <2>1 DEF Set
  <2>4. CheckedListed'
    BY <2>2, <2>3 DEF RecInv, CheckedListed
  <2>5. ASSUME NEW q \in Procs PROVE ExcessFailed(q)' /\ ListedChecked(q)'
    <3>1. {t} \in SUBSET Txns /\ \A u \in Txns \ {t} : trn'[u] = trn[u]
      BY <2>3
    <3> QED BY <2>2, <3>1, RowsTouched
  <2> QED BY <2>4, <2>5 DEF RecInv
<1> QED BY <1>1, <1>2

(* The archive deletes rows. *)
LEMMA ArchiveRec ==
    ASSUME RecTypes, RecInv, Archive
    PROVE  RecInv'
<1>1. CASE PurgeJournal
  <2>1. \A u \in Txns : trn'[u] = IF u \in ToArchive THEN "absent" ELSE trn[u]
    BY <1>1 DEF PurgeJournal, Set
  <2>2. Touch(ToArchive \cap Rows(trn)) /\ UNCHANGED <<listed, rec>>
    BY <1>1 DEF PurgeJournal, archVars
  <2>3. CheckedListed'
    BY <2>1, <2>2 DEF RecInv, CheckedListed
  <2>4. ASSUME NEW q \in Procs PROVE ExcessFailed(q)' /\ ListedChecked(q)'
    <3>1. /\ ToArchive \cap Rows(trn) \in SUBSET Txns
          /\ \A u \in Txns \ (ToArchive \cap Rows(trn)) : trn'[u] = trn[u]
      BY <2>1 DEF Rows
    <3> QED BY <2>2, <3>1, RowsTouched
  <2> QED BY <2>3, <2>4 DEF RecInv
<1>2. ASSUME ~PurgeJournal PROVE UNCHANGED <<listed, trn, touched, rec>>
  BY <1>2 DEF Archive, PF_9999, CleanHistory, CopyToHistory, UpdSettlmsg, UpdSettled,
              UpdArchivedate, ArchiveFails, archVars
<1> QED BY <1>1, <1>2, Untouched

(* A process that neither counts nor has counted afterwards, and writes     *)
(* nothing. *)
LEMMA MovedAway ==
    ASSUME RecInv, UNCHANGED <<listed, trn>>, NEW p \in Procs,
           rec'[p].pc \notin Counting, rec'[p].todo \subseteq listed,
           \A q \in Procs \ {p} : rec'[q] = rec[q] /\ touched'[q] = touched[q]
    PROVE  RecInv'
<1>1. CheckedListed'
  BY DEF RecInv, CheckedListed
<1>2. ExcessFailed(p)' /\ ListedChecked(p)'
  BY DEF ExcessFailed, ListedChecked, Counting
<1>3. ASSUME NEW q \in Procs, q # p PROVE ExcessFailed(q)' /\ ListedChecked(q)'
  BY <1>3, NotMoved
<1> QED BY <1>1, <1>2, <1>3 DEF RecInv

LEMMA LeftAlone ==
    ASSUME RecTypes, RecInv, UNCHANGED <<listed, trn>>, NEW p \in Procs, Leave(p)
    PROVE  RecInv'
<1>1. rec'[p].pc \notin Counting /\ rec'[p].todo \subseteq listed
  BY DEF Leave, RecTypes, Free, Counting
<1>2. \A q \in Procs \ {p} : rec'[q] = rec[q] /\ touched'[q] = touched[q]
  BY DEF Leave, RecTypes
<1> QED BY <1>1, <1>2, MovedAway

(* The list is fetched. *)
LEMMA FetchedRec ==
    ASSUME RecTypes, RecInv, NEW p \in Procs, Fetched(p)
    PROVE  RecInv'
<1> DEFINE list == Of(rec[p].d, rec[p].r) \cap listed
<1>1. UNCHANGED <<listed, trn, touched>> /\ \A q \in Procs \ {p} : rec'[q] = rec[q]
  BY DEF Fetched, recVars, Goto, RecTypes
<1>2. CASE rec' = [rec EXCEPT ![p].pc = "rows", ![p].todo = list]
  <2>1. rec'[p].pc \notin Counting /\ rec'[p].todo \subseteq listed
    BY <1>2 DEF RecTypes, Counting
  <2> QED BY <1>1, <2>1, MovedAway
<1>3. CASE list = {} /\ (Goto(p, "mark") \/ Goto(p, "count"))
  <2>1. /\ rec'[p].d = rec[p].d /\ rec'[p].r = rec[p].r /\ rec'[p].todo = rec[p].todo
        /\ list = {}
    BY <1>3 DEF Goto, RecTypes
  <2>2. ExcessFailed(p)' /\ ListedChecked(p)'
    BY <1>1, <2>1 DEF ExcessFailed, ListedChecked, Of
  <2>3. ASSUME NEW q \in Procs, q # p PROVE ExcessFailed(q)' /\ ListedChecked(q)'
    BY <1>1, <2>3, NotMoved
  <2>4. CheckedListed'
    BY <1>1, <2>1 DEF RecInv, CheckedListed
  <2> QED BY <2>2, <2>3, <2>4 DEF RecInv
<1> QED BY <1>2, <1>3 DEF Fetched

(* A listed row is checked, or inserted. *)
LEMMA SettleRowRec ==
    ASSUME RecTypes, RecInv, NEW p \in Procs, NEW t \in Txns, SettleRow(p, t)
    PROVE  RecInv'
<1>1. /\ t \in listed /\ UNCHANGED listed /\ Touch({t})
      /\ rec[p].pc = "rows" /\ rec'[p].pc = "rows" /\ rec'[p].todo = rec[p].todo \ {t}
      /\ \A q \in Procs \ {p} : rec'[q] = rec[q]
  BY DEF SettleRow, At, recVars, RecTypes, RecInv, CheckedListed
<1>2. \A u \in Txns \ {t} : trn'[u] = trn[u]
  BY DEF SettleRow, Set
<1>3. CheckedListed'
  BY <1>1, <1>2 DEF RecInv, CheckedListed
<1>4. ExcessFailed(p)' /\ ListedChecked(p)'
  BY <1>1 DEF ExcessFailed, ListedChecked, Counting
<1>5. ASSUME NEW q \in Procs, q # p PROVE ExcessFailed(q)' /\ ListedChecked(q)'
  <2>1. {t} \in SUBSET Txns
    OBVIOUS
  <2> QED BY <1>1, <1>2, <1>5, <2>1, RowsTouched
<1> QED BY <1>3, <1>4, <1>5 DEF RecInv

(* The other rows of the round fail: those left checked are listed. *)
LEMMA FailExcessRec ==
    ASSUME RecTypes, RecInv, NEW p \in Procs, FailExcess(p)
    PROVE  RecInv'
<1> DEFINE excess == {t \in Of(rec[p].d, rec[p].r) \cap Rows(trn) :
                         rec[p].r # 0 /\ trn[t] # "checked"}
<1>1. /\ UNCHANGED listed /\ Touch(excess)
      /\ rec[p].pc = "rows" /\ rec'[p].pc = "count" /\ rec'[p].todo = rec[p].todo
      /\ rec'[p].d = rec[p].d /\ rec'[p].r = rec[p].r
      /\ \A q \in Procs \ {p} : rec'[q] = rec[q]
  BY DEF FailExcess, At, recVars, RecTypes, Goto
<1>2. \A u \in Txns : trn'[u] = IF u \in excess THEN "failed" ELSE trn[u]
  BY DEF FailExcess, Set
<1>3. CheckedListed'
  BY <1>1, <1>2 DEF RecInv, CheckedListed
<1>4. ListedChecked(p)'
  BY <1>1 DEF ListedChecked
<1>5. ExcessFailed(p)'
  <2> SUFFICES ASSUME rec[p].r # 0,
                      NEW t \in (Of(rec[p].d, rec[p].r) \ touched'[p]) \ listed
               PROVE  trn'[t] \in {"absent", "failed"}
    BY <1>1 DEF ExcessFailed, Of
  <2>1. t \in Txns /\ trn[t] # "checked"
    BY DEF Of, RecInv, CheckedListed
  <2> QED BY <1>2, <2>1 DEF Rows
<1>6. ASSUME NEW q \in Procs, q # p PROVE ExcessFailed(q)' /\ ListedChecked(q)'
  <2>1. excess \in SUBSET Txns
    BY DEF Of
  <2> HIDE DEF excess
  <2> QED BY <1>1, <1>2, <1>6, <2>1, RowsTouched
<1> QED BY <1>3, <1>4, <1>5, <1>6 DEF RecInv

(* As many checked rows as listed ones are all of them. *)
LEMMA CountedAll ==
    ASSUME CheckedListed, NEW T \in SUBSET Txns,
           Cardinality({t \in T : trn[t] = "checked"}) = Cardinality(T \cap listed)
    PROVE  \A t \in T \cap listed : trn[t] = "checked"
<1>1. {t \in T : trn[t] = "checked"} \subseteq T \cap listed
  BY DEF CheckedListed
<1>2. IsFiniteSet(T \cap listed)
  BY Constants, FS_Subset
<1>3. {t \in T : trn[t] = "checked"} = T \cap listed
  BY <1>1, <1>2, FS_Subset
<1> QED BY <1>3

LEMMA CheckDiffRec ==
    ASSUME RecTypes, RecInv, NEW p \in Procs, CheckDiffAndList(p)
    PROVE  RecInv'
<1> DEFINE rows == Of(rec[p].d, rec[p].r)
<1>1. UNCHANGED <<listed, trn>> /\ rec[p].pc = "count"
  BY DEF CheckDiffAndList, recVars, At
<1>2. CASE Leave(p)
  BY <1>1, <1>2, LeftAlone
<1>3. CASE /\ Cardinality({t \in rows : trn[t] = "checked"}) = Cardinality(rows \cap listed)
           /\ Goto(p, "mark") /\ touched' = [touched EXCEPT ![p] = @ \ listed]
  <2>1. /\ rec'[p].pc = "mark" /\ rec'[p].todo = rec[p].todo
        /\ rec'[p].d = rec[p].d /\ rec'[p].r = rec[p].r
        /\ touched'[p] = touched[p] \ listed
        /\ \A q \in Procs \ {p} : rec'[q] = rec[q] /\ touched'[q] = touched[q]
    BY <1>3 DEF Goto, RecTypes
  <2>2. CheckedListed'
    BY <1>1, <2>1 DEF RecInv, CheckedListed
  <2>3. \A t \in rows \cap listed : trn[t] = "checked"
    <3>1. rows \in SUBSET Txns
      BY DEF Of
    <3> HIDE DEF rows
    <3> QED BY <1>3, <3>1, CountedAll DEF RecInv
  <2>4. ListedChecked(p)'
    BY <1>1, <2>1, <2>3 DEF ListedChecked, Of
  <2>5. ExcessFailed(p)'
    <3>1. ExcessFailed(p)
      BY DEF RecInv
    <3> QED BY <1>1, <2>1, <3>1 DEF ExcessFailed, Counting, Of
  <2>6. ASSUME NEW q \in Procs, q # p PROVE ExcessFailed(q)' /\ ListedChecked(q)'
    BY <1>1, <2>1, <2>6, NotMoved
  <2> QED BY <2>2, <2>4, <2>5, <2>6 DEF RecInv
<1> QED BY <1>2, <1>3 DEF CheckDiffAndList

LEMMA SettleRec ==
    ASSUME Types, RecInv, NEW p \in Procs,
           \/ Settle(p)
           \/ \E d \in 1..LastDay, r \in Rounds : PF_1605(p, d, r)
           \/ \E t \in Txns : SettleRow(p, t)
    PROVE  RecInv'
<1>0. RecTypes
  BY DEF Types
<1>1. CASE PF_1604(p)
  <2>1. PICK a : rec' = [rec EXCEPT ![p] = [Free EXCEPT !.pc = "start", !.d = a[1], !.r = a[2]]]
    BY <1>1 DEF PF_1604
  <2>2. rec'[p].pc \notin Counting /\ rec'[p].todo \subseteq listed
    BY <1>0, <2>1 DEF RecTypes, Free, Counting
  <2>3. \A q \in Procs \ {p} : rec'[q] = rec[q] /\ touched'[q] = touched[q]
    BY <1>0, <1>1, <2>1 DEF PF_1604, RecTypes
  <2> QED BY <1>1, <2>2, <2>3, MovedAway DEF PF_1604
<1>2. ASSUME NEW d \in 1..LastDay, NEW r \in Rounds, PF_1605(p, d, r) PROVE RecInv'
  <2>1. UNCHANGED <<listed, trn>>
    BY <1>2 DEF PF_1605, recVars
  <2>2. CASE Leave(p)
    BY <1>0, <2>1, <2>2, LeftAlone
  <2>3. ASSUME /\ rec' = [rec EXCEPT ![p] = [Free EXCEPT !.pc = "fetch", !.d = d, !.r = r,
                                                        !.mr = para.msg[2]]]
               /\ UNCHANGED touched
        PROVE  RecInv'
    <3>1. rec'[p].pc \notin Counting /\ rec'[p].todo \subseteq listed
      BY <1>0, <2>3 DEF RecTypes, Free, Counting
    <3>2. \A q \in Procs \ {p} : rec'[q] = rec[q] /\ touched'[q] = touched[q]
      BY <1>0, <2>3 DEF RecTypes
    <3> QED BY <2>1, <3>1, <3>2, MovedAway
  <2> QED BY <1>2, <2>2, <2>3 DEF PF_1605
<1>3. CASE Fetched(p)
  BY <1>0, <1>3, FetchedRec
<1>4. CASE \E t \in Txns : SettleRow(p, t)
  BY <1>0, <1>4, SettleRowRec
<1>5. CASE FailExcess(p)
  BY <1>0, <1>5, FailExcessRec
<1>6. CASE CheckDiffAndList(p)
  BY <1>0, <1>6, CheckDiffRec
<1>7. CASE UpdSettledDateround(p) \/ SettleFails(p)
  <2>1. UNCHANGED <<listed, trn>> /\ Leave(p)
    BY <1>7 DEF UpdSettledDateround, SettleFails, recVars
  <2> QED BY <1>0, <2>1, LeftAlone
<1> QED BY <1>1, <1>2, <1>3, <1>4, <1>5, <1>6, <1>7 DEF Settle

LEMMA RecInvStep ==
    ASSUME Types, RecInv, [Next]_vars
    PROVE  RecInv'
<1>1. ASSUME Switch PROVE UNCHANGED <<listed, trn, touched, rec>>
  BY <1>1 DEF Switch, CenterMoves, UpdWorkdate, UpdPreCleardate, UpdCleardate, SwitchFails,
              switchVars
<1>2. CASE Next
  BY <1>1, <1>2, Untouched, ArchiveRec, RequestRec, SettleRec DEF Next, Types
<1>3. CASE UNCHANGED vars
  BY <1>3, Untouched DEF vars
<1> QED BY <1>2, <1>3

(* When a reconciliation comes to its end, the journal says of its rows     *)
(* what the center said, but for those written since they were counted.     *)
THEOREM Reconciled == Spec => []ReconciledAgrees
<1>1. Init => Types /\ RecInv
  BY TypesInit, RecInvInit DEF Types
<1>2. Types /\ RecInv /\ [Next]_vars => Types' /\ RecInv'
  BY TypesStep, RecInvStep DEF Types
<1>3. RecInv => ReconciledAgrees
  <2> SUFFICES ASSUME RecInv, NEW p \in Procs, rec[p].pc = "mark",
                      NEW t \in Of(rec[p].d, rec[p].r) \ touched[p]
               PROVE  /\ t \in listed => trn[t] = "checked"
                      /\ rec[p].r # 0 /\ Of(rec[p].d, rec[p].r) \cap listed # {} /\ t \notin listed
                            => trn[t] \in {"absent", "failed"}
    BY DEF ReconciledAgrees
  <2> QED BY DEF RecInv, ExcessFailed, ListedChecked, Counting
<1> QED BY <1>1, <1>2, <1>3, PTL DEF Spec
=============================================================================
