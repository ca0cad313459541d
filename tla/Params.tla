------------------------------- MODULE Params -------------------------------
(***************************************************************************)
(* What the platform copies from the center: its status, dates and rounds, *)
(* in table syspara (PF_1601 asks for it, PF_1602 and PF_1603 are told),   *)
(* and its code tables (PF_1619).  Every parameter is one UPDATE, every    *)
(* line of a file one INSERT; a handler that fails or dies leaves what it  *)
(* has written.                                                            *)
(*                                                                         *)
(* The center is external: its status moves on, and a notification may be  *)
(* lost or repeated.                                                       *)
(***************************************************************************)
EXTENDS Naturals, Sequences

CONSTANTS Handlers,    \* processes
          LastTick,    \* bound on the moves of the center
          Tables,      \* the downloaded tables, in their order: a sequence
          Lines,       \* lines of each file
          LastVersion  \* bound on the versions of the files

\* There is a table to fill; its file may be empty.
ASSUME ParamsAssumption == Len(Tables) \in Nat \ {0} /\ Lines \in Nat

VARIABLES status,   \* the center's status
          para,     \* table syspara
          hand,     \* each process: the handler, what it was told, the
                    \* comparisons and updates it has before it
          synced,   \* history: what the last PF_1601 was told, when nobody
                    \* else wrote since it started; else the empty set
          version,  \* of the center's files
          table,    \* rows of each table: [ver, line]
          down,     \* each process: version, number of the table, lines left
          torn      \* history: the last download failed, died or overlapped

statusVars == <<status, para, hand, synced>>
tableVars  == <<version, table, down, torn>>
paramVars  == <<statusVars, tableVars>>

Told == {"work", "round", "clear", "clearround", "exchg", "exchground"}
Previous == [prework |-> "work", preround |-> "round", preclear |-> "clear", preexchg |-> "exchg"]
Start == [f \in Told |-> 1]
Nobody == [h |-> "none", msg |-> Start, blocks |-> <<>>, fields |-> <<>>, clean |-> TRUE]
NoFile == [ver |-> 0, nr |-> 0, left |-> 0]

ParamsInit == /\ status = Start
              /\ para = [f \in Told \cup DOMAIN Previous |-> IF f \in Told THEN 1 ELSE 0]
              /\ hand = [p \in Handlers |-> Nobody]
              /\ synced = {}
              /\ version = 1
              /\ table = [n \in 1..Len(Tables) |-> {[ver |-> 1, line |-> l] : l \in 1..Lines}]
              /\ down = [p \in Handlers |-> NoFile]
              /\ torn = FALSE

-----------------------------------------------------------------------------
(* Which parameter a group of updates depends on having changed, if any,   *)
(* and the updates in their order.                                         *)
Block(differs, fields) == [differs |-> differs, fields |-> fields]

\* Mutant: the work date is not compared and the round not set.
Sync1601NoRound == << Block("work",  <<"prework", "work">>),
                      Block("clear", <<"preclear", "clear", "clearround">>),
                      Block("exchg", <<"exchg", "exchground">>) >>

Sync1601 == << Block("work",  <<"prework", "work">>),
               Block("round", <<"round">>),
               Block("clear", <<"preclear", "clear", "clearround">>),
               Block("exchg", <<"exchg", "exchground">>) >>

Round1602 == << Block("any",   <<"preround", "round", "exchground">>),
                Block("exchg", <<"preexchg", "exchg">>),
                Block("clear", <<"preclear", "clear">>),
                Block("any",   <<"clearround">>) >>

Day1603 == << Block("any",   <<"prework", "work", "preround", "round">>),
              Block("clear", <<"preclear">>),
              Block("any",   <<"clear", "clearround">>),
              Block("exchg", <<"preexchg", "exchg", "exchground">>) >>

Plan(h) == CASE h = "1601" -> Sync1601 [] h = "1602" -> Round1602 [] h = "1603" -> Day1603

(* The handler goes on when one of these fails: nobody looks at what comes *)
(* of them, or it is returned only at the end, if nothing overwrites it.   *)
Unchecked(h) == {"preexchg", "clearround"}
                \cup (IF h = "1602" THEN {"preclear"} ELSE {"exchground"})

(* PF_1601 gets the status in the answer of the center, the others in the  *)
(* notification; PF_1602 does nothing when the round is the one it has.    *)
Take(p, h) ==
    /\ hand[p] = Nobody
    /\ h = "1602" => para.round # status.round
    /\ hand' = [hand EXCEPT ![p] = [h |-> h, msg |-> status, blocks |-> Plan(h),
                                     fields |-> <<>>, clean |-> TRUE]]
    /\ synced' = {}
    /\ UNCHANGED <<status, para, tableVars>>

(* The next group of updates, or its comparison fails. *)
EnterBlock(p) ==
    LET me == hand[p]  b == Head(me.blocks) IN
    /\ me.blocks # <<>> /\ me.fields = <<>>
    /\ hand' = [hand EXCEPT ![p].blocks = Tail(@),
          ![p].fields = IF b.differs = "any" \/ para[b.differs] # me.msg[b.differs]
                        THEN b.fields ELSE <<>>]
    /\ UNCHANGED <<status, para, synced, tableVars>>

(* UpdSysPara of the next parameter: the one told, or what was current. *)
UpdSysPara(p) ==
    LET me == hand[p]  f == Head(me.fields) IN
    /\ me.fields # <<>>
    /\ para' = [para EXCEPT ![f] = IF f \in Told THEN me.msg[f] ELSE para[Previous[f]]]
    /\ hand' = [q \in Handlers |->
                   IF q = p THEN [me EXCEPT !.fields = Tail(@)]
                   ELSE IF hand[q] = Nobody THEN Nobody ELSE [hand[q] EXCEPT !.clean = FALSE]]
    /\ UNCHANGED <<status, synced, tableVars>>

(* It fails: the handler ends, or goes on.                                 *)
UpdFails(p) ==
    LET me == hand[p]  f == Head(me.fields) IN
    /\ me.fields # <<>>
    /\ IF f \in Unchecked(me.h)
       THEN hand' = [hand EXCEPT ![p].fields = Tail(@)]
       ELSE hand' = [hand EXCEPT ![p] = Nobody]
    /\ UNCHANGED <<status, para, synced, tableVars>>

HandlerEnds(p) ==
    /\ hand[p] # Nobody /\ hand[p].blocks = <<>> /\ hand[p].fields = <<>>
    /\ hand' = [hand EXCEPT ![p] = Nobody]
    /\ synced' = IF hand[p].h = "1601" /\ hand[p].clean
                    /\ \A q \in Handlers \ {p} : hand[q] = Nobody
                 THEN {hand[p].msg} ELSE {}
    /\ UNCHANGED <<status, para, tableVars>>

(* The center moves to its next round or day; the notification is handled  *)
(* or lost.                                                                *)
CenterMoves ==
    /\ status.round + status.work < LastTick
    /\ \/ \E clear \in BOOLEAN :                           \* next round
            status' = [status EXCEPT !["round"] = @ + 1, !["exchground"] = @ + 1,
                          !["clear"] = IF clear THEN @ + 1 ELSE @,
                          !["clearround"] = IF clear THEN 1 ELSE @ + 1]
       \/ status' = [status EXCEPT !["work"] = @ + 1, !["round"] = 1,   \* next day
                          !["exchg"] = @ + 1, !["exchground"] = 1,
                          !["clear"] = @ + 1, !["clearround"] = 1]
    /\ UNCHANGED <<para, hand, synced, tableVars>>

-----------------------------------------------------------------------------
(* PF_1619: the files are fetched, then each table is emptied and filled.  *)
Downloading(p) == down[p] # NoFile

PF_1619(p) ==
    /\ ~Downloading(p)
    /\ down' = [down EXCEPT ![p] = [ver |-> version, nr |-> 1, left |-> Lines + 1]]
    /\ torn' = \E q \in Handlers : Downloading(q)
    /\ UNCHANGED <<statusVars, version, table>>

\* Mutant: the rows of the former file stay.
DeleteRowsNot(p) ==
    /\ down[p].left = Lines + 1
    /\ down' = [down EXCEPT ![p].left = Lines]
    /\ UNCHANGED <<statusVars, version, table, torn>>

DeleteRows(p) ==
    /\ down[p].left = Lines + 1
    /\ table' = [table EXCEPT ![down[p].nr] = {}]
    /\ down' = [down EXCEPT ![p].left = Lines]
    /\ UNCHANGED <<statusVars, version, torn>>

(* HandleDownFileLine.. *)
InsertLine(p) ==
    /\ down[p].left \in 1..Lines
    /\ table' = [table EXCEPT ![down[p].nr] = @ \cup {[ver |-> down[p].ver, line |-> down[p].left]}]
    /\ down' = [down EXCEPT ![p].left = @ - 1]
    /\ UNCHANGED <<statusVars, version, torn>>

NextTable(p) ==
    LET me == down[p] IN
    /\ Downloading(p) /\ me.left = 0
    /\ down' = [down EXCEPT ![p] =
                    IF me.nr = Len(Tables) THEN NoFile
                    ELSE [ver |-> me.ver, nr |-> me.nr + 1, left |-> Lines + 1]]
    /\ UNCHANGED <<statusVars, version, table, torn>>

(* A line has another number of fields, a statement fails, or it dies. *)
DownloadFails(p) ==
    /\ Downloading(p)
    /\ down' = [down EXCEPT ![p] = NoFile]
    /\ torn' = TRUE
    /\ UNCHANGED <<statusVars, version, table>>

CenterChanges == /\ version < LastVersion /\ version' = version + 1
                 /\ UNCHANGED <<statusVars, table, down, torn>>

-----------------------------------------------------------------------------
SyncNext == \/ CenterMoves
            \/ \E p \in Handlers :
                  \/ EnterBlock(p) \/ UpdSysPara(p) \/ UpdFails(p) \/ HandlerEnds(p)
                  \/ \E h \in {"1601", "1602", "1603"} : Take(p, h)

DownloadNext == \/ CenterChanges
                \/ \E p \in Handlers :
                      \/ PF_1619(p) \/ DeleteRows(p) \/ InsertLine(p)
                      \/ NextTable(p) \/ DownloadFails(p)

ParamsSpec == ParamsInit /\ [][SyncNext \/ DownloadNext]_paramVars
-----------------------------------------------------------------------------
(* A PF_1601 that came to its end leaves the dates and the work round it   *)
(* was told, whatever notifications were lost before, came twice, failed   *)
(* half way or died -- unless another handler wrote in between.            *)
SyncRepairs == \A m \in synced : \A f \in {"work", "round", "clear", "exchg"} : para[f] = m[f]

(* The code tables hold all the lines of one version of the center's       *)
(* files, the same in every table -- unless a download is going on, failed *)
(* or died since the last complete one, or overlapped with another.        *)
TablesWhole ==
    torn \/ (\E p \in Handlers : Downloading(p)) \/
        \E v \in 1..version : \A n \in DOMAIN table :
            table[n] = {[ver |-> v, line |-> l] : l \in 1..Lines}
=============================================================================
