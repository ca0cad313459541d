------------------------------ MODULE Clearing ------------------------------
(***************************************************************************)
(* The bank's own clearing of a reconciled round: PF10_903 queues one      *)
(* transfer for each of four sums in table bankclear, PF10_904 has the     *)
(* core system make the queued transfers and flags their rows.  The table  *)
(* has no unique index, and every transfer gets a serial of its own, so    *)
(* nothing but the flag tells what was transferred.                        *)
(*                                                                         *)
(* The core system is external: it executes a transfer it received at most *)
(* once, or refuses it.                                                    *)
(***************************************************************************)
EXTENDS Naturals, FiniteSets

CONSTANTS Clerks,       \* processes that serve 903 and 904
          Types,        \* trtypes 1101 .. 1104
          Nothing,      \* those whose sum is below 0.01
          MaxTransfer   \* bound on the transfers

ASSUME ClearingAssumption == Types \subseteq Nat /\ Nothing \subseteq Types

VARIABLES settled,    \* SETTLED_DATEROUND has reached the round
          bankclear,  \* its rows: [type, copy]
          flag,       \* those with flag 1
          sent,       \* transfers the core system was sent: [type, serial]
          done,       \* serials of those it executed
          refused,    \* serials of those it refused
          doubtful,   \* history: types with an answer lost or unreadable, a
                      \* failed SELECT or UPDATE, or two requests at work
          cstage, work, now   \* of each process: point, rows left to do, call

clearVars == <<settled, bankclear, flag, sent, done, refused, doubtful, cstage, work, now>>

Row(t)  == {r \in bankclear : r.type = t}
NoCall  == [type |-> 0, serial |-> 0]

ClearingInit == /\ settled = FALSE
                /\ bankclear = {} /\ flag = {}
                /\ sent = {} /\ done = {} /\ refused = {} /\ doubtful = {}
                /\ cstage = [c \in Clerks |-> "idle"]
                /\ work = [c \in Clerks |-> {}]
                /\ now = [c \in Clerks |-> NoCall]

Go(c, s, ws, n) == /\ cstage' = [cstage EXCEPT ![c] = s]
                   /\ work' = [work EXCEPT ![c] = ws]
                   /\ now' = [now EXCEPT ![c] = n]
Over(c) == Go(c, "idle", {}, NoCall)
Doubt(ts) == doubtful' = doubtful \cup ts
Core == UNCHANGED <<sent, done, refused>>

-----------------------------------------------------------------------------
(* PF10_903: only a round that was reconciled with the center; the sums    *)
(* are read, which may fail.                                               *)
PF10_903(c) ==
    /\ cstage[c] = "idle" /\ settled
    /\ Go(c, "queue", [type : Types, copy : {0}], NoCall)
    /\ Core /\ UNCHANGED <<settled, bankclear, flag, doubtful>>

(* db_hasrecord for the next type: it says no also when its SELECT fails. *)
First(c, r) == r \in work[c] /\ \A q \in work[c] : r.type <= q.type

Inserting(t) == \E c \in Clerks : cstage[c] = "insert" /\ \E r \in work[c] : First(c, r) /\ r.type = t

HasRecord(c, r) ==
    LET t == r.type IN
    /\ cstage[c] = "queue" /\ First(c, r)
    /\ \/ Row(t) # {} /\ Go(c, "queue", work[c] \ {r}, NoCall) /\ Doubt({})
       \/ /\ Go(c, "insert", work[c], NoCall)
          /\ Doubt(IF Row(t) # {} \/ Inserting(t) THEN {t} ELSE {})
    /\ Core /\ UNCHANGED <<settled, bankclear, flag>>

(* The INSERT, with flag 0; when it fails the request ends. *)
InsertBankclear(c, r) ==
    LET t == r.type IN
    /\ cstage[c] = "insert" /\ First(c, r)
    /\ \/ Over(c) /\ UNCHANGED bankclear
       \/ /\ bankclear' = bankclear \cup {[type |-> t, copy |-> Cardinality(Row(t)) + 1]}
          /\ Go(c, "queue", work[c] \ {r}, NoCall)
    /\ Core /\ UNCHANGED <<settled, flag, doubtful>>

-----------------------------------------------------------------------------
(* PF10_904: the rows and their flags are read once, at the beginning.     *)
Unflagged == bankclear \ flag
AtWork(r) == \E c \in Clerks : /\ cstage[c] \in {"clear", "await"}
                              /\ \/ r \in work[c]
                                 \/ now[c].type = r.type

PF10_904(c) ==
    /\ cstage[c] = "idle"
    /\ Go(c, "clear", Unflagged, NoCall)
    /\ Doubt({r.type : r \in {q \in Unflagged : AtWork(q)}})
    /\ Core /\ UNCHANGED <<settled, bankclear, flag>>

(* The UPDATE of the flag, of every row of the type; it is not checked. *)
SetFlag(t) == \/ flag' = flag \cup Row(t) /\ Doubt({})
              \/ UNCHANGED flag /\ Doubt({t})

(* Next row: a sum below 0.01 is flagged without a transfer. *)
ClearNothing(c, r) ==
    /\ cstage[c] = "clear" /\ r \in work[c] /\ r.type \in Nothing
    /\ Go(c, "clear", work[c] \ {r}, NoCall)
    /\ SetFlag(r.type)
    /\ Core /\ UNCHANGED <<settled, bankclear>>

(* Any other one gets a serial and is sent. *)
Transfer(c, r) ==
    /\ cstage[c] = "clear" /\ r \in work[c] /\ r.type \notin Nothing
    /\ LET n == [type |-> r.type, serial |-> Cardinality(sent) + 1] IN
       /\ n.serial <= MaxTransfer
       /\ sent' = sent \cup {n}
       /\ Go(c, "await", work[c] \ {r}, n)
    /\ UNCHANGED <<settled, bankclear, flag, done, refused, doubtful>>

(* callInterface fails, before the request left or after. *)
TransferLost(c) ==
    /\ cstage[c] \in {"await"}
    /\ Go(c, "clear", work[c], NoCall)
    /\ Doubt({now[c].type})
    /\ Core /\ UNCHANGED <<settled, bankclear, flag>>

\* Mutant: a refused transfer is flagged too.
TransferAnsweredAny(c) ==
    /\ cstage[c] = "await" /\ now[c].serial \in done \cup refused
    /\ Go(c, "clear", work[c], NoCall)
    /\ SetFlag(now[c].type)
    /\ Core /\ UNCHANGED <<settled, bankclear>>

(* The answer: an empty return code, or one of zeros only, is a success.   *)
TransferAnswered(c) ==
    /\ cstage[c] = "await" /\ now[c].serial \in done \cup refused
    /\ Go(c, "clear", work[c], NoCall)
    /\ \/ now[c].serial \in refused /\ UNCHANGED <<flag, doubtful>>
       \/ now[c].serial \in done /\ SetFlag(now[c].type)
       \/ flag' = flag \cup Row(now[c].type) /\ Doubt({now[c].type})   \* no readable code
    /\ Core /\ UNCHANGED <<settled, bankclear>>

Finish(c) == /\ cstage[c] \in {"queue", "clear"} /\ work[c] = {}
             /\ Over(c)
             /\ Core /\ UNCHANGED <<settled, bankclear, flag, doubtful>>

-----------------------------------------------------------------------------
(* The round is reconciled (module DayEnd); the core system executes a     *)
(* request; a process dies.                                                *)
Settle == /\ ~settled /\ settled' = TRUE
          /\ Core /\ UNCHANGED <<bankclear, flag, doubtful, cstage, work, now>>

CoreExecute(n) == /\ n \in sent /\ n.serial \notin done \cup refused
                  /\ \/ done' = done \cup {n.serial} /\ UNCHANGED refused
                     \/ refused' = refused \cup {n.serial} /\ UNCHANGED done
                  /\ UNCHANGED <<settled, bankclear, flag, sent, doubtful, cstage, work, now>>

ClerkDies(c) == /\ cstage[c] # "idle"
                /\ Over(c)
                /\ Doubt(IF cstage[c] = "await" THEN {now[c].type} ELSE {})
                /\ Core /\ UNCHANGED <<settled, bankclear, flag>>

ClearingNext ==
    \/ Settle \/ \E n \in sent : CoreExecute(n)
    \/ \E c \in Clerks :
          \/ PF10_903(c) \/ PF10_904(c) \/ TransferLost(c) \/ TransferAnswered(c)
          \/ Finish(c) \/ ClerkDies(c)
          \/ \E r \in work[c] : \/ HasRecord(c, r) \/ InsertBankclear(c, r)
                               \/ ClearNothing(c, r) \/ Transfer(c, r)

ClearingSpec == ClearingInit /\ [][ClearingNext]_clearVars

-----------------------------------------------------------------------------
Transferred(t) == {n \in sent : n.type = t /\ n.serial \in done}

(* However often the clearing is asked for, the bank transfers each sum of *)
(* a round at most once, and a flagged row stands for a sum that was       *)
(* transferred or is nothing -- unless an answer was lost or unreadable, a *)
(* SELECT or UPDATE failed, or two requests worked on the row at once:     *)
(* nothing but the flag guards the repetition.                             *)
ClearedOnce ==
    \A t \in Types \ doubtful :
        /\ Cardinality(Transferred(t)) <= 1
        /\ Row(t) \cap flag # {} => t \in Nothing \/ Transferred(t) # {}
=============================================================================
