---------------------------- MODULE ClearingProofs ---------------------------
(* Theorems about Clearing, for any processes, types and transfers, and    *)
(* about Settlement, for any rows, rounds, currencies and processes.       *)
EXTENDS Clearing, Settlement, FiniteSetTheorems, TLAPS

Points == {"idle", "queue", "insert", "clear", "await"}
Queue  == [type : Types, copy : {0}]

ClearingTypeOK ==
    /\ \A r \in bankclear : r.type \in Types
    /\ flag \subseteq bankclear
    /\ \A n \in sent : n.type \in Types
    /\ done \cap refused = {}
    /\ cstage \in [Clerks -> Points]
    /\ work \in [Clerks -> SUBSET (bankclear \cup Queue)]
    /\ now \in [Clerks -> sent \cup {NoCall}]
    /\ \A c \in Clerks : /\ cstage[c] = "idle" => work[c] = {}
                         /\ cstage[c] \in {"queue", "insert"} => work[c] \subseteq Queue
                         /\ cstage[c] \in {"clear", "await"} => work[c] \subseteq bankclear
                         /\ cstage[c] = "await" => now[c] \in sent

(* A transfer that was not refused may have been made, or be made yet. *)
Live(t) == {n \in sent : n.type = t /\ n.serial \notin refused}

InsertsRow(c, t) == cstage[c] = "insert" /\ \E r \in work[c] : First(c, r) /\ r.type = t
Holds(c, t) == cstage[c] \in {"clear", "await"} /\ \E r \in work[c] : r.type = t
Awaits(c, t) == cstage[c] = "await" /\ now[c].type = t
AtTransfer(c, t) == Holds(c, t) \/ Awaits(c, t)

(* One row a type: whoever inserts it is alone and there is none yet. *)
OneRow(t) ==
    /\ \A r, q \in Row(t) : r = q
    /\ \A c, d \in Clerks : InsertsRow(c, t) /\ InsertsRow(d, t) => c = d
    /\ \A c \in Clerks : InsertsRow(c, t) => Row(t) = {}
    /\ Row(t) = {} => \A n \in sent : n.type # t

(* One request works on it, and as long as the row is not flagged every     *)
(* transfer but the one awaited was refused.                                *)
OneBusy(t) ==
    /\ \A c, d \in Clerks : AtTransfer(c, t) /\ AtTransfer(d, t) => c = d
    /\ \A c \in Clerks : Holds(c, t) => Row(t) \cap flag = {} /\ Live(t) = {}
    /\ \A c \in Clerks : Awaits(c, t) => /\ ~Holds(c, t) /\ Row(t) \cap flag = {}
                                         /\ Live(t) \subseteq {now[c]}
    /\ (\A c \in Clerks : ~AtTransfer(c, t)) => Live(t) = {} \/ Row(t) \subseteq flag

OneTransfer(t) ==
    /\ \A n, m \in Live(t) : n = m
    /\ Row(t) \cap flag # {} => t \in Nothing \/ Transferred(t) # {}

Sure(t) == OneRow(t) /\ OneBusy(t) /\ OneTransfer(t)
IInv == ClearingTypeOK /\ \A t \in Types \ doubtful : Sure(t)

(* The invariant holds at first. *)
LEMMA ClearingInitIInv == ClearingInit => IInv
<1> SUFFICES ASSUME ClearingInit PROVE IInv
  OBVIOUS
<1>1. ClearingTypeOK
  BY DEF ClearingInit, ClearingTypeOK, Points
<1>2. ASSUME NEW t \in Types PROVE Sure(t)
  BY DEF ClearingInit, Sure, OneRow, OneBusy, OneTransfer, Row, Live, InsertsRow, Holds,
         Awaits, AtTransfer
<1> QED BY <1>1, <1>2 DEF IInv

(* A step that changes neither the rows nor the transfers, and lets no      *)
(* process take up work on t or an insertion, keeps what is sure of t.      *)
LEMMA LetGo ==
    ASSUME NEW t, Sure(t), UNCHANGED <<bankclear, flag, sent>>,
           done \subseteq done', refused \subseteq refused',
           \A c \in Clerks : /\ InsertsRow(c, t)' => InsertsRow(c, t)
                             /\ Holds(c, t)' => Holds(c, t)
                             /\ Awaits(c, t)' => Awaits(c, t) /\ now'[c] = now[c]
                             /\ Awaits(c, t) => Awaits(c, t)' \/ Live(t)' = {}
    PROVE  Sure(t)'
<1>1. Live(t)' \subseteq Live(t) /\ Transferred(t) \subseteq Transferred(t)' /\ Row(t)' = Row(t)
  BY DEF Live, Transferred, Row
<1>2. OneRow(t)'
  BY <1>1 DEF Sure, OneRow
<1>3. OneTransfer(t)'
  BY <1>1 DEF Sure, OneTransfer
<1>4. ASSUME \A c \in Clerks : ~AtTransfer(c, t)' PROVE Live(t)' = {} \/ Row(t)' \subseteq flag'
  <2>1. CASE \E c \in Clerks : Awaits(c, t)
    BY <1>4, <2>1 DEF AtTransfer
  <2>2. CASE \E c \in Clerks : Holds(c, t)
    BY <1>1, <2>2 DEF Sure, OneBusy
  <2>3. CASE \A c \in Clerks : ~AtTransfer(c, t)
    BY <1>1, <2>3 DEF Sure, OneBusy
  <2> QED BY <2>1, <2>2, <2>3 DEF AtTransfer
<1>5. \A c, d \in Clerks : AtTransfer(c, t)' /\ AtTransfer(d, t)' => c = d
  BY DEF Sure, OneBusy, AtTransfer
<1>6. \A c \in Clerks : Holds(c, t)' => Row(t)' \cap flag' = {} /\ Live(t)' = {}
  BY <1>1 DEF Sure, OneBusy
<1>7. \A c \in Clerks : Awaits(c, t)' => /\ ~Holds(c, t)' /\ Row(t)' \cap flag' = {}
                                         /\ Live(t)' \subseteq {now'[c]}
  BY <1>1 DEF Sure, OneBusy
<1> QED BY <1>2, <1>3, <1>4, <1>5, <1>6, <1>7 DEF Sure, OneBusy

(* Every step keeps the types. *)
LEMMA ClearingTypes == ClearingTypeOK /\ [ClearingNext]_clearVars => ClearingTypeOK'
<1> SUFFICES ASSUME ClearingTypeOK, [ClearingNext]_clearVars PROVE ClearingTypeOK'
  OBVIOUS
<1> USE DEF ClearingTypeOK, Points, Go, Over, Core
<1>1. CASE UNCHANGED clearVars
  BY <1>1 DEF clearVars
<1>2. CASE Settle
  BY <1>2 DEF Settle
<1>3. ASSUME NEW n \in sent, CoreExecute(n) PROVE ClearingTypeOK'
  BY <1>3 DEF CoreExecute
<1>4. ASSUME NEW c \in Clerks, PF10_903(c) PROVE ClearingTypeOK'
  BY <1>4 DEF PF10_903, Queue
<1>5. ASSUME NEW c \in Clerks, PF10_904(c) PROVE ClearingTypeOK'
  BY <1>5 DEF PF10_904, Unflagged
<1>6. ASSUME NEW c \in Clerks, TransferLost(c) \/ Finish(c) \/ ClerkDies(c)
      PROVE  ClearingTypeOK'
  BY <1>6 DEF TransferLost, Finish, ClerkDies
<1>7. ASSUME NEW c \in Clerks, TransferAnswered(c) PROVE ClearingTypeOK'
  BY <1>7 DEF TransferAnswered, SetFlag, Row
<1>8. ASSUME NEW c \in Clerks, NEW r \in work[c], HasRecord(c, r) PROVE ClearingTypeOK'
  BY <1>8 DEF HasRecord
<1>9. ASSUME NEW c \in Clerks, NEW r \in work[c], InsertBankclear(c, r) PROVE ClearingTypeOK'
  <2>1. r.type \in Types
    BY <1>9 DEF InsertBankclear, Queue
  <2> QED BY <1>9, <2>1 DEF InsertBankclear
<1>10. ASSUME NEW c \in Clerks, NEW r \in work[c], ClearNothing(c, r) PROVE ClearingTypeOK'
  BY <1>10 DEF ClearNothing, SetFlag, Row
<1>11. ASSUME NEW c \in Clerks, NEW r \in work[c], Transfer(c, r) PROVE ClearingTypeOK'
  <2>1. r.type \in Types
    BY <1>11 DEF Transfer
  <2> QED BY <1>11, <2>1 DEF Transfer
<1> QED BY <1>1, <1>2, <1>3, <1>4, <1>5, <1>6, <1>7, <1>8, <1>9, <1>10, <1>11
        DEF ClearingNext

(* Steps that only let go: refused or unknown answers, the end of a request, *)
(* deaths, and the core system.                                              *)
LEMMA LettingGo ==
    ASSUME ClearingTypeOK, NEW t \in Types, Sure(t), t \notin doubtful',
           \/ Settle \/ \E n \in sent : CoreExecute(n)
           \/ \E c \in Clerks : PF10_903(c) \/ TransferLost(c) \/ Finish(c) \/ ClerkDies(c)
    PROVE  Sure(t)'
<1> USE DEF Go, Over, Core, Doubt
<1>1. CASE Settle
  BY <1>1, LetGo DEF Settle, InsertsRow, Holds, Awaits, First
<1>2. ASSUME NEW n \in sent, CoreExecute(n) PROVE Sure(t)'
  BY <1>2, LetGo DEF CoreExecute, InsertsRow, Holds, Awaits, First
<1>3. ASSUME NEW c \in Clerks, PF10_903(c) \/ Finish(c) PROVE Sure(t)'
  <2>1. UNCHANGED <<bankclear, flag, sent, done, refused>>
    BY <1>3 DEF PF10_903, Finish
  <2>2. ASSUME NEW d \in Clerks
        PROVE  /\ InsertsRow(d, t)' => InsertsRow(d, t)
               /\ Holds(d, t)' => Holds(d, t)
               /\ Awaits(d, t)' => Awaits(d, t) /\ now'[d] = now[d]
               /\ Awaits(d, t) => Awaits(d, t)'
    BY <1>3 DEF PF10_903, Finish, ClearingTypeOK, InsertsRow, Holds, Awaits, First
  <2> QED BY <2>1, <2>2, LetGo
<1>4. ASSUME NEW c \in Clerks, TransferLost(c) \/ ClerkDies(c) PROVE Sure(t)'
  <2>1. UNCHANGED <<bankclear, flag, sent, done, refused>>
    BY <1>4 DEF TransferLost, ClerkDies
  <2>2. ASSUME NEW d \in Clerks
        PROVE  /\ InsertsRow(d, t)' => InsertsRow(d, t)
               /\ Holds(d, t)' => Holds(d, t)
               /\ Awaits(d, t)' => Awaits(d, t) /\ now'[d] = now[d]
    BY <1>4 DEF TransferLost, ClerkDies, ClearingTypeOK, InsertsRow, Holds, Awaits, First
  <2>3. ~Awaits(c, t)
    BY <1>4 DEF TransferLost, ClerkDies, Awaits
  <2>4. ASSUME NEW d \in Clerks, Awaits(d, t) PROVE Awaits(d, t)'
    BY <1>4, <2>3, <2>4 DEF TransferLost, ClerkDies, ClearingTypeOK, Awaits
  <2> QED BY <2>1, <2>2, <2>4, LetGo
<1> QED BY <1>1, <1>2, <1>3, <1>4

(* db_hasrecord: an insertion is taken up only where there is no row. *)
LEMMA HasRecordSure ==
    ASSUME ClearingTypeOK, NEW t \in Types, Sure(t), t \notin doubtful',
           NEW c \in Clerks, NEW r \in work[c], HasRecord(c, r)
    PROVE  Sure(t)'
<1> USE DEF Go, Core, Doubt
<1>0. /\ UNCHANGED <<bankclear, flag, sent, done, refused>>
      /\ r \in work[c] /\ r.type \in Types /\ work[c] \subseteq Queue
      /\ cstage[c] = "queue" /\ First(c, r)
  BY DEF HasRecord, ClearingTypeOK, Queue
<1>1. ASSUME NEW d \in Clerks
      PROVE  /\ Holds(d, t)' => Holds(d, t)
             /\ Awaits(d, t)' => Awaits(d, t) /\ now'[d] = now[d]
             /\ Awaits(d, t) => Awaits(d, t)'
  BY <1>0 DEF HasRecord, ClearingTypeOK, Holds, Awaits
<1>2. CASE \A d \in Clerks : InsertsRow(d, t)' => InsertsRow(d, t)
  BY <1>0, <1>1, <1>2, LetGo
<1>3. CASE ~\A d \in Clerks : InsertsRow(d, t)' => InsertsRow(d, t)
  <2>1. \A d \in Clerks \ {c} : InsertsRow(d, t)' <=> InsertsRow(d, t)
    BY <1>0 DEF HasRecord, ClearingTypeOK, InsertsRow, First
  <2>2. InsertsRow(c, t)' /\ ~InsertsRow(c, t)
    BY <1>3, <2>1
  <2>3. cstage' = [cstage EXCEPT ![c] = "insert"] /\ work' = [work EXCEPT ![c] = work[c]]
    BY <1>0, <2>2 DEF HasRecord, ClearingTypeOK, InsertsRow
  <2>4. r.type = t
    <3>1. PICK q \in work[c] : First(c, q) /\ q.type = t
      BY <2>2, <2>3 DEF InsertsRow, First, ClearingTypeOK
    <3>2. q.type <= r.type /\ r.type <= q.type /\ q.type \in Nat /\ r.type \in Nat
      BY <1>0, <3>1, ClearingAssumption DEF First, Queue
    <3> QED BY <3>1, <3>2
  <2>5. Row(t) = {} /\ ~Inserting(t)
    BY <2>3, <2>4, <1>0 DEF HasRecord, ClearingTypeOK
  <2>6. \A d \in Clerks : ~InsertsRow(d, t)
    BY <2>5 DEF Inserting, InsertsRow
  <2>7. OneRow(t)'
    BY <1>0, <2>1, <2>5, <2>6 DEF Sure, OneRow, Row
  <2>8. OneBusy(t)'
    <3>1. \A d \in Clerks : AtTransfer(d, t)' => AtTransfer(d, t)
      BY <1>1 DEF AtTransfer
    <3>2. Row(t)' = {} /\ flag' = flag /\ Live(t)' = Live(t)
      BY <1>0, <2>5 DEF Row, Live
    <3>3. Live(t) = {}
      BY <2>5 DEF Sure, OneRow, Live
    <3> QED BY <1>1, <3>1, <3>2, <3>3 DEF Sure, OneBusy, AtTransfer
  <2>9. OneTransfer(t)'
    BY <1>0, <2>5 DEF Sure, OneTransfer, Live, Row
  <2> QED BY <2>7, <2>8, <2>9 DEF Sure
<1> QED BY <1>2, <1>3

(* The INSERT: with one process at it and no row there is one row.          *)
LEMMA InsertSure ==
    ASSUME ClearingTypeOK, NEW t \in Types, Sure(t), t \notin doubtful',
           NEW c \in Clerks, NEW r \in work[c], InsertBankclear(c, r)
    PROVE  Sure(t)'
<1> USE DEF Go, Over, Core
<1>0. /\ UNCHANGED <<flag, sent, done, refused>>
      /\ work[c] \subseteq Queue /\ cstage[c] = "insert" /\ First(c, r)
      /\ cstage'[c] \in {"idle", "queue"}
  BY DEF InsertBankclear, ClearingTypeOK
<1>1. ASSUME NEW d \in Clerks
      PROVE  /\ InsertsRow(d, t)' => InsertsRow(d, t) /\ d # c
             /\ Holds(d, t)' => Holds(d, t)
             /\ Awaits(d, t)' => Awaits(d, t) /\ now'[d] = now[d]
             /\ Awaits(d, t) => Awaits(d, t)'
  BY <1>0 DEF InsertBankclear, ClearingTypeOK, InsertsRow, Holds, Awaits, First
<1>2. CASE bankclear' = bankclear
  BY <1>0, <1>1, <1>2, LetGo
<1>3. CASE bankclear' # bankclear
  <2>1. bankclear' = bankclear \cup {[type |-> r.type, copy |-> Cardinality(Row(r.type)) + 1]}
    BY <1>3 DEF InsertBankclear
  <2>2. CASE r.type # t
    <3>1. Row(t)' = Row(t) /\ Live(t)' = Live(t) /\ Transferred(t)' = Transferred(t)
      BY <1>0, <2>1, <2>2 DEF Row, Live, Transferred
    <3>2. OneRow(t)' /\ OneTransfer(t)'
      BY <1>0, <1>1, <3>1 DEF Sure, OneRow, OneTransfer
    <3>3. \A d \in Clerks : AtTransfer(d, t) => AtTransfer(d, t)'
      BY <1>0 DEF InsertBankclear, ClearingTypeOK, AtTransfer, Holds, Awaits
    <3>4. \A d \in Clerks : AtTransfer(d, t)' => AtTransfer(d, t)
      BY <1>1 DEF AtTransfer
    <3>5. OneBusy(t)'
      BY <1>0, <1>1, <3>1, <3>3, <3>4 DEF Sure, OneBusy
    <3> QED BY <3>2, <3>5 DEF Sure
  <2>3. CASE r.type = t
    <3>1. InsertsRow(c, t) /\ Row(t) = {}
      BY <1>0, <2>3 DEF InsertsRow, Sure, OneRow
    <3> DEFINE new == [type |-> r.type, copy |-> Cardinality(Row(r.type)) + 1]
    <3>2. Row(t)' = {new} /\ new \notin flag /\ Live(t)' = {} /\ Live(t) = {}
      BY <1>0, <2>1, <2>3, <3>1 DEF Row, ClearingTypeOK, Sure, OneRow, Live
    <3>3. \A d \in Clerks : ~InsertsRow(d, t)'
      BY <1>1, <3>1 DEF Sure, OneRow
    <3>4. OneRow(t)'
      BY <3>2, <3>3 DEF OneRow
    <3>5. \A d \in Clerks : AtTransfer(d, t)' => AtTransfer(d, t)
      BY <1>1 DEF AtTransfer
    <3>6. \A d \in Clerks : ~Holds(d, t)
      BY <3>1 DEF Holds, ClearingTypeOK, Row
    <3>7. \A d \in Clerks : ~Awaits(d, t)
      BY <3>1 DEF Awaits, ClearingTypeOK, Sure, OneRow
    <3>8. OneBusy(t)'
      BY <3>2, <3>5, <3>6, <3>7 DEF OneBusy, AtTransfer
    <3>9. OneTransfer(t)'
      BY <1>0, <3>2 DEF OneTransfer
    <3> QED BY <3>4, <3>8, <3>9 DEF Sure
  <2> QED BY <2>2, <2>3
<1> QED BY <1>2, <1>3

(* PF10_904 takes up the unflagged rows; of those another request works on  *)
(* nothing is sure any more.                                                *)
LEMMA TakeUpSure ==
    ASSUME ClearingTypeOK, NEW t \in Types, Sure(t), t \notin doubtful',
           NEW c \in Clerks, PF10_904(c)
    PROVE  Sure(t)'
<1> USE DEF Go, Core, Doubt
<1>0. /\ UNCHANGED <<bankclear, flag, sent, done, refused>>
      /\ cstage' = [cstage EXCEPT ![c] = "clear"] /\ work' = [work EXCEPT ![c] = Unflagged]
      /\ now' = [now EXCEPT ![c] = NoCall] /\ cstage[c] = "idle"
  BY DEF PF10_904
<1>1. ASSUME NEW d \in Clerks \ {c}
      PROVE  /\ InsertsRow(d, t)' <=> InsertsRow(d, t)
             /\ Holds(d, t)' <=> Holds(d, t)
             /\ Awaits(d, t)' <=> Awaits(d, t)
             /\ now'[d] = now[d]
  BY <1>0 DEF ClearingTypeOK, InsertsRow, Holds, Awaits, First
<1>2. ~InsertsRow(c, t) /\ ~InsertsRow(c, t)' /\ ~AtTransfer(c, t) /\ ~Awaits(c, t)'
  BY <1>0 DEF ClearingTypeOK, InsertsRow, AtTransfer, Holds, Awaits
<1>3. CASE ~Holds(c, t)'
  <2>1. \A d \in Clerks : /\ InsertsRow(d, t)' => InsertsRow(d, t)
                          /\ Holds(d, t)' => Holds(d, t)
                          /\ Awaits(d, t)' => Awaits(d, t) /\ now'[d] = now[d]
                          /\ Awaits(d, t) => Awaits(d, t)'
    BY <1>1, <1>2, <1>3 DEF AtTransfer
  <2> QED BY <1>0, <2>1, LetGo
<1>4. CASE Holds(c, t)'
  <2>1. PICK r \in Unflagged : r.type = t
    BY <1>0, <1>4 DEF Holds, ClearingTypeOK
  <2>2. ~AtWork(r)
    BY <2>1 DEF PF10_904
  <2>3. \A d \in Clerks : \A q \in work[d] : cstage[d] \in {"clear", "await"} => q.type # t
    BY <2>1, <2>2 DEF AtWork, ClearingTypeOK, Unflagged, Sure, OneRow, Row
  <2>4. \A d \in Clerks : ~AtTransfer(d, t)
    BY <2>1, <2>2, <2>3 DEF AtWork, AtTransfer, Holds, Awaits
  <2>5. r \in Row(t) /\ r \notin flag
    BY <2>1 DEF Unflagged, Row
  <2>6. Live(t) = {} /\ Row(t) \cap flag = {}
    BY <2>4, <2>5 DEF Sure, OneBusy, OneRow
  <2>7. Live(t)' = {} /\ Row(t)' \cap flag' = {} /\ Row(t)' = Row(t)
        /\ Transferred(t)' = Transferred(t)
    BY <1>0, <2>6 DEF Live, Row, Transferred
  <2>8. OneRow(t)' /\ OneTransfer(t)'
    BY <1>0, <1>1, <1>2, <2>7 DEF Sure, OneRow, OneTransfer
  <2>9. \A d \in Clerks : (AtTransfer(d, t)' => d = c) /\ ~Awaits(d, t)'
    BY <1>1, <1>2, <2>4 DEF AtTransfer
  <2>10. OneBusy(t)'
    BY <2>7, <2>9 DEF OneBusy
  <2> QED BY <2>8, <2>10 DEF Sure
<1> QED BY <1>3, <1>4

(* The UPDATE of the flag when one process is at the row and every live     *)
(* transfer is the one it awaited.                                          *)
LEMMA FlagSure ==
    ASSUME ClearingTypeOK, NEW t \in Types, Sure(t),
           NEW c \in Clerks, AtTransfer(c, t),
           UNCHANGED <<bankclear, sent, done, refused>>, flag' = flag \cup Row(t),
           t \in Nothing \/ Transferred(t) # {},
           \A d \in Clerks : ~AtTransfer(d, t)' /\ (InsertsRow(d, t)' => InsertsRow(d, t))
    PROVE  Sure(t)'
<1>1. Live(t)' = Live(t) /\ Transferred(t)' = Transferred(t) /\ Row(t)' = Row(t)
  BY DEF Live, Transferred, Row
<1>2. OneRow(t)' /\ OneTransfer(t)'
  BY <1>1 DEF Sure, OneRow, OneTransfer
<1>3. OneBusy(t)'
  BY <1>1 DEF OneBusy, AtTransfer
<1> QED BY <1>2, <1>3 DEF Sure

(* A row whose type is not t is flagged: nothing of t changes. *)
LEMMA OtherFlag ==
    ASSUME ClearingTypeOK, NEW t \in Types, Sure(t), NEW u, u # t,
           UNCHANGED <<bankclear, sent, done, refused>>,
           flag' = flag \/ flag' = flag \cup Row(u),
           \A d \in Clerks : /\ InsertsRow(d, t)' => InsertsRow(d, t)
                             /\ Holds(d, t)' <=> Holds(d, t)
                             /\ Awaits(d, t)' <=> Awaits(d, t)
                             /\ Awaits(d, t) => now'[d] = now[d]
    PROVE  Sure(t)'
<1>1. /\ Live(t)' = Live(t) /\ Transferred(t)' = Transferred(t) /\ Row(t)' = Row(t)
      /\ Row(t)' \cap flag' = Row(t) \cap flag
  BY DEF Live, Transferred, Row
<1>2. OneRow(t)' /\ OneTransfer(t)'
  BY <1>1 DEF Sure, OneRow, OneTransfer
<1>3. Row(t)' \subseteq flag' <=> Row(t) \subseteq flag
  BY <1>1
<1>4. OneBusy(t)'
  BY <1>1, <1>3 DEF Sure, OneBusy, AtTransfer
<1> QED BY <1>2, <1>4 DEF Sure

(* A sum below 0.01 is flagged without a transfer. *)
LEMMA NothingSure ==
    ASSUME ClearingTypeOK, NEW t \in Types, Sure(t), t \notin doubtful',
           NEW c \in Clerks, NEW r \in work[c], ClearNothing(c, r)
    PROVE  Sure(t)'
<1> USE DEF Go, Core, Doubt
<1>0. /\ UNCHANGED <<bankclear, sent, done, refused>> /\ cstage' = [cstage EXCEPT ![c] = "clear"]
      /\ work' = [work EXCEPT ![c] = work[c] \ {r}] /\ now' = [now EXCEPT ![c] = NoCall]
      /\ cstage[c] = "clear" /\ r \in bankclear /\ work[c] \subseteq bankclear
  BY DEF ClearNothing, ClearingTypeOK
<1>1. ASSUME NEW d \in Clerks \ {c}
      PROVE  /\ InsertsRow(d, t)' <=> InsertsRow(d, t)
             /\ Holds(d, t)' <=> Holds(d, t)
             /\ Awaits(d, t)' <=> Awaits(d, t)
             /\ now'[d] = now[d]
  BY <1>0 DEF ClearingTypeOK, InsertsRow, Holds, Awaits, First
<1>2. ~InsertsRow(c, t)' /\ ~Awaits(c, t)' /\ ~Awaits(c, t)
  BY <1>0 DEF ClearingTypeOK, InsertsRow, Awaits
<1>3. CASE r.type = t
  <2>1. Holds(c, t) /\ flag' = flag \cup Row(t) /\ t \in Nothing
    BY <1>0, <1>3 DEF ClearNothing, SetFlag, Holds
  <2>2. ~Holds(c, t)'
    BY <1>0, <1>3 DEF ClearingTypeOK, Holds, Sure, OneRow, Row
  <2>3. ASSUME NEW d \in Clerks PROVE ~AtTransfer(d, t)' /\ (InsertsRow(d, t)' => InsertsRow(d, t))
    <3>1. CASE d = c
      BY <1>2, <2>2, <3>1 DEF AtTransfer
    <3>2. CASE d # c
      <4>1. ~AtTransfer(d, t)
        BY <2>1, <3>2 DEF Sure, OneBusy, AtTransfer
      <4> QED BY <1>1, <3>2, <4>1 DEF AtTransfer
    <3> QED BY <3>1, <3>2
  <2>4. AtTransfer(c, t)
    BY <2>1 DEF AtTransfer
  <2> QED BY <1>0, <2>1, <2>3, <2>4, FlagSure
<1>4. CASE r.type # t
  <2>1. Holds(c, t)' <=> Holds(c, t)
    BY <1>0, <1>4 DEF ClearingTypeOK, Holds
  <2>2. flag' = flag \/ flag' = flag \cup Row(r.type)
    BY DEF ClearNothing, SetFlag
  <2>3. ASSUME NEW d \in Clerks
        PROVE  /\ InsertsRow(d, t)' => InsertsRow(d, t)
               /\ Holds(d, t)' <=> Holds(d, t)
               /\ Awaits(d, t)' <=> Awaits(d, t)
               /\ Awaits(d, t) => now'[d] = now[d]
    BY <1>1, <1>2, <2>1
  <2> QED BY <1>0, <1>4, <2>2, <2>3, OtherFlag
<1> QED BY <1>3, <1>4

(* A transfer leaves: of its type every one before was refused. *)
LEMMA TransferSure ==
    ASSUME ClearingTypeOK, NEW t \in Types, Sure(t), t \notin doubtful',
           NEW c \in Clerks, NEW r \in work[c], Transfer(c, r)
    PROVE  Sure(t)'
<1> USE DEF Go
<1> DEFINE n == [type |-> r.type, serial |-> Cardinality(sent) + 1]
<1>0. /\ UNCHANGED <<bankclear, flag, done, refused>> /\ cstage' = [cstage EXCEPT ![c] = "await"]
      /\ work' = [work EXCEPT ![c] = work[c] \ {r}] /\ now' = [now EXCEPT ![c] = n]
      /\ cstage[c] = "clear" /\ r \in bankclear /\ work[c] \subseteq bankclear
      /\ sent' = sent \cup {n} /\ n.type = r.type
  BY DEF Transfer, ClearingTypeOK
<1>1. ASSUME NEW d \in Clerks \ {c}
      PROVE  /\ InsertsRow(d, t)' <=> InsertsRow(d, t)
             /\ Holds(d, t)' <=> Holds(d, t)
             /\ Awaits(d, t)' <=> Awaits(d, t)
             /\ now'[d] = now[d]
  BY <1>0 DEF ClearingTypeOK, InsertsRow, Holds, Awaits, First
<1>2. ~InsertsRow(c, t)' /\ ~InsertsRow(c, t) /\ ~Awaits(c, t) /\ Row(t)' = Row(t)
      /\ Transferred(t) \subseteq Transferred(t)'
  BY <1>0 DEF ClearingTypeOK, InsertsRow, Awaits, Row, Transferred
<1>3. CASE r.type = t
  <2>1. Holds(c, t) /\ r \in Row(t)
    BY <1>0, <1>3 DEF Holds, Row
  <2>2. Live(t) = {} /\ Row(t) \cap flag = {}
    BY <2>1 DEF Sure, OneBusy
  <2>3. Live(t)' \subseteq {n}
    BY <1>0, <2>2 DEF Live
  <2>4. ~Holds(c, t)' /\ now'[c] = n
    BY <1>0, <1>3 DEF ClearingTypeOK, Holds, Sure, OneRow, Row
  <2>5. ASSUME NEW d \in Clerks \ {c} PROVE ~AtTransfer(d, t)'
    <3>1. ~AtTransfer(d, t)
      BY <2>1 DEF Sure, OneBusy, AtTransfer
    <3> QED BY <1>1, <3>1 DEF AtTransfer
  <2>6. OneRow(t)'
    BY <1>1, <1>2, <2>1 DEF Sure, OneRow
  <2>7. OneTransfer(t)'
    BY <1>0, <1>2, <2>2, <2>3 DEF OneTransfer
  <2>8. Awaits(c, t)'
    BY <1>0, <1>3 DEF Awaits, ClearingTypeOK
  <2>9. OneBusy(t)'
    BY <1>0, <1>2, <2>2, <2>3, <2>4, <2>5, <2>8 DEF OneBusy, AtTransfer
  <2> QED BY <2>6, <2>7, <2>9 DEF Sure
<1>4. CASE r.type # t
  <2>1. (Holds(c, t)' <=> Holds(c, t)) /\ ~Awaits(c, t)'
    BY <1>0, <1>4 DEF ClearingTypeOK, Holds, Awaits
  <2>2. Live(t)' = Live(t) /\ Transferred(t)' = Transferred(t)
        /\ \A m \in sent' : m.type = t => m \in sent
    BY <1>0, <1>4 DEF Live, Transferred
  <2>3. ASSUME NEW d \in Clerks
        PROVE  /\ InsertsRow(d, t)' <=> InsertsRow(d, t)
               /\ Holds(d, t)' <=> Holds(d, t)
               /\ Awaits(d, t)' <=> Awaits(d, t)
               /\ Awaits(d, t) => now'[d] = now[d]
    BY <1>1, <1>2, <2>1
  <2>4. OneRow(t)' /\ OneTransfer(t)'
    BY <1>0, <1>2, <2>2, <2>3 DEF Sure, OneRow, OneTransfer
  <2>5. OneBusy(t)'
    BY <1>0, <1>2, <2>2, <2>3 DEF Sure, OneBusy, AtTransfer
  <2> QED BY <2>4, <2>5 DEF Sure
<1> QED BY <1>3, <1>4

(* An answer: a refusal leaves no live transfer, a success flags the row.  *)
LEMMA AnswerSure ==
    ASSUME ClearingTypeOK, NEW t \in Types, Sure(t), t \notin doubtful',
           NEW c \in Clerks, TransferAnswered(c)
    PROVE  Sure(t)'
<1> USE DEF Go, Core, Doubt
<1>0. /\ UNCHANGED <<bankclear, sent, done, refused>> /\ cstage' = [cstage EXCEPT ![c] = "clear"]
      /\ work' = [work EXCEPT ![c] = work[c]] /\ now' = [now EXCEPT ![c] = NoCall]
      /\ cstage[c] = "await" /\ now[c] \in sent
  BY DEF TransferAnswered, ClearingTypeOK
<1>1. ASSUME NEW d \in Clerks
      PROVE  /\ InsertsRow(d, t)' <=> InsertsRow(d, t)
             /\ Holds(d, t)' <=> Holds(d, t)
             /\ Awaits(d, t)' <=> Awaits(d, t) /\ d # c
             /\ d # c => now'[d] = now[d]
  BY <1>0 DEF ClearingTypeOK, InsertsRow, Holds, Awaits, First
<1>2. CASE now[c].type = t
  <2>1. Awaits(c, t) /\ Live(t) \subseteq {now[c]}
    BY <1>0, <1>2 DEF Awaits, Sure, OneBusy
  <2>2. CASE now[c].serial \in refused /\ UNCHANGED flag
    <3>1. Live(t)' = {}
      BY <1>0, <2>1, <2>2 DEF Live
    <3>2. ASSUME NEW d \in Clerks
          PROVE  /\ InsertsRow(d, t)' => InsertsRow(d, t)
                 /\ Holds(d, t)' => Holds(d, t)
                 /\ Awaits(d, t)' => Awaits(d, t) /\ now'[d] = now[d]
                 /\ Awaits(d, t) => Awaits(d, t)' \/ Live(t)' = {}
      BY <1>1, <3>1
    <3> QED BY <1>0, <2>2, <3>2, LetGo
  <2>3. CASE now[c].serial \in done /\ flag' = flag \cup Row(t)
    <3>1. Transferred(t) # {}
      BY <1>0, <1>2, <2>3 DEF Transferred
    <3>2. AtTransfer(c, t)
      BY <2>1 DEF AtTransfer
    <3>3. ASSUME NEW d \in Clerks PROVE ~AtTransfer(d, t)' /\ (InsertsRow(d, t)' => InsertsRow(d, t))
      <4>1. CASE d = c
        BY <1>1, <2>1, <4>1 DEF AtTransfer, Sure, OneBusy
      <4>2. CASE d # c
        <5>1. ~AtTransfer(d, t)
          BY <3>2, <4>2 DEF Sure, OneBusy
        <5> QED BY <1>1, <5>1 DEF AtTransfer
      <4> QED BY <4>1, <4>2
    <3> QED BY <1>0, <2>3, <3>1, <3>2, <3>3, FlagSure
  <2> QED BY <1>2, <2>2, <2>3 DEF TransferAnswered, SetFlag
<1>3. CASE now[c].type # t
  <2>1. flag' = flag \/ flag' = flag \cup Row(now[c].type)
    BY DEF TransferAnswered, SetFlag
  <2>2. ~Awaits(c, t)
    BY <1>3 DEF Awaits
  <2>3. ASSUME NEW d \in Clerks
        PROVE  /\ InsertsRow(d, t)' => InsertsRow(d, t)
               /\ Holds(d, t)' <=> Holds(d, t)
               /\ Awaits(d, t)' <=> Awaits(d, t)
               /\ Awaits(d, t) => now'[d] = now[d]
    BY <1>1, <2>2
  <2> QED BY <1>0, <1>3, <2>1, <2>3, OtherFlag
<1> QED BY <1>2, <1>3

(* No step breaks the invariant. *)
LEMMA ClearingInductive == ClearingSpec => []IInv
<1>1. IInv /\ [ClearingNext]_clearVars => IInv'
  <2> SUFFICES ASSUME IInv, [ClearingNext]_clearVars PROVE IInv'
    OBVIOUS
  <2>1. ClearingTypeOK /\ ClearingTypeOK'
    BY ClearingTypes DEF IInv
  <2>2. doubtful \subseteq doubtful'
    BY DEF ClearingNext, clearVars, Settle, CoreExecute, PF10_903, PF10_904, TransferLost,
           TransferAnswered, Finish, ClerkDies, HasRecord, InsertBankclear, ClearNothing,
           Transfer, SetFlag, Doubt
  <2>3. ASSUME NEW t \in Types \ doubtful' PROVE Sure(t)'
    <3>1. Sure(t)
      BY <2>2 DEF IInv
    <3>2. CASE UNCHANGED clearVars
      BY <3>1, <3>2 DEF clearVars, Sure, OneRow, OneBusy, OneTransfer, Row, Live, Transferred,
                        InsertsRow, First, AtTransfer, Holds, Awaits
    <3>3. CASE ClearingNext
      BY <2>1, <3>1, <3>3, LettingGo, TakeUpSure, AnswerSure, HasRecordSure, InsertSure,
         NothingSure, TransferSure DEF ClearingNext
    <3> QED BY <3>2, <3>3
  <2> QED BY <2>1, <2>3 DEF IInv
<1> QED BY <1>1, ClearingInitIInv, PTL DEF ClearingSpec

(* However often 903 and 904 are asked for, each sum of the round is        *)
(* transferred at most once, and a flagged row was transferred or is        *)
(* nothing, unless something was lost, failed or ran twice at once.         *)
THEOREM TransfersOnce == ClearingSpec => []ClearedOnce
<1>1. IInv => ClearedOnce
  <2> SUFFICES ASSUME IInv, NEW t \in Types \ doubtful
               PROVE  /\ Cardinality(Transferred(t)) <= 1
                      /\ Row(t) \cap flag # {} => t \in Nothing \/ Transferred(t) # {}
    BY DEF ClearedOnce
  <2>1. \A n, m \in Transferred(t) : n = m
    BY DEF IInv, ClearingTypeOK, Sure, OneTransfer, Transferred, Live
  <2>2. CASE Transferred(t) = {}
    BY <2>2, FS_EmptySet DEF IInv, Sure, OneTransfer
  <2>3. CASE Transferred(t) # {}
    <3>1. PICK n \in Transferred(t) : TRUE
      BY <2>3
    <3>2. Transferred(t) = {n}
      BY <2>1, <3>1
    <3>3. Cardinality({n}) = 1
      BY FS_Singleton
    <3> QED BY <3>2, <3>3, <2>3
  <2> QED BY <2>2, <2>3
<1> QED BY <1>1, ClearingInductive, PTL
-----------------------------------------------------------------------------
(* What a reconciliation writes, and its receipt. *)

Copying == {"delJour", "insJour"}
Copied  == {"delSumm", "loadSumm", "delRecon", "insRecon", "rows"}
Done    == {"count", "feesum", "loadFee", "baginfo", "loadBag", "mark"}
Comparing == {"compare", "center", "written"}
SettlePoints == {"idle", "fetch", "receipt"} \cup Copying \cup Copied \cup Done \cup Comparing
Runs == [pc : SettlePoints,
         r : 0..LastRound, mr : 0..LastRound, todo : SUBSET (Txns \cup Kinds),
         sums : SUBSET ((1..LastRound) \X Curs), curs : SUBSET Curs, differs : BOOLEAN,
         center : SUBSET Txns, bank : SUBSET Txns]

SettleTypeOK ==
    /\ msgRound \in 0..LastRound /\ over \subseteq 1..LastRound
    /\ listed \subseteq Txns /\ touched \subseteq Txns
    /\ trn \in [Txns -> {"absent", "unknown", "settled", "failed", "checked"}]
    /\ bankjour \in [Txns -> {"absent", "0", "1"}]
    /\ own \in [Txns -> {"never", "lost", "in", "out"}]
    /\ run \in [Settlers -> Runs]

(* What only the center's rows can be. *)
OfCenter ==
    /\ \A t \in Txns : trn[t] = "checked" \/ bankjour[t] = "1" => t \in listed
    /\ \A p \in Settlers : run[p].pc \in {"rows", "center"} =>
          run[p].todo \subseteq listed \cap RowsOf(run[p].r)

(* Two that are busy with a round are both writing a receipt, or else the   *)
(* round is noted.                                                          *)
Overlaps ==
    \A p, q \in Settlers : p # q /\ run[p].pc # "idle" /\ run[q].pc # "idle" =>
        \A x \in InRound(run[p].r) \cap InRound(run[q].r) :
            x \in overlap \/ (run[p].pc \in Writing /\ run[q].pc \in Writing)

RowsAt(x) == {t \in Txns : TxnRound[t] = x}
SumOf(t)  == <<TxnRound[t], CurOf[t]>>
Clean(x)  == x \notin overlap /\ \A t \in RowsAt(x) : own[t] \in {"in", "out"} /\ t \notin touched
Snapshot(x) == \A t \in RowsAt(x) : bankjour[t] # "absent" <=> own[t] = "in"
SumsAre(x, S) == \A t \in listed \cap RowsAt(x) : SumOf(t) \in S
Settled(x, T) == \A t \in (listed \cap RowsAt(x)) \ T : trn[t] = "checked"

(* How far process p has come with a clean round x. *)
Phase(p, x) ==
    /\ run[p].pc \in Copying \cup Copied => x \notin over
    /\ run[p].pc \in Copying => \A t \in RowsAt(x) : own[t] = "in" <=> trn[t] \in {"settled", "checked"}
    /\ run[p].pc = "insJour" => \A t \in RowsAt(x) : bankjour[t] = "absent"
    /\ run[p].pc \in Copied => Snapshot(x)
    /\ run[p].pc = "loadSumm" => SumsAre(x, ebanksumm \cup run[p].sums)
    /\ run[p].pc \in {"delRecon", "insRecon"} => SumsAre(x, ebanksumm)
    /\ run[p].pc = "rows" => SumsAre(x, reconinfo) /\ Settled(x, run[p].todo)
Works(p) == \A x \in InRound(run[p].r) : Clean(x) => Phase(p, x)

(* A clean round whose reconciliation came to its end. *)
Ended(x) == Snapshot(x) /\ SumsAre(x, reconinfo) /\ Settled(x, {})
Finished == \A x \in over : Clean(x) => Ended(x)

(* The receipt of process p: the kinds compared so far, the rows listed. *)
Counted(p, k) == Cardinality(Having(Own(p), Cur(p), k))
             = Cardinality(Having(listed \cap RowsOf(run[p].r), Cur(p), k))
Receipt(p) ==
    LET L == listed \cap RowsOf(run[p].r) IN
    /\ \A t \in L : SumOf(t) \in run[p].sums
    /\ run[p].pc \in {"compare", "written"} /\ ~run[p].differs =>
          \A k \in Kinds \ run[p].todo : Counted(p, k)
    /\ run[p].pc = "written" => run[p].todo = {}
    /\ run[p].pc = "center" =>
          /\ run[p].differs /\ run[p].todo \subseteq L
          /\ run[p].center = (L \ run[p].todo) \ Own(p)
          /\ \A t \in L \ run[p].todo : t \in Own(p) => bankjour[t] = "1"
    /\ run[p].pc = "written" /\ run[p].differs =>
          run[p].center = L \ Own(p) /\ run[p].bank = Own(p) \ listed
Writes(p) == run[p].pc \in Comparing =>
               /\ run[p].sums \subseteq SumsOf(run[p].r)
               /\ run[p].pc = "compare" => run[p].todo \subseteq Kinds
               /\ Reliable(p) => Receipt(p)

SettleInv == /\ SettleTypeOK /\ OfCenter /\ Overlaps /\ Finished
             /\ \A p \in Settlers : Works(p) /\ Writes(p)

RoundKept(x) ==
    /\ x \in over' => x \in over
    /\ x \in overlap => x \in overlap'
    /\ \A t \in RowsAt(x) :
          /\ own'[t] = own[t] /\ trn'[t] = trn[t] /\ (t \in touched => t \in touched')
          /\ \/ bankjour'[t] = bankjour[t]
             \/ bankjour[t] # "absent" /\ bankjour'[t] = "1"
    /\ \A c \in Curs : /\ <<x, c>> \in ebanksumm => <<x, c>> \in ebanksumm'
                       /\ <<x, c>> \in reconinfo => <<x, c>> \in reconinfo'

LEMMA Rounds ==
    ASSUME NEW r \in 0..LastRound
    PROVE  /\ InRound(r) \subseteq 1..LastRound
           /\ \A t \in Txns : t \in RowsOf(r) <=> TxnRound[t] \in InRound(r)
           /\ RowsOf(r) \subseteq Txns
           /\ \A t \in RowsOf(r) : SumOf(t) \in SumsOf(r)
           /\ SumsOf(r) \subseteq (1..LastRound) \X Curs
           /\ \A x \in InRound(r) : RowsAt(x) \subseteq RowsOf(r)
           /\ \A t \in RowsOf(r) : t \in RowsAt(TxnRound[t])
           /\ DiffFile(r) \subseteq SumsOf(r)
BY SettlementAssumption DEF InRound, RowsOf, SumOf, SumsOf, RowsAt, DiffFile

LEMMA SumIs == ASSUME NEW x, NEW t \in RowsAt(x) PROVE SumOf(t) = <<x, CurOf[t]>> /\ CurOf[t] \in Curs
BY SettlementAssumption DEF RowsAt, SumOf

LEMMA CleanKept == ASSUME NEW x, RoundKept(x), Clean(x)' PROVE Clean(x)
<1>1. RowsAt(x)' = RowsAt(x)
  BY DEF RowsAt
<1> QED BY <1>1 DEF RoundKept, Clean

LEMMA PhaseKept ==
    ASSUME NEW x, NEW p, RoundKept(x), listed' = listed, run'[p] = run[p], Phase(p, x)
    PROVE  Phase(p, x)'
<1>1. RowsAt(x)' = RowsAt(x) /\ \A t : SumOf(t)' = SumOf(t)
  BY DEF RowsAt, SumOf
<1>2. Snapshot(x) => Snapshot(x)'
  BY <1>1 DEF RoundKept, Snapshot
<1>3. \A T : Settled(x, T) => Settled(x, T)'
  BY <1>1 DEF RoundKept, Settled
<1>4. \A t \in listed \cap RowsAt(x) :
         /\ SumOf(t) \in ebanksumm => SumOf(t) \in ebanksumm'
         /\ SumOf(t) \in reconinfo => SumOf(t) \in reconinfo'
  BY SumIs DEF RoundKept
<1>5. /\ run[p].pc = "loadSumm" => \A t \in listed \cap RowsAt(x) : SumOf(t) \in ebanksumm' \cup run[p].sums
      /\ run[p].pc \in {"delRecon", "insRecon"} => \A t \in listed \cap RowsAt(x) : SumOf(t) \in ebanksumm'
      /\ run[p].pc = "rows" => \A t \in listed \cap RowsAt(x) : SumOf(t) \in reconinfo'
  BY <1>4 DEF Phase, SumsAre
<1>6. /\ run[p].pc \in Copying \cup Copied => x \notin over'
      /\ run[p].pc \in Copying => \A t \in RowsAt(x) : own'[t] = "in" <=> trn'[t] \in {"settled", "checked"}
      /\ run[p].pc = "insJour" => \A t \in RowsAt(x) : bankjour'[t] = "absent"
  BY DEF Phase, RoundKept
<1> QED BY <1>1, <1>2, <1>3, <1>5, <1>6 DEF Phase, SumsAre, Copying, Copied

LEMMA EndedKept == ASSUME NEW x, RoundKept(x), listed' = listed, Ended(x) PROVE Ended(x)'
<1>1. RowsAt(x)' = RowsAt(x) /\ \A t : SumOf(t)' = SumOf(t)
  BY DEF RowsAt, SumOf
<1>2. \A t \in listed \cap RowsAt(x) : SumOf(t) \in reconinfo => SumOf(t) \in reconinfo'
  BY SumIs DEF RoundKept
<1> QED BY <1>1, <1>2 DEF Ended, Snapshot, SumsAre, Settled, RoundKept

(* A process that is not moved, and whose rounds are kept. *)
LEMMA WritesKept ==
    ASSUME NEW p \in Settlers, run'[p] = run[p], run[p].r \in 0..LastRound, listed' = listed, Writes(p),
           run[p].pc \in Comparing => \A x \in InRound(run[p].r) : Clean(x)' => RoundKept(x)
    PROVE  Writes(p)'
<1> SUFFICES ASSUME run[p].pc \in Comparing PROVE Writes(p)'
  BY DEF Writes, Comparing
<1> DEFINE r == run[p].r
<1>1. SumsOf(r)' = SumsOf(r) /\ RowsOf(r)' = RowsOf(r) /\ InRound(r)' = InRound(r)
  BY DEF SumsOf, RowsOf, InRound
<1>2. ASSUME Reliable(p)' PROVE Receipt(p)'
  <2>1. /\ overlap' \cap InRound(r) = {} /\ InRound(r) \subseteq over'
        /\ \A t \in RowsOf(r) : own'[t] \in {"in", "out"} /\ t \notin touched'
    BY <1>1, <1>2 DEF Reliable
  <2>2. \A x \in InRound(r) : Clean(x)'
    <3>1. ASSUME NEW x \in InRound(r) PROVE Clean(x)'
      <4>1. RowsAt(x)' = RowsAt(x) /\ RowsAt(x) \subseteq RowsOf(r)
        BY Rounds DEF RowsAt
      <4> QED BY <2>1, <4>1 DEF Clean
    <3> QED BY <3>1
  <2>3. \A t \in RowsOf(r) : \E x \in InRound(r) : t \in RowsAt(x) /\ RoundKept(x) /\ Clean(x)
    BY <2>2, Rounds, CleanKept
  <2>4. /\ \A t \in RowsOf(r) : /\ own'[t] = own[t] /\ own[t] \in {"in", "out"} /\ t \notin touched
                                /\ bankjour[t] = "1" => bankjour'[t] = "1"
        /\ \A x \in InRound(r) : x \in over /\ x \notin overlap
    BY <2>1, <2>2, <2>3 DEF RoundKept, Clean
  <2>5. Reliable(p)
    BY <2>4 DEF Reliable
  <2>6. Own(p)' = Own(p) /\ Own(p) \subseteq RowsOf(r)
    BY <1>1, <2>4 DEF Own
  <2>7. Cur(p)' = Cur(p) /\ \A k : Counted(p, k)' <=> Counted(p, k)
    BY <1>1, <2>6 DEF Cur, Counted, Having
  <2>8. Receipt(p)
    BY <2>5 DEF Writes
  <2> QED BY <1>1, <2>4, <2>6, <2>7, <2>8 DEF Receipt, SumOf
<1> QED BY <1>1, <1>2 DEF Writes, Comparing

LEMMA OverlapsKept ==
    ASSUME Overlaps, NEW p \in Settlers, overlap \subseteq overlap',
           \A q \in Settlers \ {p} : run'[q] = run[q],
           \/ run'[p].pc = "idle"
           \/ /\ run[p].pc # "idle" /\ run'[p].r = run[p].r
              /\ run[p].pc \in Writing => run'[p].pc \in Writing
           \/ \A q \in Settlers \ {p} : run[q].pc # "idle" =>
                 \A x \in InRound(run'[p].r) \cap InRound(run[q].r) :
                    x \in overlap' \/ (run[q].pc \in Writing /\ run'[p].pc \in Writing)
    PROVE  Overlaps'
<1>1. \A r : InRound(r)' = InRound(r)
  BY DEF InRound
<1>2. ASSUME NEW q \in Settlers \ {p}, run'[p].pc # "idle", run'[q].pc # "idle",
             NEW x, x \in InRound(run'[p].r) \cap InRound(run'[q].r)
      PROVE  x \in overlap' \/ (run'[p].pc \in Writing /\ run'[q].pc \in Writing)
  BY <1>2 DEF Overlaps
<1>3. ASSUME NEW q \in Settlers \ {p}, NEW s \in Settlers \ {p}, q # s, run'[s].pc # "idle", run'[q].pc # "idle",
             NEW x, x \in InRound(run'[s].r) \cap InRound(run'[q].r)
      PROVE  x \in overlap' \/ (run'[s].pc \in Writing /\ run'[q].pc \in Writing)
  BY <1>3 DEF Overlaps
<1> QED BY <1>1, <1>2, <1>3 DEF Overlaps, Writing

(* What the processes of M write concerns no clean round of another.        *)
LEMMA SettleMoves ==
    ASSUME SettleInv, NEW M \in SUBSET Settlers, listed' = listed, SettleTypeOK', OfCenter', Overlaps',
           overlap \subseteq overlap', \A q \in Settlers \ M : run'[q] = run[q],
           \A x \in 1..LastRound : Clean(x)' => RoundKept(x) \/
              \E p \in M : run[p].pc \notin Writing \cup {"idle"} /\ x \in InRound(run[p].r),
           \A x \in 1..LastRound : x \in over' /\ Clean(x)' /\ ~RoundKept(x) => Ended(x)',
           over' \subseteq 1..LastRound,
           \A p \in M : Works(p)' /\ Writes(p)'
    PROVE  SettleInv'
<1>1. Finished'
  <2> SUFFICES ASSUME NEW x \in over', Clean(x)', RoundKept(x) PROVE Ended(x)'
    BY DEF Finished
  <2>1. x \in over /\ Clean(x)
    BY CleanKept DEF RoundKept
  <2> QED BY <2>1, EndedKept DEF SettleInv, Finished
<1>2. ASSUME NEW q \in Settlers \ M PROVE Works(q)' /\ Writes(q)'
  <2>1. run[q].r \in 0..LastRound /\ Works(q) /\ Writes(q)
    BY DEF SettleInv, SettleTypeOK, Runs
  <2>2. ASSUME NEW x \in InRound(run[q].r), Clean(x)', run[q].pc # "idle" PROVE RoundKept(x)
    <3>1. x \in 1..LastRound /\ x \notin overlap
      BY <2>1, <2>2, Rounds DEF Clean
    <3>2. ASSUME NEW p \in M, run[p].pc \notin Writing \cup {"idle"}, x \in InRound(run[p].r) PROVE FALSE
      BY <2>2, <3>1, <3>2 DEF SettleInv, Overlaps
    <3> QED BY <2>2, <3>1, <3>2
  <2>3. Writes(q)'
    BY <2>1, <2>2, WritesKept DEF Comparing
  <2>4. ASSUME NEW x \in InRound(run[q].r), Clean(x)' PROVE Phase(q, x)'
    <3>1. CASE run[q].pc = "idle"
      BY <3>1 DEF Phase, Copying, Copied
    <3>2. CASE run[q].pc # "idle"
      <4>1. RoundKept(x) /\ Clean(x)
        BY <2>2, <2>4, <3>2, CleanKept
      <4> QED BY <2>1, <4>1, PhaseKept DEF Works
    <3> QED BY <3>1, <3>2
  <2>5. run'[q] = run[q] /\ \A r : InRound(r)' = InRound(r)
    BY DEF InRound
  <2> QED BY <2>3, <2>4, <2>5 DEF Works
<1> QED BY <1>1, <1>2 DEF SettleInv

(* A step of one process that writes nothing a receipt depends on.          *)
LEMMA QuietStep ==
    ASSUME SettleInv, NEW p \in Settlers, msgRound' \in 0..LastRound, run' \in [Settlers -> Runs],
           UNCHANGED <<listed, journal, bankjour, ebanksumm, reconinfo, own>>,
           overlap \subseteq overlap', Overlaps', \A q \in Settlers \ {p} : run'[q] = run[q],
           run'[p].pc \in {"rows", "center"} => run'[p].todo \subseteq listed \cap RowsOf(run'[p].r),
           Works(p)' /\ Writes(p)'
    PROVE  SettleInv'
<1>1. SettleTypeOK'
  BY DEF SettleInv, SettleTypeOK, journal
<1>2. OfCenter'
  BY DEF SettleInv, OfCenter, RowsOf, InRound, journal
<1>3. \A x : RoundKept(x)
  BY DEF RoundKept, journal
<1>4. over' \subseteq 1..LastRound
  BY DEF SettleInv, SettleTypeOK, journal
<1> QED BY <1>1, <1>2, <1>3, <1>4, SettleMoves, {p} \in SUBSET Settlers DEF journal

(* Points at which nothing is claimed of the process.                       *)
LEMMA NoClaim ==
    ASSUME NEW p, run'[p].pc \in {"idle", "fetch", "receipt"} \cup Done
    PROVE  Works(p)' /\ Writes(p)' /\ run'[p].pc \notin {"rows", "center"}
BY DEF Works, Writes, Phase, Copying, Copied, Comparing, Done

LEMMA PointsInOrder ==
    /\ PointAfter("delJour") = "insJour" /\ PointAfter("insJour") = "delSumm"
    /\ PointAfter("delSumm") = "loadSumm" /\ PointAfter("loadSumm") = "delRecon"
    /\ PointAfter("delRecon") = "insRecon" /\ PointAfter("insRecon") = "rows"
    /\ PointAfter("rows") = "count" /\ PointAfter("count") = "feesum"
    /\ PointAfter("feesum") = "loadFee" /\ PointAfter("loadFee") = "baginfo"
    /\ PointAfter("baginfo") = "loadBag" /\ PointAfter("loadBag") = "mark"
    /\ SettleSvr[1] = "delJour"
<1>1. /\ DOMAIN SettleSvr = 1..13
      /\ SettleSvr[1] = "delJour" /\ SettleSvr[2] = "insJour" /\ SettleSvr[3] = "delSumm"
      /\ SettleSvr[4] = "loadSumm" /\ SettleSvr[5] = "delRecon" /\ SettleSvr[6] = "insRecon"
      /\ SettleSvr[7] = "rows" /\ SettleSvr[8] = "count" /\ SettleSvr[9] = "feesum"
      /\ SettleSvr[10] = "loadFee" /\ SettleSvr[11] = "baginfo" /\ SettleSvr[12] = "loadBag"
      /\ SettleSvr[13] = "mark"
  BY DEF SettleSvr
<1>2. \A i \in 1..13 : i = 1 \/ i = 2 \/ i = 3 \/ i = 4 \/ i = 5 \/ i = 6 \/ i = 7 \/ i = 8
         \/ i = 9 \/ i = 10 \/ i = 11 \/ i = 12 \/ i = 13
  OBVIOUS
<1>3. \A i, j \in 1..13 : SettleSvr[i] = SettleSvr[j] => i = j
  BY <1>1, <1>2
<1>4. ASSUME NEW i \in 1..12 PROVE PointAfter(SettleSvr[i]) = SettleSvr[i + 1]
  BY <1>1, <1>3 DEF PointAfter
<1>5. /\ PointAfter(SettleSvr[1]) = SettleSvr[2] /\ PointAfter(SettleSvr[2]) = SettleSvr[3]
      /\ PointAfter(SettleSvr[3]) = SettleSvr[4] /\ PointAfter(SettleSvr[4]) = SettleSvr[5]
      /\ PointAfter(SettleSvr[5]) = SettleSvr[6] /\ PointAfter(SettleSvr[6]) = SettleSvr[7]
      /\ PointAfter(SettleSvr[7]) = SettleSvr[8] /\ PointAfter(SettleSvr[8]) = SettleSvr[9]
      /\ PointAfter(SettleSvr[9]) = SettleSvr[10] /\ PointAfter(SettleSvr[10]) = SettleSvr[11]
      /\ PointAfter(SettleSvr[11]) = SettleSvr[12] /\ PointAfter(SettleSvr[12]) = SettleSvr[13]
  BY <1>4
<1> QED BY <1>1, <1>5

LEMMA PcIs ==
    ASSUME SettleTypeOK, NEW p \in Settlers, NEW s \in SettlePoints,
           run' = [run EXCEPT ![p].pc = s]
    PROVE  /\ run' \in [Settlers -> Runs] /\ \A q \in Settlers \ {p} : run'[q] = run[q]
           /\ run'[p] = [run[p] EXCEPT !.pc = s] /\ run'[p].pc = s
           /\ run'[p].r = run[p].r /\ run'[p].todo = run[p].todo /\ run'[p].sums = run[p].sums
           /\ run'[p].curs = run[p].curs /\ run'[p].differs = run[p].differs
           /\ run'[p].center = run[p].center /\ run'[p].bank = run[p].bank
BY DEF SettleTypeOK, Runs

LEMMA PointNames ==
    /\ \A s \in {"idle", "fetch", "receipt", "delJour", "insJour", "delSumm", "loadSumm",
                  "delRecon", "insRecon", "rows", "compare", "center", "written"} : s \in SettlePoints
    /\ \A s \in Done : s \in SettlePoints
BY DEF SettlePoints, Copying, Copied, Done, Comparing

LEMMA StopIs ==
    ASSUME SettleTypeOK, NEW p \in Settlers, Stop(p)
    PROVE  /\ run' \in [Settlers -> Runs] /\ \A q \in Settlers \ {p} : run'[q] = run[q]
           /\ run'[p] = Resting /\ run'[p].pc = "idle"
<1>1. Resting \in Runs /\ Resting.pc = "idle"
  BY SettlementAssumption, PointNames DEF Resting, Runs
<1> QED BY <1>1 DEF SettleTypeOK, Stop, Becomes

(* A process goes to a point at which nothing is claimed of it.             *)
LEMMA Goes ==
    ASSUME SettleInv, NEW p \in Settlers, run' \in [Settlers -> Runs],
           UNCHANGED <<msgRound, listed, journal, bankjour, ebanksumm, reconinfo, own, overlap>>,
           \A q \in Settlers \ {p} : run'[q] = run[q],
           run'[p].pc \in {"idle", "fetch", "receipt"} \cup Done,
           \/ run'[p].pc = "idle"
           \/ /\ run[p].pc # "idle" /\ run'[p].r = run[p].r
              /\ run[p].pc \notin Writing
    PROVE  SettleInv'
<1>1. Overlaps'
  BY OverlapsKept DEF SettleInv
<1>2. msgRound' \in 0..LastRound
  BY DEF SettleInv, SettleTypeOK
<1> QED BY <1>1, <1>2, NoClaim, QuietStep

LEMMA StopInv ==
    ASSUME SettleInv, NEW p \in Settlers, Stop(p),
           UNCHANGED <<msgRound, listed, journal, bankjour, ebanksumm, reconinfo, own, overlap>>
    PROVE  SettleInv'
BY StopIs, Goes DEF SettleInv

LEMMA GoInv ==
    ASSUME SettleInv, NEW p \in Settlers, NEW s \in {"receipt"} \cup Done,
           run' = [run EXCEPT ![p].pc = s], run[p].pc # "idle", run[p].pc \notin Writing,
           UNCHANGED <<msgRound, listed, journal, bankjour, ebanksumm, reconinfo, own, overlap>>
    PROVE  SettleInv'
<1>1. s \in SettlePoints
  BY PointNames
<1>2. /\ run' \in [Settlers -> Runs] /\ \A q \in Settlers \ {p} : run'[q] = run[q]
      /\ run'[p].pc = s /\ run'[p].r = run[p].r
  BY <1>1, PcIs DEF SettleInv
<1> QED BY <1>2, Goes

(* A reconciliation begins: if another is busy with its round, it is noted. *)
LEMMA StartOnInv ==
    ASSUME SettleInv, NEW p \in Settlers, NEW r \in 0..LastRound, At(p, "idle"),
           msgRound' \in 0..LastRound, StartOn(p, r),
           UNCHANGED <<listed, journal, tables, own>>
    PROVE  SettleInv'
<1> DEFINE m == [Resting EXCEPT !.pc = "fetch", !.r = r, !.mr = msgRound']
<1>1. m \in Runs /\ m.pc = "fetch" /\ m.r = r
  BY SettlementAssumption, PointNames DEF Resting, Runs
<1>2. run' = [run EXCEPT ![p] = m]
  BY DEF StartOn
<1> HIDE DEF m
<1>3. /\ run' \in [Settlers -> Runs] /\ \A q \in Settlers \ {p} : run'[q] = run[q]
      /\ run'[p].pc = "fetch" /\ run'[p].r = r
  BY <1>1, <1>2 DEF SettleInv, SettleTypeOK
<1>4. overlap \subseteq overlap' /\ \A q \in Settlers \ {p} : Busy(q, r) => InRound(r) \subseteq overlap'
  BY DEF StartOn, Collide
<1>5. Overlaps'
  BY <1>3, <1>4, OverlapsKept DEF Busy, SettleInv
<1>6. UNCHANGED <<bankjour, ebanksumm, reconinfo>>
  BY DEF tables
<1> QED BY <1>3, <1>4, <1>5, <1>6, NoClaim, QuietStep

LEMMA StartsInv ==
    ASSUME SettleInv, NEW p \in Settlers, PF_1604(p) \/ \E r \in 0..LastRound : PF_1605(p, r)
    PROVE  SettleInv'
<1>1. msgRound \in 0..LastRound /\ LastRound \in Nat
  BY SettlementAssumption DEF SettleInv, SettleTypeOK
<1>2. CASE PF_1604(p)
  <2>1. msgRound' \in 0..LastRound
    BY <1>1, <1>2 DEF PF_1604
  <2> QED BY <1>2, <2>1, StartOnInv DEF PF_1604
<1>3. ASSUME NEW r \in 0..LastRound, PF_1605(p, r) PROVE SettleInv'
  <2>1. msgRound' \in 0..LastRound
    BY <1>1, <1>3 DEF PF_1605
  <2> QED BY <1>3, <2>1, StartOnInv DEF PF_1605
<1> QED BY <1>2, <1>3

(* A step of a reconciliation that writes rows or sums of its rounds.       *)
LEMMA WriterStep ==
    ASSUME SettleInv, NEW p \in Settlers, run[p].pc \in {"fetch"} \cup Copying \cup Copied,
           SettleTypeOK', OfCenter', listed' = listed, overlap' = overlap,
           \A q \in Settlers \ {p} : run'[q] = run[q],
           run'[p].r = run[p].r, run'[p].pc \notin Comparing,
           \A x \in (1..LastRound) \ InRound(run[p].r) : RoundKept(x),
           \A x \in InRound(run[p].r) : Clean(x)' => x \notin over' \/ Ended(x)',
           \A x \in InRound(run[p].r) : Clean(x)' => Phase(p, x)'
    PROVE  SettleInv'
<1>1. run[p].pc # "idle" /\ run[p].pc \notin Writing
  BY DEF Copying, Copied, Writing
<1>2. Overlaps'
  BY <1>1, OverlapsKept DEF SettleInv
<1>3. Works(p)'
  BY DEF Works, InRound
<1>4. Writes(p)'
  BY DEF Writes, Comparing
<1>5. over' \subseteq 1..LastRound
  BY DEF SettleTypeOK
<1>6. \A x \in 1..LastRound : Clean(x)' => RoundKept(x) \/
              \E q \in {p} : run[q].pc \notin Writing \cup {"idle"} /\ x \in InRound(run[q].r)
  BY <1>1
<1> QED BY <1>2, <1>3, <1>4, <1>5, <1>6, SettleMoves, {p} \in SUBSET Settlers

(* While the bank's rows are written the rounds are not over.               *)
LEMMA NotOver ==
    ASSUME SettleInv, NEW p \in Settlers, run[p].pc \in Copying \cup Copied
    PROVE  \A x \in InRound(run[p].r) : Clean(x) => x \notin over /\ Phase(p, x)
BY DEF SettleInv, Works, Phase

LEMMA CleanSame ==
    ASSUME UNCHANGED <<own, touched, overlap>>
    PROVE  \A x : (Clean(x)' <=> Clean(x)) /\ RowsAt(x)' = RowsAt(x)
BY DEF Clean, RowsAt

LEMMA Elsewhere ==
    ASSUME NEW r \in 0..LastRound, NEW x \in (1..LastRound) \ InRound(r)
    PROVE  /\ \A t \in RowsAt(x) : t \in Txns /\ t \notin RowsOf(r)
           /\ \A c \in Curs : <<x, c>> \notin SumsOf(r)
BY DEF RowsAt, RowsOf, SumsOf

(* The files are there: what trnjour says is the bank's own view of the     *)
(* rows no reconciliation has written.                                      *)
LEMMA FilesInv == ASSUME SettleInv, NEW p \in Settlers, FilesFetched(p) PROVE SettleInv'
<1> DEFINE r == run[p].r
           R == RowsOf(r)
<1>1. /\ run[p].pc = "fetch" /\ UNCHANGED <<marks, listed, tables, overlap, trn, wrote>>
      /\ \/ run' = [run EXCEPT ![p].pc = "mark"] /\ UNCHANGED <<own, journal>>
         \/ /\ run' = [run EXCEPT ![p].pc = "delJour"]
            /\ own' = [t \in Txns |-> IF t \notin R THEN own[t]
                                      ELSE IF t \in wrote THEN "lost"
                                      ELSE IF trn[t] \in {"settled", "checked"} THEN "in" ELSE "out"]
            /\ touched' = touched \ R /\ over' = over \ InRound(r)
  BY PointsInOrder DEF FilesFetched, At, journal
<1>2. r \in 0..LastRound /\ SettleTypeOK
  BY DEF SettleInv, SettleTypeOK, Runs
<1>3. CASE run' = [run EXCEPT ![p].pc = "mark"] /\ UNCHANGED <<own, journal>>
  BY <1>1, <1>3, GoInv DEF marks, tables, Writing, Done
<1>4. CASE /\ run' = [run EXCEPT ![p].pc = "delJour"]
           /\ own' = [t \in Txns |-> IF t \notin R THEN own[t]
                                     ELSE IF t \in wrote THEN "lost"
                                     ELSE IF trn[t] \in {"settled", "checked"} THEN "in" ELSE "out"]
           /\ touched' = touched \ R /\ over' = over \ InRound(r)
  <2>1. /\ run' \in [Settlers -> Runs] /\ \A q \in Settlers \ {p} : run'[q] = run[q]
        /\ run'[p].pc = "delJour" /\ run'[p].r = r /\ run'[p].pc \notin Comparing
    BY <1>2, <1>4, PcIs, PointNames DEF Comparing
  <2>2. /\ \A t \in Txns \ R : own'[t] = own[t]
        /\ \A t \in R : t \in Txns /\ (own'[t] \in {"in", "out"} => (own'[t] = "in" <=> trn[t] \in {"settled", "checked"}))
        /\ own' \in [Txns -> {"never", "lost", "in", "out"}]
    BY <1>2, <1>4, Rounds DEF SettleTypeOK
  <2>3. SettleTypeOK'
    BY <1>1, <1>2, <1>4, <2>1, <2>2 DEF SettleTypeOK, marks, tables
  <2>4. OfCenter'
    BY <1>1, <2>1 DEF SettleInv, OfCenter, RowsOf, InRound, tables
  <2>5. ASSUME NEW x \in (1..LastRound) \ InRound(r) PROVE RoundKept(x)
    <3>1. \A t \in RowsAt(x) : t \in Txns /\ t \notin R
      BY <1>2, <2>5, Elsewhere
    <3> QED BY <1>1, <1>4, <2>2, <3>1 DEF RoundKept, tables
  <2>6. ASSUME NEW x \in InRound(r), Clean(x)' PROVE x \notin over' /\ Phase(p, x)'
    <3>1. RowsAt(x)' = RowsAt(x) /\ RowsAt(x) \subseteq R
      BY <1>2, Rounds DEF RowsAt
    <3>2. \A t \in RowsAt(x) : own'[t] = "in" <=> trn'[t] \in {"settled", "checked"}
      BY <1>1, <2>2, <2>6, <3>1 DEF Clean
    <3>3. x \notin over'
      BY <1>4
    <3> QED BY <2>1, <3>1, <3>2, <3>3 DEF Phase, Copying, Copied
  <2> QED BY <1>1, <2>1, <2>3, <2>4, <2>5, <2>6, WriterStep
<1> QED BY <1>1, <1>3, <1>4

(* bankjour: deleted, then filled with what was settled. *)
LEMMA DeleteBankJourInv == ASSUME SettleInv, NEW p \in Settlers, DeleteBankJour(p) PROVE SettleInv'
<1> DEFINE r == run[p].r
<1>1. /\ run[p].pc = "delJour" /\ run' = [run EXCEPT ![p].pc = "insJour"]
      /\ bankjour' = [t \in Txns |-> IF t \in RowsOf(r) THEN "absent" ELSE bankjour[t]]
      /\ UNCHANGED <<msgRound, listed, trn, wrote, touched, over, own, overlap, ebanksumm, reconinfo>>
  BY PointsInOrder DEF DeleteBankJour, At, Kept, marks, journal, Continue
<1>2. r \in 0..LastRound /\ SettleTypeOK
  BY DEF SettleInv, SettleTypeOK, Runs
<1>3. /\ run' \in [Settlers -> Runs] /\ \A q \in Settlers \ {p} : run'[q] = run[q]
      /\ run'[p].pc = "insJour" /\ run'[p].r = r /\ run'[p].pc \notin Comparing
  BY <1>1, <1>2, PcIs, PointNames DEF Comparing
<1>4. SettleTypeOK'
  BY <1>1, <1>2, <1>3 DEF SettleTypeOK
<1>5. OfCenter'
  BY <1>1, <1>2, <1>3 DEF SettleInv, SettleTypeOK, OfCenter, RowsOf, InRound
<1>6. ASSUME NEW x \in (1..LastRound) \ InRound(r) PROVE RoundKept(x)
  BY <1>1, <1>2, <1>6, Elsewhere DEF RoundKept
<1>7. ASSUME NEW x \in InRound(r), Clean(x)' PROVE x \notin over' /\ Phase(p, x)'
  <2>1. RowsAt(x)' = RowsAt(x) /\ RowsAt(x) \subseteq RowsOf(r) /\ RowsOf(r) \subseteq Txns
    BY <1>2, Rounds DEF RowsAt
  <2>2. x \notin over /\ Phase(p, x)
    BY <1>1, <1>7, NotOver, CleanSame DEF Copying
  <2> QED BY <1>1, <1>3, <2>1, <2>2 DEF Phase, Copying, Copied
<1> QED BY <1>1, <1>3, <1>4, <1>5, <1>6, <1>7, WriterStep DEF Copying

LEMMA InsertBankJourInv == ASSUME SettleInv, NEW p \in Settlers, InsertBankJour(p) PROVE SettleInv'
<1> DEFINE r == run[p].r
           S == {t \in RowsOf(r) : trn[t] \in {"settled", "checked"}}
<1>1. /\ run[p].pc = "insJour"
      /\ UNCHANGED <<msgRound, listed, trn, wrote, touched, over, own, overlap, ebanksumm, reconinfo>>
      /\ \/ Stop(p) /\ UNCHANGED bankjour
         \/ /\ bankjour' = [t \in Txns |-> IF t \in S THEN "0" ELSE bankjour[t]]
            /\ run' = [run EXCEPT ![p].pc = "delSumm"]
  BY PointsInOrder DEF InsertBankJour, At, Kept, marks, journal, Continue
<1>2. r \in 0..LastRound /\ SettleTypeOK
  BY DEF SettleInv, SettleTypeOK, Runs
<1>3. CASE Stop(p) /\ UNCHANGED bankjour
  BY <1>1, <1>3, StopInv DEF journal
<1>4. CASE /\ bankjour' = [t \in Txns |-> IF t \in S THEN "0" ELSE bankjour[t]]
           /\ run' = [run EXCEPT ![p].pc = "delSumm"]
  <2>1. /\ run' \in [Settlers -> Runs] /\ \A q \in Settlers \ {p} : run'[q] = run[q]
        /\ run'[p].pc = "delSumm" /\ run'[p].r = r /\ run'[p].pc \notin Comparing
    BY <1>2, <1>4, PcIs, PointNames DEF Comparing
  <2>2. SettleTypeOK'
    BY <1>1, <1>2, <1>4, <2>1 DEF SettleTypeOK
  <2>3. OfCenter'
    BY <1>1, <1>2, <1>4, <2>1 DEF SettleInv, SettleTypeOK, OfCenter, RowsOf, InRound
  <2>4. ASSUME NEW x \in (1..LastRound) \ InRound(r) PROVE RoundKept(x)
    BY <1>1, <1>2, <1>4, <2>4, Elsewhere DEF RoundKept
  <2>5. ASSUME NEW x \in InRound(r), Clean(x)' PROVE x \notin over' /\ Phase(p, x)'
    <3>1. RowsAt(x)' = RowsAt(x) /\ RowsAt(x) \subseteq RowsOf(r) /\ RowsOf(r) \subseteq Txns
      BY <1>2, Rounds DEF RowsAt
    <3>2. x \notin over /\ Phase(p, x)
      BY <1>1, <2>5, NotOver, CleanSame DEF Copying
    <3>3. \A t \in RowsAt(x) : bankjour'[t] # "absent" <=> own'[t] = "in"
      BY <1>1, <1>4, <3>1, <3>2 DEF Phase, Copying
    <3> QED BY <1>1, <2>1, <3>1, <3>2, <3>3 DEF Phase, Copying, Copied, Snapshot
  <2> QED BY <1>1, <2>1, <2>2, <2>3, <2>4, <2>5, WriterStep DEF Copying
<1> QED BY <1>1, <1>3, <1>4

LEMMA BecomesIs ==
    ASSUME SettleTypeOK, NEW p \in Settlers, NEW m \in Runs, Becomes(p, m)
    PROVE  /\ run' \in [Settlers -> Runs] /\ \A q \in Settlers \ {p} : run'[q] = run[q]
           /\ run'[p] = m
BY DEF SettleTypeOK, Becomes

(* The sums of the rounds: those of the list are in the file. *)
LEMMA DeleteSumsInv == ASSUME SettleInv, NEW p \in Settlers, DeleteSums(p) PROVE SettleInv'
<1> DEFINE me == run[p]
           r == me.r
           m == [me EXCEPT !.pc = "loadSumm", !.sums = DiffFile(r)]
<1>1. /\ run[p].pc = "delSumm" /\ ebanksumm' = ebanksumm \ SumsOf(r)
      /\ Becomes(p, m)
      /\ UNCHANGED <<msgRound, listed, trn, wrote, touched, over, own, overlap, bankjour, reconinfo>>
  BY PointsInOrder DEF DeleteSums, At, Kept, marks, journal
<1>2. r \in 0..LastRound /\ SettleTypeOK
  BY DEF SettleInv, SettleTypeOK, Runs
<1>3. DiffFile(r) \in SUBSET ((1..LastRound) \X Curs)
  BY <1>2, Rounds
<1>4. /\ run' \in [Settlers -> Runs] /\ \A q \in Settlers \ {p} : run'[q] = run[q]
      /\ run'[p].pc = "loadSumm" /\ run'[p].r = r /\ run'[p].sums = DiffFile(r)
  <2>1. me \in Runs
    BY <1>2 DEF SettleTypeOK
  <2>2. m \in Runs /\ m.pc = "loadSumm" /\ m.r = r /\ m.sums = DiffFile(r)
    <3> HIDE DEF me
    <3> QED BY <1>3, <2>1, PointNames DEF Runs
  <2> HIDE DEF m
  <2> QED BY <1>1, <1>2, <2>2, BecomesIs
<1>5. SettleTypeOK'
  BY <1>1, <1>2, <1>4 DEF SettleTypeOK
<1>6. OfCenter'
  BY <1>1, <1>4 DEF SettleInv, OfCenter, RowsOf, InRound
<1>7. ASSUME NEW x \in (1..LastRound) \ InRound(r) PROVE RoundKept(x)
  BY <1>1, <1>2, <1>7, Elsewhere DEF RoundKept
<1>8. ASSUME NEW x \in InRound(r), Clean(x)' PROVE x \notin over' /\ Phase(p, x)'
  <2>1. RowsAt(x)' = RowsAt(x) /\ RowsAt(x) \subseteq RowsOf(r)
    BY <1>2, Rounds DEF RowsAt
  <2>2. x \notin over /\ Snapshot(x)
    BY <1>1, <1>8, NotOver, CleanSame DEF Copied, Phase
  <2>3. \A t \in listed \cap RowsAt(x) : SumOf(t) \in DiffFile(r)
    BY <1>2, <2>1, Rounds DEF DiffFile, SumOf
  <2>4. SumsAre(x, ebanksumm \cup run[p].sums)'
    BY <1>1, <1>4, <2>1, <2>3 DEF SumsAre, SumOf
  <2>5. Snapshot(x)'
    BY <1>1, <2>1, <2>2 DEF Snapshot
  <2> QED BY <1>1, <1>4, <2>2, <2>4, <2>5 DEF Phase, Copying, Copied
<1> QED BY <1>1, <1>4, <1>5, <1>6, <1>7, <1>8, WriterStep DEF Copied, Comparing

LEMMA LoadSumInv == ASSUME SettleInv, NEW p \in Settlers, LoadSum(p) PROVE SettleInv'
<1> DEFINE r == run[p].r
<1>1. /\ run[p].pc = "loadSumm"
      /\ UNCHANGED <<msgRound, listed, trn, wrote, touched, over, own, overlap, bankjour, reconinfo>>
  BY DEF LoadSum, At, Kept, marks, journal
<1>2. /\ r \in 0..LastRound /\ SettleTypeOK
      /\ run[p].sums \in SUBSET ((1..LastRound) \X Curs)
  BY DEF SettleInv, SettleTypeOK, Runs
<1>3. CASE Stop(p) /\ UNCHANGED ebanksumm
  BY <1>1, <1>3, StopInv DEF journal
<1>4. CASE \/ run[p].sums = {} /\ run' = [run EXCEPT ![p].pc = "delRecon"] /\ UNCHANGED ebanksumm
           \/ \E s \in run[p].sums : /\ ebanksumm' = ebanksumm \cup {s}
                                     /\ run' = [run EXCEPT ![p].sums = @ \ {s}]
  <2> DEFINE Loaded ==
        /\ run' \in [Settlers -> Runs] /\ \A q \in Settlers \ {p} : run'[q] = run[q]
        /\ run'[p].r = r /\ ebanksumm \subseteq ebanksumm'
        /\ run'[p].pc \in {"loadSumm", "delRecon"}
        /\ run[p].sums \subseteq ebanksumm' \cup run'[p].sums
        /\ run'[p].pc = "delRecon" => run[p].sums \subseteq ebanksumm'
  <2>1. Loaded
    <3>1. CASE run[p].sums = {} /\ run' = [run EXCEPT ![p].pc = "delRecon"] /\ UNCHANGED ebanksumm
      BY <1>2, <3>1, PcIs, PointNames
    <3>2. ASSUME NEW s \in run[p].sums, ebanksumm' = ebanksumm \cup {s},
                 run' = [run EXCEPT ![p].sums = @ \ {s}]
          PROVE  Loaded
      BY <1>1, <1>2, <3>2 DEF SettleTypeOK, Runs
    <3> QED BY <1>4, <3>1, <3>2
  <2>2. SettleTypeOK'
    BY <1>1, <1>2, <2>1 DEF SettleTypeOK
  <2>3. OfCenter'
    BY <1>1, <2>1 DEF SettleInv, OfCenter, RowsOf, InRound
  <2>4. ASSUME NEW x \in 1..LastRound PROVE RoundKept(x)
    BY <1>1, <2>1 DEF RoundKept
  <2>5. ASSUME NEW x \in InRound(r), Clean(x)' PROVE x \notin over' /\ Phase(p, x)'
    <3>1. RowsAt(x)' = RowsAt(x)
      BY DEF RowsAt
    <3>2. x \notin over /\ Snapshot(x) /\ SumsAre(x, ebanksumm \cup run[p].sums)
      BY <1>1, <2>5, NotOver, CleanSame DEF Copied, Phase
    <3>3. /\ SumsAre(x, ebanksumm \cup run[p].sums)'
          /\ run'[p].pc = "delRecon" => SumsAre(x, ebanksumm)'
      BY <1>1, <2>1, <3>1, <3>2 DEF SumsAre, SumOf
    <3>4. Snapshot(x)'
      BY <1>1, <3>1, <3>2 DEF Snapshot
    <3> QED BY <1>1, <2>1, <3>2, <3>3, <3>4 DEF Phase, Copying, Copied
  <2> QED BY <1>1, <2>1, <2>2, <2>3, <2>4, <2>5, WriterStep DEF Copied, Comparing
<1> QED BY <1>3, <1>4, <1>1, PointsInOrder DEF LoadSum, Continue

LEMMA DeleteReconInv == ASSUME SettleInv, NEW p \in Settlers, DeleteReconInfo(p) PROVE SettleInv'
<1> DEFINE r == run[p].r
<1>1. /\ run[p].pc = "delRecon" /\ reconinfo' = reconinfo \ SumsOf(r)
      /\ run' = [run EXCEPT ![p].pc = "insRecon"]
      /\ UNCHANGED <<msgRound, listed, trn, wrote, touched, over, own, overlap, bankjour, ebanksumm>>
  BY PointsInOrder DEF DeleteReconInfo, At, Kept, marks, journal, Continue
<1>2. r \in 0..LastRound /\ SettleTypeOK
  BY DEF SettleInv, SettleTypeOK, Runs
<1>3. /\ run' \in [Settlers -> Runs] /\ \A q \in Settlers \ {p} : run'[q] = run[q]
      /\ run'[p].pc = "insRecon" /\ run'[p].r = r
  BY <1>1, <1>2, PcIs, PointNames
<1>4. SettleTypeOK'
  BY <1>1, <1>2, <1>3 DEF SettleTypeOK
<1>5. OfCenter'
  BY <1>1, <1>3 DEF SettleInv, OfCenter, RowsOf, InRound
<1>6. ASSUME NEW x \in (1..LastRound) \ InRound(r) PROVE RoundKept(x)
  BY <1>1, <1>2, <1>6, Elsewhere DEF RoundKept
<1>7. ASSUME NEW x \in InRound(r), Clean(x)' PROVE x \notin over' /\ Phase(p, x)'
  <2>1. RowsAt(x)' = RowsAt(x) /\ \A t : SumOf(t)' = SumOf(t)
    BY DEF RowsAt, SumOf
  <2>2. x \notin over /\ Snapshot(x) /\ SumsAre(x, ebanksumm)
    BY <1>1, <1>7, NotOver, CleanSame DEF Copied, Phase
  <2> QED BY <1>1, <1>3, <2>1, <2>2 DEF Phase, Copying, Copied, Snapshot, SumsAre
<1> QED BY <1>1, <1>3, <1>4, <1>5, <1>6, <1>7, WriterStep DEF Copied, Comparing

LEMMA InsertReconInv == ASSUME SettleInv, NEW p \in Settlers, InsertReconInfo(p) PROVE SettleInv'
<1> DEFINE me == run[p]
           r == me.r
           S == ebanksumm \cap SumsOf(r)
           L == listed \cap RowsOf(r)
           m == [me EXCEPT !.pc = "rows", !.todo = L]
<1>1. /\ run[p].pc = "insRecon"
      /\ UNCHANGED <<msgRound, listed, trn, wrote, touched, over, own, overlap, bankjour, ebanksumm>>
      /\ \/ Stop(p) /\ UNCHANGED reconinfo
         \/ reconinfo' = reconinfo \cup S /\ Becomes(p, m)
  BY PointsInOrder DEF InsertReconInfo, At, Kept, marks, journal
<1>2. r \in 0..LastRound /\ SettleTypeOK /\ L \in SUBSET (Txns \cup Kinds)
  BY DEF SettleInv, SettleTypeOK, Runs
<1>3. CASE Stop(p) /\ UNCHANGED reconinfo
  BY <1>1, <1>3, StopInv DEF journal
<1>4. CASE reconinfo' = reconinfo \cup S /\ Becomes(p, m)
  <2>1. /\ run' \in [Settlers -> Runs] /\ \A q \in Settlers \ {p} : run'[q] = run[q]
        /\ run'[p].pc = "rows" /\ run'[p].r = r /\ run'[p].todo = L
    <3>1. me \in Runs
      BY <1>2 DEF SettleTypeOK
    <3>2. m \in Runs /\ m.pc = "rows" /\ m.r = r /\ m.todo = L
      <4> HIDE DEF me, L
      <4> QED BY <1>2, <3>1, PointNames DEF Runs
    <3> HIDE DEF m
    <3> QED BY <1>2, <1>4, <3>2, BecomesIs
  <2>2. SettleTypeOK'
    BY <1>1, <1>2, <2>1 DEF SettleTypeOK
  <2>3. OfCenter'
    BY <1>1, <2>1 DEF SettleInv, OfCenter, RowsOf, InRound
  <2>4. ASSUME NEW x \in 1..LastRound PROVE RoundKept(x)
    BY <1>1, <1>4 DEF RoundKept
  <2>5. ASSUME NEW x \in InRound(r), Clean(x)' PROVE x \notin over' /\ Phase(p, x)'
    <3>1. RowsAt(x)' = RowsAt(x) /\ RowsAt(x) \subseteq RowsOf(r)
      BY <1>2, Rounds DEF RowsAt
    <3>2. x \notin over /\ Snapshot(x) /\ SumsAre(x, ebanksumm)
      BY <1>1, <2>5, NotOver, CleanSame DEF Copied, Phase
    <3>3. SumsAre(x, reconinfo)'
      BY <1>1, <1>2, <1>4, <3>1, <3>2, Rounds DEF SumsAre, SumOf
    <3>4. Settled(x, run[p].todo)' /\ Snapshot(x)'
      BY <1>1, <2>1, <3>1, <3>2 DEF Settled, Snapshot
    <3> QED BY <1>1, <2>1, <3>2, <3>3, <3>4 DEF Phase, Copying, Copied
  <2> QED BY <1>1, <2>1, <2>2, <2>3, <2>4, <2>5, WriterStep DEF Copied, Comparing
<1> QED BY <1>1, <1>3, <1>4

LEMMA TodoIs ==
    ASSUME SettleTypeOK, NEW p \in Settlers, NEW S, run' = [run EXCEPT ![p].todo = @ \ S]
    PROVE  /\ run' \in [Settlers -> Runs] /\ \A q \in Settlers \ {p} : run'[q] = run[q]
           /\ run'[p].pc = run[p].pc /\ run'[p].r = run[p].r
           /\ run'[p].todo = run[p].todo \ S /\ run'[p].sums = run[p].sums
BY DEF SettleTypeOK, Runs

(* ProcSettle: a row of the list is checked, or touched. *)
LEMMA SettleRowInv == ASSUME SettleInv, NEW p \in Settlers, NEW t \in Txns, SettleRow(p, t) PROVE SettleInv'
<1> DEFINE r == run[p].r
<1>1. /\ run[p].pc = "rows" /\ t \in run[p].todo
      /\ \E s \in {"settled", "checked"} : trn' = [trn EXCEPT ![t] = s]
      /\ touched' = touched \cup {u \in {t} : trn'[u] # "checked"}
      /\ run' = [run EXCEPT ![p].todo = @ \ {t}]
      /\ UNCHANGED <<msgRound, listed, over, own, overlap, bankjour, ebanksumm, reconinfo>>
  BY DEF SettleRow, At, marks, tables
<1>2. r \in 0..LastRound /\ SettleTypeOK
  BY DEF SettleInv, SettleTypeOK, Runs
<1>3. /\ run' \in [Settlers -> Runs] /\ \A q \in Settlers \ {p} : run'[q] = run[q]
      /\ run'[p].pc = "rows" /\ run'[p].r = r /\ run'[p].todo = run[p].todo \ {t}
  BY <1>1, <1>2, TodoIs
<1>4. t \in listed /\ t \in RowsOf(r)
  BY <1>1 DEF SettleInv, OfCenter
<1>5. SettleTypeOK'
  BY <1>1, <1>2, <1>3 DEF SettleTypeOK
<1>6. OfCenter'
  BY <1>1, <1>2, <1>3, <1>4 DEF SettleInv, SettleTypeOK, OfCenter, RowsOf, InRound
<1>7. ASSUME NEW x \in (1..LastRound) \ InRound(r) PROVE RoundKept(x)
  <2>1. \A u \in RowsAt(x) : u \in Txns /\ u # t
    BY <1>2, <1>4, <1>7, Elsewhere
  <2> QED BY <1>1, <1>2, <2>1 DEF RoundKept, SettleTypeOK
<1>8. ASSUME NEW x \in InRound(r), Clean(x)' PROVE x \notin over' /\ Phase(p, x)'
  <2>1. RowsAt(x)' = RowsAt(x) /\ RowsAt(x) \subseteq Txns /\ \A u : SumOf(u)' = SumOf(u)
    BY DEF RowsAt, SumOf
  <2>2. Clean(x) /\ \A u \in RowsAt(x) : u \notin touched'
    BY <1>1, <1>8, <2>1 DEF Clean
  <2>3. x \notin over /\ Snapshot(x) /\ SumsAre(x, reconinfo) /\ Settled(x, run[p].todo)
    BY <1>1, <2>2, NotOver DEF Copied, Phase
  <2>4. Settled(x, run[p].todo)'
    BY <1>1, <1>2, <1>3, <2>1, <2>2, <2>3 DEF Settled, SettleTypeOK
  <2>5. Snapshot(x)' /\ SumsAre(x, reconinfo)'
    BY <1>1, <2>1, <2>3 DEF Snapshot, SumsAre
  <2> QED BY <1>1, <1>3, <2>3, <2>4, <2>5 DEF Phase, Copying, Copied
<1> QED BY <1>1, <1>3, <1>5, <1>6, <1>7, <1>8, WriterStep DEF Copied, Comparing

(* The rest of the round fails, and the round is over. *)
LEMMA FailExcessInv == ASSUME SettleInv, NEW p \in Settlers, FailExcess(p) PROVE SettleInv'
<1> DEFINE r == run[p].r
           excess == {t \in RowsOf(r) : /\ r # 0 /\ listed \cap RowsOf(r) # {}
                                        /\ trn[t] \notin {"absent", "checked"}}
<1>1. /\ run[p].pc = "rows" /\ run[p].todo = {}
      /\ trn' = [t \in Txns |-> IF t \in excess THEN "failed" ELSE trn[t]]
      /\ over' = over \cup InRound(r) /\ run' = [run EXCEPT ![p].pc = "count"]
      /\ UNCHANGED <<msgRound, listed, touched, own, overlap, bankjour, ebanksumm, reconinfo>>
  BY PointsInOrder DEF FailExcess, At, marks, tables, Continue
<1>2. r \in 0..LastRound /\ SettleTypeOK
  BY DEF SettleInv, SettleTypeOK, Runs
<1>3. /\ run' \in [Settlers -> Runs] /\ \A q \in Settlers \ {p} : run'[q] = run[q]
      /\ run'[p].pc = "count" /\ run'[p].r = r
  BY <1>1, <1>2, PcIs, PointNames DEF Done
<1>4. InRound(r) \subseteq 1..LastRound
  BY <1>2, Rounds
<1>5. SettleTypeOK'
  BY <1>1, <1>2, <1>3, <1>4 DEF SettleTypeOK
<1>6. OfCenter'
  BY <1>1, <1>2, <1>3 DEF SettleInv, SettleTypeOK, OfCenter, RowsOf, InRound
<1>7. ASSUME NEW x \in (1..LastRound) \ InRound(r) PROVE RoundKept(x)
  <2>1. \A u \in RowsAt(x) : u \in Txns /\ u \notin excess
    BY <1>2, <1>7, Elsewhere
  <2> HIDE DEF excess
  <2> QED BY <1>1, <1>2, <1>7, <2>1 DEF RoundKept
<1>8. ASSUME NEW x \in InRound(r), Clean(x)' PROVE Ended(x)'
  <2>1. RowsAt(x)' = RowsAt(x) /\ RowsAt(x) \subseteq Txns /\ \A u : SumOf(u)' = SumOf(u)
    BY DEF RowsAt, SumOf
  <2>2. Snapshot(x) /\ SumsAre(x, reconinfo) /\ Settled(x, {})
    BY <1>1, <1>8, CleanSame, NotOver DEF Copied, Phase
  <2>3. Settled(x, {})'
    BY <1>1, <2>1, <2>2 DEF Settled
  <2> QED BY <1>1, <2>1, <2>2, <2>3 DEF Ended, Snapshot, SumsAre
<1>9. \A x : Phase(p, x)'
  BY <1>3 DEF Phase, Copying, Copied
<1> QED BY <1>1, <1>3, <1>5, <1>6, <1>7, <1>8, <1>9, WriterStep DEF Copied, Comparing

(* What is written after that is not of the receipt. *)
LEMMA LateInv ==
    ASSUME SettleInv, NEW p \in Settlers,
           CheckDiffAndList(p) \/ RecFeeSum(p) \/ RecExchgFile(p) \/ UpdSettledDateround(p)
    PROVE  SettleInv'
<1>1. UNCHANGED <<msgRound, listed, journal, bankjour, ebanksumm, reconinfo, own, overlap>>
  BY DEF CheckDiffAndList, RecFeeSum, RecExchgFile, UpdSettledDateround, Kept, marks, tables
<1>2. \/ Stop(p)
      \/ /\ run[p].pc \in Done
         /\ \E s \in {"feesum", "loadFee", "baginfo", "loadBag", "mark", "receipt"} :
               run' = [run EXCEPT ![p].pc = s]
  BY PointsInOrder
     DEF CheckDiffAndList, RecFeeSum, RecExchgFile, UpdSettledDateround, At, Continue, Done
<1>3. \A s \in {"feesum", "loadFee", "baginfo", "loadBag", "mark", "receipt"} : s \in {"receipt"} \cup Done
  BY DEF Done
<1>4. run[p].pc \in Done => run[p].pc # "idle" /\ run[p].pc \notin Writing
  BY DEF Done, Writing
<1> QED BY <1>1, <1>2, <1>3, <1>4, StopInv, GoInv

(* A row written by a request is not clean. *)
LEMMA RewriteInv == ASSUME SettleInv, NEW t \in Txns, Rewrite(t) PROVE SettleInv'
<1>1. /\ \E s \in {"unknown", "settled", "failed"} : trn' = [trn EXCEPT ![t] = s]
      /\ touched' = touched \cup {t}
      /\ UNCHANGED <<msgRound, listed, over, own, overlap, bankjour, ebanksumm, reconinfo, run>>
  BY DEF Rewrite, marks, tables
<1>2. SettleTypeOK' /\ OfCenter' /\ Overlaps'
  BY <1>1 DEF SettleInv, SettleTypeOK, OfCenter, Overlaps, RowsOf, InRound
<1>3. ASSUME NEW x \in 1..LastRound, Clean(x)' PROVE RoundKept(x)
  <2>1. RowsAt(x)' = RowsAt(x) /\ RowsAt(x) \subseteq Txns
    BY DEF RowsAt
  <2>2. t \notin RowsAt(x)
    BY <1>1, <1>3, <2>1 DEF Clean
  <2> QED BY <1>1, <2>1, <2>2 DEF RoundKept, SettleInv, SettleTypeOK
<1>4. over' \subseteq 1..LastRound
  BY <1>2 DEF SettleTypeOK
<1> QED BY <1>1, <1>2, <1>3, <1>4, SettleMoves, {} \in SUBSET Settlers

LEMMA NoWork == ASSUME NEW p, run'[p].pc \in Comparing PROVE Works(p)'
BY DEF Works, Phase, Copying, Copied, Comparing

LEMMA EndedRows ==
    ASSUME SettleInv, NEW r \in 0..LastRound, InRound(r) \cap overlap = {}, InRound(r) \subseteq over,
           \A t \in RowsOf(r) : own[t] \in {"in", "out"} /\ t \notin touched
    PROVE  \A t \in RowsOf(r) : /\ t \in Txns
                                /\ bankjour[t] # "absent" <=> own[t] = "in"
                                /\ t \in listed => SumOf(t) \in reconinfo /\ trn[t] = "checked"
<1> SUFFICES ASSUME NEW t \in RowsOf(r)
             PROVE  /\ t \in Txns
                    /\ bankjour[t] # "absent" <=> own[t] = "in"
                    /\ t \in listed => SumOf(t) \in reconinfo /\ trn[t] = "checked"
  OBVIOUS
<1>1. PICK x \in InRound(r) : t \in RowsAt(x)
  BY Rounds
<1>2. Clean(x)
  BY Rounds DEF Clean
<1>3. Ended(x)
  BY <1>2 DEF SettleInv, Finished
<1> QED BY <1>1, <1>3, Rounds DEF Ended, Snapshot, SumsAre, Settled

(* A receipt is begun. *)
LEMMA ReceivingInv ==
    ASSUME SettleInv, NEW p \in Settlers, NEW r \in 0..LastRound, Receiving(p, r),
           UNCHANGED <<msgRound, listed, journal, tables, own>>,
           \/ At(p, "receipt") /\ r = run[p].r /\ overlap' = overlap
           \/ /\ At(p, "idle")
              /\ Collide(p, r, \E q \in Settlers \ {p} : Busy(q, r) /\ run[q].pc \notin Writing)
    PROVE  SettleInv'
<1> DEFINE S == reconinfo \cap SumsOf(r)
           C == {s[2] : s \in S}
           m == [Resting EXCEPT !.pc = "compare", !.r = r, !.sums = S, !.todo = Kinds, !.curs = C]
<1>1. /\ msgRound' \in 0..LastRound /\ SettleTypeOK
      /\ UNCHANGED <<bankjour, ebanksumm, reconinfo>>
  BY DEF SettleInv, SettleTypeOK, tables
<1>2. overlap \subseteq overlap'
  BY DEF Collide
<1>3. CASE Stop(p)
  <2>1. /\ run' \in [Settlers -> Runs] /\ \A q \in Settlers \ {p} : run'[q] = run[q]
        /\ run'[p].pc = "idle"
    BY <1>1, <1>3, StopIs
  <2>2. Overlaps'
    BY <1>2, <2>1, OverlapsKept DEF SettleInv
  <2> QED BY <1>1, <1>2, <2>1, <2>2, NoClaim, QuietStep
<1>4. CASE Becomes(p, m)
  <2>1. S \subseteq SumsOf(r) /\ S \in SUBSET ((1..LastRound) \X Curs) /\ C \subseteq Curs
    BY Rounds
  <2>2. /\ m \in Runs /\ m.pc = "compare" /\ m.r = r /\ m.sums = S /\ m.todo = Kinds
    <3>1. Resting \in Runs
      BY SettlementAssumption, PointNames DEF Resting, Runs
    <3> HIDE DEF S, C
    <3> QED BY <2>1, <3>1, PointNames DEF Runs
  <2>3. /\ run' \in [Settlers -> Runs] /\ \A q \in Settlers \ {p} : run'[q] = run[q]
        /\ run'[p].pc = "compare" /\ run'[p].r = r /\ run'[p].sums = S /\ run'[p].todo = Kinds
    <3> HIDE DEF m
    <3> QED BY <1>1, <1>4, <2>2, BecomesIs
  <2> HIDE DEF m
  <2>4. Overlaps'
    <3>1. CASE At(p, "receipt") /\ r = run[p].r
      BY <1>2, <2>3, <3>1, OverlapsKept DEF At, Writing, SettleInv
    <3>2. CASE Collide(p, r, \E q \in Settlers \ {p} : Busy(q, r) /\ run[q].pc \notin Writing)
      <4>1. ASSUME NEW q \in Settlers \ {p}, run[q].pc # "idle",
                   NEW x \in InRound(run'[p].r) \cap InRound(run[q].r)
            PROVE  x \in overlap' \/ (run[q].pc \in Writing /\ run'[p].pc \in Writing)
        BY <2>3, <3>2, <4>1 DEF Collide, Busy, Writing
      <4> QED BY <1>2, <2>3, <4>1, OverlapsKept DEF SettleInv
    <3> QED BY <3>1, <3>2
  <2>5. SumsOf(r)' = SumsOf(r) /\ RowsOf(r)' = RowsOf(r) /\ InRound(r)' = InRound(r)
    BY DEF SumsOf, RowsOf, InRound
  <2>6. ASSUME Reliable(p)' PROVE Receipt(p)'
    <3>1. /\ InRound(r) \cap overlap = {} /\ InRound(r) \subseteq over
          /\ \A t \in RowsOf(r) : own[t] \in {"in", "out"} /\ t \notin touched
      BY <1>2, <2>3, <2>5, <2>6 DEF Reliable, journal
    <3>2. \A t \in listed \cap RowsOf(r) : SumOf(t) \in S
      BY <3>1, EndedRows, Rounds
    <3>3. \A k \in Kinds \ run'[p].todo : FALSE
      BY <2>3
    <3> HIDE DEF S
    <3> QED BY <2>3, <2>5, <3>2, <3>3 DEF Receipt, SumOf
  <2>7. Writes(p)'
    BY <2>1, <2>3, <2>5, <2>6 DEF Writes
  <2>8. run'[p].pc \in Comparing /\ run'[p].pc \notin {"rows", "center"}
    BY <2>3 DEF Comparing
  <2> QED BY <1>1, <1>2, <2>3, <2>4, <2>7, <2>8, NoWork, QuietStep
<1> QED BY <1>3, <1>4 DEF Receiving, Becomes

LEMMA ReceiptsInv ==
    ASSUME SettleInv, NEW p \in Settlers, PF_1606(p) \/ \E r \in 0..LastRound : PF_1606ByHand(p, r)
    PROVE  SettleInv'
<1>1. run[p].r \in 0..LastRound
  BY DEF SettleInv, SettleTypeOK, Runs
<1>2. CASE PF_1606(p)
  BY <1>1, <1>2, ReceivingInv DEF PF_1606, Kept, marks
<1>3. ASSUME NEW r \in 0..LastRound, PF_1606ByHand(p, r) PROVE SettleInv'
  BY <1>3, ReceivingInv DEF PF_1606ByHand, marks
<1> QED BY <1>2, <1>3

(* A step of a receipt. *)
LEMMA CompareStep ==
    ASSUME SettleInv, NEW p \in Settlers, run[p].pc \in Comparing, run'[p].pc \in Comparing,
           SettleTypeOK', OfCenter', \A q \in Settlers \ {p} : run'[q] = run[q],
           run'[p].r = run[p].r, run'[p].sums = run[p].sums,
           UNCHANGED <<msgRound, listed, journal, ebanksumm, reconinfo, own, overlap>>,
           \A t \in Txns : bankjour'[t] = bankjour[t] \/ (bankjour[t] # "absent" /\ bankjour'[t] = "1"),
           run'[p].pc = "compare" => run'[p].todo \subseteq Kinds,
           Reliable(p) /\ Receipt(p) => Receipt(p)'
    PROVE  SettleInv'
<1> DEFINE r == run[p].r
<1>1. SumsOf(r)' = SumsOf(r) /\ RowsOf(r)' = RowsOf(r) /\ InRound(r)' = InRound(r)
  BY DEF SumsOf, RowsOf, InRound
<1>2. Reliable(p)' => Reliable(p)
  BY <1>1 DEF Reliable, journal
<1>3. Writes(p)
  BY DEF SettleInv
<1>4. Writes(p)'
  BY <1>1, <1>2, <1>3 DEF Writes
<1>5. run[p].pc # "idle" /\ (run[p].pc \in Writing => run'[p].pc \in Writing)
  BY DEF Comparing, Writing
<1>6. Overlaps'
  BY <1>5, OverlapsKept DEF SettleInv
<1>7. \A x : RoundKept(x)
  BY DEF RoundKept, journal, RowsAt
<1>8. over' \subseteq 1..LastRound
  BY DEF SettleTypeOK
<1> QED BY <1>4, <1>6, <1>7, <1>8, NoWork, SettleMoves, {p} \in SUBSET Settlers DEF journal

LEMMA SameView ==
    ASSUME NEW p, UNCHANGED <<listed, own>>, run'[p].r = run[p].r
    PROVE  /\ RowsOf(run[p].r)' = RowsOf(run[p].r) /\ Own(p)' = Own(p)
           /\ \A k : run'[p].curs = run[p].curs => Cur(p)' = Cur(p) /\ (Counted(p, k)' <=> Counted(p, k))
           /\ \A t : SumOf(t)' = SumOf(t)
<1>1. RowsOf(run[p].r)' = RowsOf(run[p].r)
  BY DEF RowsOf, InRound
<1>2. Own(p)' = Own(p)
  BY <1>1 DEF Own
<1> QED BY <1>1, <1>2 DEF Cur, Counted, Having, SumOf

LEMMA ReceiptTypes ==
    ASSUME SettleInv, NEW p \in Settlers, run' \in [Settlers -> Runs],
           \A q \in Settlers \ {p} : run'[q] = run[q], UNCHANGED <<msgRound, listed, journal, own>>,
           bankjour' \in [Txns -> {"absent", "0", "1"}], \A t \in Txns : bankjour'[t] = "1" => t \in listed,
           run'[p].pc \in Comparing, run'[p].pc = "center" => run'[p].todo \subseteq listed \cap RowsOf(run'[p].r)
    PROVE  SettleTypeOK' /\ OfCenter'
<1>1. SettleTypeOK'
  BY DEF SettleInv, SettleTypeOK, journal
<1>2. \A r : RowsOf(r)' = RowsOf(r)
  BY DEF RowsOf, InRound
<1> QED BY <1>1, <1>2 DEF SettleInv, OfCenter, journal, Comparing

LEMMA CenterReceipt ==
    ASSUME NEW p, UNCHANGED <<listed, own>>, run'[p].r = run[p].r, run'[p].pc = "center", run'[p].differs,
           \A t \in listed \cap RowsOf(run[p].r) : SumOf(t) \in run'[p].sums,
           run'[p].todo \subseteq listed \cap RowsOf(run[p].r),
           run'[p].center = ((listed \cap RowsOf(run[p].r)) \ run'[p].todo) \ Own(p),
           \A t \in (listed \cap RowsOf(run[p].r)) \ run'[p].todo : t \in Own(p) => bankjour'[t] = "1"
    PROVE  Receipt(p)'
<1>1. RowsOf(run[p].r)' = RowsOf(run[p].r) /\ Own(p)' = Own(p) /\ \A u : SumOf(u)' = SumOf(u)
  BY SameView
<1> QED BY <1>1 DEF Receipt

(* The numbers of a kind: those of bankjour are the bank's own, those in    *)
(* the sums the center's.                                                   *)
LEMMA CompareInv == ASSUME SettleInv, NEW p \in Settlers, NEW k \in Kinds, Compare(p, k) PROVE SettleInv'
<1> DEFINE me == run[p]
           R  == RowsOf(me.r)
           n  == Cardinality({t \in Having(R, Cur(p), k) : bankjour[t] # "absent"})
           d  == me.differs \/ n # CenterCount(p, k)
           m  == [me EXCEPT !.todo = me.todo \ {k}, !.differs = d]
<1>1. /\ me.pc = "compare" /\ Becomes(p, m)
      /\ UNCHANGED <<msgRound, listed, journal, ebanksumm, reconinfo, own, overlap, bankjour>>
  BY DEF Compare, At, Kept, marks, tables
<1>2. me \in Runs /\ SettleTypeOK /\ d \in BOOLEAN
  BY DEF SettleInv, SettleTypeOK
<1>3. /\ m \in Runs /\ m.pc = "compare" /\ m.r = me.r /\ m.sums = me.sums /\ m.curs = me.curs
      /\ m.todo = me.todo \ {k} /\ m.differs = d
  <2> HIDE DEF me, d
  <2> QED BY <1>1, <1>2 DEF Runs
<1>4. run' \in [Settlers -> Runs] /\ \A q \in Settlers \ {p} : run'[q] = run[q]
  <2> HIDE DEF m
  <2> QED BY <1>1, <1>2, <1>3, BecomesIs
<1> HIDE DEF m
<1>4a. run'[p] = m
  BY <1>1, <1>2, <1>3, BecomesIs
<1>5. SettleTypeOK' /\ OfCenter'
  BY <1>1, <1>2, <1>3, <1>4, <1>4a DEF SettleTypeOK, SettleInv, OfCenter, RowsOf, InRound, journal
<1>6. me.r \in 0..LastRound /\ listed \subseteq Txns /\ me.sums \subseteq SumsOf(me.r) /\ me.todo \subseteq Kinds
  BY <1>1, <1>2 DEF Runs, SettleTypeOK, SettleInv, Writes, Comparing
<1>7. ASSUME Reliable(p), Receipt(p), ~d PROVE Counted(p, k)
  <2>1. \A t \in R : t \in Txns /\ (bankjour[t] # "absent" <=> own[t] = "in")
    BY <1>6, <1>7, EndedRows DEF Reliable
  <2>2. {t \in Having(R, Cur(p), k) : bankjour[t] # "absent"} = Having(Own(p), Cur(p), k)
    BY <2>1 DEF Having, Own
  <2>3. \A t \in Txns : SumOf(t) \in SumsOf(me.r) => t \in R
    BY <1>6 DEF SumOf, SumsOf, RowsOf
  <2>4. {t \in Having(listed, Cur(p), k) : SumOf(t) \in me.sums} = Having(listed \cap R, Cur(p), k)
    BY <1>6, <1>7, <2>3 DEF Having, Receipt
  <2>5. n = CenterCount(p, k)
    BY <1>7
  <2> QED BY <2>2, <2>4, <2>5 DEF Counted, CenterCount, SumOf
<1>8. ASSUME Reliable(p), Receipt(p) PROVE Receipt(p)'
  <2>1. ASSUME ~d, NEW j \in Kinds \ m.todo PROVE Counted(p, j)
    BY <1>1, <1>3, <1>7, <1>8, <2>1 DEF Receipt
  <2>2. \A t \in listed \cap R : SumOf(t) \in me.sums
    BY <1>8 DEF Receipt
  <2> HIDE DEF d
  <2> QED BY <1>1, <1>3, <1>4a, <2>1, <2>2, SameView DEF Receipt
<1> QED BY <1>1, <1>3, <1>4, <1>4a, <1>5, <1>6, <1>8, CompareStep DEF Comparing

(* The next: with a difference the rows are listed. *)
LEMMA ComparedInv == ASSUME SettleInv, NEW p \in Settlers, Compared(p) PROVE SettleInv'
<1> DEFINE me == run[p]
           R  == RowsOf(me.r)
           s  == IF me.differs THEN "center" ELSE "written"
           T  == IF me.differs THEN {t \in R : trn[t] = "checked"} ELSE {}
           m  == [me EXCEPT !.pc = s, !.todo = T, !.center = {}, !.bank = {}]
<1>1. /\ me.pc = "compare" /\ me.todo = {} /\ Becomes(p, m)
      /\ UNCHANGED <<msgRound, listed, journal, ebanksumm, reconinfo, own, overlap, bankjour>>
  BY DEF Compared, At, Kept, marks, tables
<1>2. me \in Runs /\ SettleTypeOK /\ me.r \in 0..LastRound
  BY DEF SettleInv, SettleTypeOK, Runs
<1>3. T \subseteq listed \cap R /\ T \subseteq Txns /\ (~me.differs => T = {})
  BY <1>2, Rounds DEF SettleInv, OfCenter
<1>4. s \in SettlePoints /\ s \in {"center", "written"} /\ (s = "center" <=> me.differs)
  BY PointNames
<1>5. /\ m \in Runs /\ m.pc = s /\ m.r = me.r /\ m.sums = me.sums /\ m.curs = me.curs
      /\ m.todo = T /\ m.differs = me.differs /\ m.center = {}
  <2> HIDE DEF me, T, s
  <2> QED BY <1>2, <1>3, <1>4 DEF Runs
<1>6. /\ run' \in [Settlers -> Runs] /\ \A q \in Settlers \ {p} : run'[q] = run[q]
      /\ run'[p] = m
  <2> HIDE DEF m
  <2> QED BY <1>1, <1>2, <1>5, BecomesIs
<1> HIDE DEF m
<1>7. SettleTypeOK' /\ OfCenter'
  <2>1. bankjour \in [Txns -> {"absent", "0", "1"}] /\ \A t \in Txns : bankjour[t] = "1" => t \in listed
    BY DEF SettleInv, SettleTypeOK, OfCenter
  <2> HIDE DEF T, s
  <2> QED BY <1>1, <1>3, <1>4, <1>5, <1>6, <2>1, ReceiptTypes DEF Comparing
<1>8. ASSUME Reliable(p), Receipt(p) PROVE Receipt(p)'
  <2>1. \A t \in R : t \in listed => trn[t] = "checked"
    BY <1>2, <1>8, EndedRows DEF Reliable, SettleInv
  <2>2. me.differs => T = listed \cap R
    BY <1>3, <2>1
  <2>3. /\ \A t \in listed \cap R : SumOf(t) \in me.sums
        /\ ~me.differs => \A k \in Kinds : Counted(p, k)
    BY <1>1, <1>8 DEF Receipt
  <2> HIDE DEF T, s
  <2> QED BY <1>1, <1>3, <1>4, <1>5, <1>6, <2>2, <2>3, SameView DEF Receipt
<1>9. m.pc \in Comparing /\ m.pc # "compare"
  BY <1>4, <1>5 DEF Comparing
<1> QED BY <1>1, <1>5, <1>6, <1>7, <1>8, <1>9, CompareStep DEF Comparing

(* A row of the center's: listed when the bank had none, flagged otherwise. *)
LEMMA ListCenterRowInv ==
    ASSUME SettleInv, NEW p \in Settlers, NEW t \in Txns, ListCenterRow(p, t) PROVE SettleInv'
<1> DEFINE me == run[p]
           R  == RowsOf(me.r)
           L  == listed \cap R
           m  == [me EXCEPT !.todo = me.todo \ {t}, !.center = me.center \cup {t}]
<1>1. /\ me.pc = "center" /\ t \in me.todo
      /\ UNCHANGED <<msgRound, listed, journal, ebanksumm, reconinfo, own, overlap>>
      /\ \/ bankjour[t] = "absent" /\ Becomes(p, m) /\ bankjour' = bankjour
         \/ /\ bankjour[t] # "absent" /\ bankjour' = [bankjour EXCEPT ![t] = "1"]
            /\ run' = [run EXCEPT ![p].todo = @ \ {t}]
  BY DEF ListCenterRow, At, Kept, marks
<1>2. me \in Runs /\ SettleTypeOK /\ me.r \in 0..LastRound
  BY DEF SettleInv, SettleTypeOK, Runs
<1>3. /\ t \in listed /\ me.todo \subseteq listed \cap R
      /\ bankjour \in [Txns -> {"absent", "0", "1"}] /\ \A u \in Txns : bankjour[u] = "1" => u \in listed
  BY <1>1 DEF SettleInv, SettleTypeOK, OfCenter
<1>4. ASSUME Reliable(p) PROVE t \in R => (bankjour[t] # "absent" <=> t \in Own(p))
  BY <1>2, <1>4, EndedRows DEF Reliable, SettleInv, Own
<1>5. CASE bankjour[t] = "absent" /\ Becomes(p, m) /\ bankjour' = bankjour
  <2>1. /\ m \in Runs /\ m.pc = "center" /\ m.r = me.r /\ m.sums = me.sums /\ m.curs = me.curs
        /\ m.todo = me.todo \ {t} /\ m.differs = me.differs /\ m.center = me.center \cup {t}
    <3>1. me.center \cup {t} \in SUBSET Txns /\ me.todo \ {t} \in SUBSET (Txns \cup Kinds)
      BY <1>2 DEF Runs
    <3> HIDE DEF me
    <3> QED BY <1>1, <1>2, <3>1 DEF Runs
  <2>2. /\ run' \in [Settlers -> Runs] /\ \A q \in Settlers \ {p} : run'[q] = run[q]
        /\ run'[p] = m
    <3> HIDE DEF m
    <3> QED BY <1>2, <1>5, <2>1, BecomesIs
  <2> HIDE DEF m
  <2>3. SettleTypeOK' /\ OfCenter'
    <3>1. m.todo \subseteq listed \cap R
      BY <1>3, <2>1
    <3> QED BY <1>1, <1>3, <1>5, <2>1, <2>2, <3>1, ReceiptTypes DEF Comparing
  <2>4. ASSUME Reliable(p), Receipt(p) PROVE Receipt(p)'
    <3>1. /\ \A u \in L : SumOf(u) \in me.sums
          /\ me.differs /\ me.todo \subseteq L /\ me.center = (L \ me.todo) \ Own(p)
          /\ \A u \in L \ me.todo : u \in Own(p) => bankjour[u] = "1"
      BY <1>1, <2>4 DEF Receipt
    <3>2. t \notin Own(p)
      BY <1>1, <1>4, <1>5, <2>4, <3>1
    <3>3. m.center = (L \ m.todo) \ Own(p) /\ \A u \in L \ m.todo : u \in Own(p) => bankjour[u] = "1"
      BY <1>1, <2>1, <3>1, <3>2
    <3>4. m.todo \subseteq L
      BY <2>1, <3>1
    <3> QED BY <1>1, <1>5, <2>1, <2>2, <3>1, <3>3, <3>4, CenterReceipt
  <2> QED BY <1>1, <1>5, <2>1, <2>2, <2>3, <2>4, CompareStep DEF Comparing
<1>6. CASE /\ bankjour[t] # "absent" /\ bankjour' = [bankjour EXCEPT ![t] = "1"]
           /\ run' = [run EXCEPT ![p].todo = @ \ {t}]
  <2>1. /\ run' \in [Settlers -> Runs] /\ \A q \in Settlers \ {p} : run'[q] = run[q]
        /\ run'[p].pc = "center" /\ run'[p].r = me.r /\ run'[p].sums = me.sums
        /\ run'[p].todo = me.todo \ {t} /\ run'[p].differs = me.differs /\ run'[p].center = me.center
    BY <1>1, <1>2, <1>6, TodoIs DEF SettleTypeOK, Runs
  <2>2. /\ bankjour'[t] = "1" /\ \A u \in Txns \ {t} : bankjour'[u] = bankjour[u]
        /\ bankjour' \in [Txns -> {"absent", "0", "1"}]
    BY <1>2, <1>6 DEF SettleTypeOK
  <2>3. SettleTypeOK' /\ OfCenter'
    <3>1. run'[p].todo \subseteq listed \cap R /\ \A u \in Txns : bankjour'[u] = "1" => u \in listed
      BY <1>3, <2>1, <2>2
    <3> QED BY <1>1, <2>1, <2>2, <3>1, ReceiptTypes DEF Comparing
  <2>4. ASSUME Reliable(p), Receipt(p) PROVE Receipt(p)'
    <3>1. /\ \A u \in L : SumOf(u) \in me.sums
          /\ me.differs /\ me.todo \subseteq L /\ me.center = (L \ me.todo) \ Own(p)
          /\ \A u \in L \ me.todo : u \in Own(p) => bankjour[u] = "1"
      BY <1>1, <2>4 DEF Receipt
    <3>2. t \in Own(p)
      BY <1>1, <1>4, <1>6, <2>4, <3>1
    <3>3. /\ me.center = (L \ run'[p].todo) \ Own(p) /\ run'[p].todo \subseteq L
          /\ \A u \in L \ run'[p].todo : u \in Own(p) => bankjour'[u] = "1"
      BY <1>2, <2>1, <2>2, <3>1, <3>2, Rounds
    <3> QED BY <1>1, <2>1, <3>1, <3>3, CenterReceipt
  <2> QED BY <1>1, <1>6, <2>1, <2>2, <2>3, <2>4, CompareStep DEF Comparing
<1> QED BY <1>1, <1>5, <1>6

(* What has no flag is the bank's alone. *)
LEMMA ListBankRowsInv == ASSUME SettleInv, NEW p \in Settlers, ListBankRows(p) PROVE SettleInv'
<1> DEFINE me == run[p]
           R  == RowsOf(me.r)
           L  == listed \cap R
           B  == {t \in R : bankjour[t] = "0"}
           m  == [me EXCEPT !.pc = "written", !.bank = B]
<1>1. /\ me.pc = "center" /\ me.todo = {} /\ Becomes(p, m)
      /\ UNCHANGED <<msgRound, listed, journal, ebanksumm, reconinfo, own, overlap, bankjour>>
  BY DEF ListBankRows, At, Kept, marks, tables
<1>2. me \in Runs /\ SettleTypeOK /\ me.r \in 0..LastRound /\ B \subseteq Txns
  BY DEF SettleInv, SettleTypeOK, Runs, RowsOf
<1>3. /\ m \in Runs /\ m.pc = "written" /\ m.r = me.r /\ m.sums = me.sums
      /\ m.todo = {} /\ m.differs = me.differs /\ m.center = me.center /\ m.bank = B
  <2> HIDE DEF me, B
  <2> QED BY <1>1, <1>2, PointNames DEF Runs
<1>4. /\ run' \in [Settlers -> Runs] /\ \A q \in Settlers \ {p} : run'[q] = run[q]
      /\ run'[p] = m
  <2> HIDE DEF m
  <2> QED BY <1>1, <1>2, <1>3, BecomesIs
<1> HIDE DEF m
<1>5. SettleTypeOK' /\ OfCenter'
  <2>1. bankjour \in [Txns -> {"absent", "0", "1"}] /\ \A t \in Txns : bankjour[t] = "1" => t \in listed
    BY DEF SettleInv, SettleTypeOK, OfCenter
  <2> QED BY <1>1, <1>3, <1>4, <2>1, ReceiptTypes DEF Comparing
<1>6. ASSUME Reliable(p), Receipt(p) PROVE Receipt(p)'
  <2>1. /\ \A u \in L : SumOf(u) \in me.sums
        /\ me.differs /\ me.center = L \ Own(p)
        /\ \A u \in L : u \in Own(p) => bankjour[u] = "1"
    BY <1>1, <1>6 DEF Receipt
  <2>2. \A t \in R : /\ t \in Txns /\ (bankjour[t] # "absent" <=> t \in Own(p))
                     /\ bankjour[t] \in {"absent", "0", "1"} /\ (bankjour[t] = "1" => t \in listed)
    BY <1>2, <1>6, EndedRows DEF Reliable, SettleInv, Own, SettleTypeOK, OfCenter
  <2>3. B = Own(p) \ listed
    BY <2>1, <2>2 DEF Own
  <2>4. RowsOf(me.r)' = R /\ Own(p)' = Own(p) /\ \A u : SumOf(u)' = SumOf(u)
    BY <1>1, <1>3, <1>4, SameView
  <2> HIDE DEF B
  <2> QED BY <1>1, <1>3, <1>4, <2>1, <2>3, <2>4 DEF Receipt
<1> QED BY <1>1, <1>3, <1>4, <1>5, <1>6, CompareStep DEF Comparing

(* The section is on paper: the next currency. *)
LEMMA NextCurInv == ASSUME SettleInv, NEW p \in Settlers, NextCur(p) PROVE SettleInv'
<1> DEFINE me == run[p]
           c  == me.curs \ {Cur(p)}
           m  == [me EXCEPT !.pc = "compare", !.todo = Kinds, !.curs = c]
<1>1. /\ me.pc = "written" /\ (Stop(p) \/ Becomes(p, m))
      /\ UNCHANGED <<msgRound, listed, journal, ebanksumm, reconinfo, own, overlap, bankjour>>
  BY DEF NextCur, At, Kept, marks, tables
<1>2. me \in Runs /\ SettleTypeOK /\ c \subseteq Curs
  BY DEF SettleInv, SettleTypeOK, Runs
<1>3. CASE Stop(p)
  BY <1>1, <1>3, StopInv
<1>4. CASE Becomes(p, m)
  <2>1. m \in Runs /\ m.pc = "compare" /\ m.r = me.r /\ m.sums = me.sums /\ m.todo = Kinds
    <3> HIDE DEF me, c
    <3> QED BY <1>1, <1>2, PointNames DEF Runs
  <2>2. /\ run' \in [Settlers -> Runs] /\ \A q \in Settlers \ {p} : run'[q] = run[q]
        /\ run'[p] = m
    <3> HIDE DEF m
    <3> QED BY <1>2, <1>4, <2>1, BecomesIs
  <2> HIDE DEF m
  <2>3. SettleTypeOK' /\ OfCenter'
    BY <1>1, <1>2, <2>1, <2>2 DEF SettleTypeOK, SettleInv, OfCenter, RowsOf, InRound, journal
  <2>4. ASSUME Reliable(p), Receipt(p) PROVE Receipt(p)'
    <3>1. \A u \in listed \cap RowsOf(me.r) : SumOf(u) \in me.sums
      BY <2>4 DEF Receipt
    <3>2. \A k \in Kinds \ run'[p].todo : FALSE
      BY <2>1, <2>2
    <3>3. RowsOf(me.r)' = RowsOf(me.r) /\ \A u : SumOf(u)' = SumOf(u)
      BY <1>1, <2>1, <2>2, SameView
    <3> QED BY <1>1, <2>1, <2>2, <3>1, <3>2, <3>3 DEF Receipt
  <2> QED BY <1>1, <2>1, <2>2, <2>3, <2>4, CompareStep DEF Comparing
<1> QED BY <1>1, <1>3, <1>4

LEMMA SettleStepInv == SettleInv /\ [SettlementNext]_settleVars => SettleInv'
<1> SUFFICES ASSUME SettleInv, [SettlementNext]_settleVars PROVE SettleInv'
  OBVIOUS
<1>1. CASE UNCHANGED settleVars
  <2>1. /\ UNCHANGED <<msgRound, listed, trn, touched, over, bankjour, ebanksumm, reconinfo, own, overlap, run>>
        /\ journal' = journal
    BY <1>1 DEF settleVars, marks, journal, tables
  <2>2. SettleTypeOK' /\ OfCenter' /\ Overlaps'
    BY <2>1 DEF SettleInv, SettleTypeOK, OfCenter, Overlaps, RowsOf, InRound
  <2>3. \A x : RoundKept(x)
    BY <2>1 DEF RoundKept
  <2>4. over' \subseteq 1..LastRound
    BY <2>2 DEF SettleTypeOK
  <2> QED BY <2>1, <2>2, <2>3, <2>4, SettleMoves, {} \in SUBSET Settlers
<1>2. ASSUME NEW p \in Settlers, SettleDies(p) PROVE SettleInv'
  BY <1>2, StopInv DEF SettleDies, Kept, marks, tables
<1>3. ASSUME NEW p \in Settlers, SettleStep(p) PROVE SettleInv'
  BY <1>2, <1>3, StartsInv, FilesInv, DeleteBankJourInv, InsertBankJourInv, DeleteSumsInv, LoadSumInv,
     DeleteReconInv, InsertReconInv, FailExcessInv, LateInv, ReceiptsInv, ComparedInv,
     ListBankRowsInv, NextCurInv DEF SettleStep
<1> QED
  BY <1>1, <1>3, StartsInv, ReceiptsInv, SettleRowInv, ListCenterRowInv, CompareInv, RewriteInv
     DEF SettlementNext

LEMMA SettleInitInv == SettlementInit => SettleInv
<1> SUFFICES ASSUME SettlementInit PROVE SettleInv
  OBVIOUS
<1>1. Resting \in Runs /\ Resting.pc = "idle"
  BY SettlementAssumption, PointNames DEF Resting, Runs
<1>2. SettleTypeOK
  BY <1>1, SettlementAssumption DEF SettlementInit, SettleTypeOK
<1>3. OfCenter /\ Overlaps /\ Finished
  BY <1>1 DEF SettlementInit, OfCenter, Overlaps, Finished
<1>4. \A p \in Settlers : Works(p) /\ Writes(p)
  BY <1>1 DEF SettlementInit, Works, Writes, Phase, Copying, Copied, Comparing
<1> QED BY <1>2, <1>3, <1>4 DEF SettleInv

(* A currency the receipt calls in agreement was so before trnjour was      *)
(* corrected (SettleSvr, CenterAndBankSettle), for any rows, rounds and     *)
(* processes.                                                               *)
THEOREM ReceiptTellsTruth == SettlementSpec => []ReceiptIsTrue
<1>1. SettleInv => ReceiptIsTrue
  BY DEF SettleInv, Writes, Comparing, Receipt, Counted, At, ReceiptIsTrue
<1> QED BY <1>1, SettleInitInv, SettleStepInv, PTL DEF SettlementSpec

(* The list of a receipt that says they differ names what one side had and  *)
(* the other had not, and nothing else (CenterAndBankDiffer).               *)
THEOREM DifferencesAreListed == SettlementSpec => []DifferencesListed
<1>1. SettleInv => DifferencesListed
  BY DEF SettleInv, Writes, Comparing, Receipt, Own, At, DifferencesListed
<1> QED BY <1>1, SettleInitInv, SettleStepInv, PTL DEF SettlementSpec
=============================================================================
