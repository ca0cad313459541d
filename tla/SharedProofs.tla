----------------------------- MODULE SharedProofs -----------------------------
(***************************************************************************)
(* Theorems about what processes share beside the journal.  Outside the    *)
(* database: Serial, for any processes, range and number of calls;         *)
(* Gateway, for any children, limit and number of deaths; KeyMachines, for *)
(* any callers, machines and places of the table.  In its tables and       *)
(* files: Agreements, Operators and Params, for any ids, processes,        *)
(* passwords, tables and numbers of lines.                                 *)
(***************************************************************************)
EXTENDS Serial, Gateway, KeyMachines, Agreements, Operators, Params,
        FiniteSetTheorems, TLAPS

-----------------------------------------------------------------------------
(* Serial.                                                                  *)

(* Number a was drawn before number b. *)
Before(a, b) == a.lap < b.lap \/ (a.lap = b.lap /\ a.serial < b.serial)

(* Only the process that holds the lock is between locking and closing. *)
Held == \A p \in Procs : pc[p] \in {"read", "write", "close"} => lock = p

(* What the holder is about to write follows what is in the file. *)
ReadIsFresh == \A p \in Procs : pc[p] = "write" => cur[p] = Following

(* The numbers returned and saved are not past the file ... *)
GivenIsPast ==
    \A g \in given : \/ g \in unsaved
                     \/ file # Empty /\ ~Before([lap |-> lap, serial |-> file], g)

(* ... and the one about to be returned was not returned. *)
WrittenIsNew == \A p \in Procs : pc[p] = "close" => cur[p] \notin given \ unsaved
WrittenIsPast ==
    \A p \in Procs : pc[p] = "close" =>
        \/ cur[p] \in unsaved
        \/ file # Empty /\ ~Before([lap |-> lap, serial |-> file], cur[p])

IInv == /\ TypeOK /\ Held /\ ReadIsFresh
        /\ GivenIsPast /\ WrittenIsNew /\ WrittenIsPast /\ SerialsDistinct

(* The next number is one of the counter's, and after what the file holds. *)
LEMMA FollowingAdvances ==
    ASSUME TypeOK
    PROVE  /\ Following \in Numbers
           /\ Following.lap \in Nat /\ Following.serial \in Min..Max
           /\ file # Empty => Before([lap |-> lap, serial |-> file], Following)
BY SerialAssumption DEF TypeOK, Following, Numbers, Before

(* The invariant holds at first. *)
LEMMA InitIInv == Init => IInv
BY SerialAssumption DEF Init, IInv, TypeOK, Held, ReadIsFresh, GivenIsPast, WrittenIsNew,
   WrittenIsPast, SerialsDistinct, None, Numbers

(* No step breaks it.  Reading draws what follows the file; while the lock *)
(* is held nobody else writes, so writing moves the file to a number that  *)
(* is past every number returned and saved.                                *)
LEMMA NextIInv == IInv /\ [Next]_vars => IInv'
<1> SUFFICES ASSUME IInv, [Next]_vars PROVE IInv'
  OBVIOUS
<1> USE DEF IInv
<1>1. CASE UNCHANGED vars
  BY <1>1 DEF vars, TypeOK, Held, ReadIsFresh, Following, GivenIsPast, WrittenIsNew,
     WrittenIsPast, SerialsDistinct
<1>2. ASSUME NEW p \in Procs, Call(p) PROVE IInv'
  <2>1. TypeOK'
    BY <1>2, SerialAssumption DEF Call, Goto, TypeOK
  <2>2. Held' /\ ReadIsFresh' /\ WrittenIsNew' /\ WrittenIsPast'
    BY <1>2 DEF Call, Goto, TypeOK, Held, ReadIsFresh, Following, WrittenIsNew, WrittenIsPast
  <2>3. GivenIsPast' /\ SerialsDistinct'
    BY <1>2 DEF Call, GivenIsPast, SerialsDistinct
  <2> QED BY <2>1, <2>2, <2>3
<1>3. ASSUME NEW p \in Procs, Open(p) PROVE IInv'
  <2>1. TypeOK'
    BY <1>3 DEF Open, Goto, TypeOK
  <2>2. Held' /\ ReadIsFresh' /\ WrittenIsNew' /\ WrittenIsPast'
    BY <1>3 DEF Open, Goto, TypeOK, Held, ReadIsFresh, Following, WrittenIsNew, WrittenIsPast
  <2>3. GivenIsPast' /\ SerialsDistinct'
    BY <1>3 DEF Open, GivenIsPast, SerialsDistinct
  <2> QED BY <2>1, <2>2, <2>3
<1>4. ASSUME NEW p \in Procs, Lock(p) PROVE IInv'
  <2>1. TypeOK'
    BY <1>4 DEF Lock, Goto, TypeOK
  <2>2. \A q \in Procs : pc[q] \notin {"read", "write", "close"}
    BY <1>4, SerialAssumption DEF Lock, Held
  <2>3. \A q \in Procs : pc'[q] \notin {"write", "close"} /\ (pc'[q] = "read" => q = p)
    BY <1>4, <2>2 DEF Lock, Goto, TypeOK
  <2>4. Held' /\ ReadIsFresh' /\ WrittenIsNew' /\ WrittenIsPast'
    BY <1>4, <2>3 DEF Lock, Held, ReadIsFresh, WrittenIsNew, WrittenIsPast
  <2>5. GivenIsPast' /\ SerialsDistinct'
    BY <1>4 DEF Lock, GivenIsPast, SerialsDistinct
  <2> QED BY <2>1, <2>4, <2>5
<1>5. ASSUME NEW p \in Procs, Read(p) PROVE IInv'
  <2>1. Following \in Numbers
    BY FollowingAdvances
  <2>2. TypeOK'
    BY <1>5, <2>1 DEF Read, Goto, TypeOK
  <2>3. Following' = Following
    BY <1>5 DEF Read, Following
  <2>4. Held' /\ ReadIsFresh'
    BY <1>5, <2>3 DEF Read, Goto, TypeOK, Held, ReadIsFresh
  <2>5. WrittenIsNew' /\ WrittenIsPast'
    BY <1>5 DEF Read, Goto, TypeOK, WrittenIsNew, WrittenIsPast
  <2>6. GivenIsPast' /\ SerialsDistinct'
    BY <1>5 DEF Read, GivenIsPast, SerialsDistinct
  <2> QED BY <2>2, <2>4, <2>5, <2>6
<1>6. ASSUME NEW p \in Procs, Write(p) PROVE IInv'
  <2>1. /\ cur[p] = Following /\ cur[p] \in Numbers
        /\ cur[p].lap \in Nat /\ cur[p].serial \in Min..Max
        /\ file # Empty => Before([lap |-> lap, serial |-> file], cur[p])
    BY <1>6, FollowingAdvances DEF Write, ReadIsFresh
  <2>2. \A q \in Procs : q # p => pc[q] \notin {"read", "write", "close"}
    BY <1>6 DEF Write, Held
  <2>3. \A q \in Procs : /\ pc'[q] \notin {"read", "write"}
                         /\ pc'[q] = "close" => q = p
    BY <1>6, <2>2 DEF Write, Goto, TypeOK
  <2>4. TypeOK'
    BY <1>6, <2>1 DEF Write, Goto, TypeOK
  <2>5. Held' /\ ReadIsFresh'
    BY <1>6, <2>3 DEF Write, Held, ReadIsFresh
  <2>6. CASE unsaved' = unsaved \cup {cur[p]} /\ UNCHANGED <<file, lap>>
    <3>1. GivenIsPast' /\ SerialsDistinct'
      BY <1>6, <2>6 DEF Write, GivenIsPast, SerialsDistinct
    <3>2. WrittenIsNew' /\ WrittenIsPast'
      BY <1>6, <2>6, <2>3 DEF Write, WrittenIsNew, WrittenIsPast
    <3> QED BY <2>4, <2>5, <3>1, <3>2
  <2>7. CASE file' = cur[p].serial /\ lap' = cur[p].lap /\ UNCHANGED unsaved
    <3>1. file' # Empty /\ [lap |-> lap', serial |-> file'] = cur[p]
      BY <2>7, <2>1, SerialAssumption DEF Numbers
    <3>2. \A g \in given : g \in unsaved \/ Before(g, cur[p])
      <4>1. SUFFICES ASSUME NEW g \in given, g \notin unsaved PROVE Before(g, cur[p])
        OBVIOUS
      <4>2. /\ file # Empty /\ file \in Int /\ lap \in Nat
            /\ ~Before([lap |-> lap, serial |-> file], g)
        BY <4>1, SerialAssumption DEF GivenIsPast, TypeOK
      <4>3. g.lap \in Nat /\ g.serial \in Int
        BY <4>1, SerialAssumption DEF TypeOK, Numbers
      <4> QED BY <4>2, <4>3, <2>1, SerialAssumption DEF Before
    <3>3. GivenIsPast'
      <4>1. SUFFICES ASSUME NEW g \in given, g \notin unsaved PROVE ~Before(cur[p], g)
        BY <1>6, <2>7, <3>1 DEF Write, GivenIsPast
      <4>2. g.lap \in Nat /\ g.serial \in Int
        BY <4>1, SerialAssumption DEF TypeOK, Numbers
      <4> QED BY <4>1, <4>2, <3>2, <2>1, SerialAssumption DEF Before
    <3>4. cur[p] \notin given \ unsaved /\ ~Before(cur[p], cur[p])
      BY <3>2, <2>1, SerialAssumption DEF Before
    <3>5. WrittenIsNew' /\ WrittenIsPast'
      BY <1>6, <2>7, <2>3, <3>1, <3>4 DEF Write, WrittenIsNew, WrittenIsPast
    <3>6. SerialsDistinct'
      BY <1>6, <2>7 DEF Write, SerialsDistinct
    <3> QED BY <2>4, <2>5, <3>3, <3>5, <3>6
  <2> QED BY <1>6, <2>6, <2>7 DEF Write
<1>7. ASSUME NEW p \in Procs, Close(p) PROVE IInv'
  <2>1. \A q \in Procs : q # p => pc[q] \notin {"read", "write", "close"}
    BY <1>7 DEF Close, Held
  <2>2. \A q \in Procs : pc'[q] \notin {"read", "write", "close"}
    BY <1>7, <2>1 DEF Close, Goto, TypeOK
  <2>3. TypeOK'
    BY <1>7 DEF Close, Goto, TypeOK
  <2>4. Held' /\ ReadIsFresh' /\ WrittenIsNew' /\ WrittenIsPast'
    BY <2>2 DEF Held, ReadIsFresh, WrittenIsNew, WrittenIsPast
  <2>5. GivenIsPast'
    BY <1>7 DEF Close, GivenIsPast, WrittenIsPast
  <2>6. SerialsDistinct'
    BY <1>7 DEF Close, SerialsDistinct, WrittenIsNew
  <2> QED BY <2>3, <2>4, <2>5, <2>6
<1>8. ASSUME NEW p \in Procs, Die(p) PROVE IInv'
  <2>1. \A q \in Procs : pc'[q] # "idle" => q # p /\ pc'[q] = pc[q]
    BY <1>8 DEF Die, Goto, TypeOK
  <2>2. TypeOK'
    BY <1>8 DEF Die, Goto, TypeOK
  <2>3. Held' /\ WrittenIsNew' /\ WrittenIsPast'
    BY <1>8, <2>1 DEF Die, Held, WrittenIsNew, WrittenIsPast
  <2>4. ReadIsFresh'
    BY <1>8, <2>1 DEF Die, ReadIsFresh, Following
  <2>5. GivenIsPast' /\ SerialsDistinct'
    BY <1>8 DEF Die, GivenIsPast, SerialsDistinct
  <2> QED BY <2>2, <2>3, <2>4, <2>5
<1> QED BY <1>1, <1>2, <1>3, <1>4, <1>5, <1>6, <1>7, <1>8 DEF Next, GenSerial

(* The invariant holds in every reachable state. *)
THEOREM SerialInductive == Spec => []IInv
BY InitIInv, NextIInv, PTL DEF Spec

(* Every reachable state is well typed: the file never leaves the range. *)
THEOREM SerialTypeCorrect == Spec => []TypeOK
BY SerialInductive, PTL DEF IInv

(* No number is returned twice in a lap of the counter, except one whose   *)
(* write had failed.                                                       *)
THEOREM NoSerialTwice == Spec => []SerialsDistinct
BY SerialInductive, PTL DEF IInv

(* The file only ever goes to the following number, or from the maximum to *)
(* the minimum.                                                            *)
THEOREM NeverGoesBack == Spec => CounterAdvances
<1> DEFINE Advance == file' # file /\ file # Empty =>
                        (file' = file + 1) \/ (file = Max /\ file' = Min)
<1>1. IInv /\ [Next]_vars => [Advance]_vars
  <2>1. SUFFICES ASSUME IInv, Next, file' # file, file # Empty
                 PROVE  (file' = file + 1) \/ (file = Max /\ file' = Min)
    BY DEF vars
  <2>2. PICK p \in Procs : Write(p)
    BY <2>1 DEF Next, Call, GenSerial, Open, Lock, Read, Close, Die
  <2>3. cur[p] = Following /\ file' = cur[p].serial
    BY <2>1, <2>2 DEF Write, IInv, ReadIsFresh
  <2>4. file \in Min..Max
    BY <2>1 DEF IInv, TypeOK
  <2> QED BY <2>1, <2>3, <2>4, SerialAssumption DEF Following
<1> QED BY <1>1, SerialInductive, PTL DEF Spec, CounterAdvances

-----------------------------------------------------------------------------
(* Gateway.                                                                 *)

Points == {"idle"} \cup Updating \cup Serving
GateTypeOK ==
    /\ num \in Int /\ sem \in Int /\ gate \in {"up", "down"}
    /\ at \in [Children -> Points] /\ step \in [Children -> {1, -1}]
    /\ val \in [Children -> Int]
    /\ conns \in Nat /\ kills \in Nat

CountedOnes == {c \in Children : Counted(c)}

(* A child has entered when it serves, or will when UpdateProcNum returns. *)
Entered(c) == \/ at[c] \in Serving
              \/ at[c] = "lower" /\ step[c] = 1 /\ val[c] <= gimaxProcNums
EnteredOnes == {c \in Children : Entered(c)}

(* The number serves as the limit only where it is looked at, when a child *)
(* has just written it; from then on the entered ones only leave.          *)
GateInv == /\ GateTypeOK
           /\ ~stray => /\ num = Cardinality(CountedOnes)
                        /\ Cardinality(EnteredOnes) <= gimaxProcNums

(* Counted and entered ones are finitely many. *)
LEMMA OnesFinite ==
    /\ IsFiniteSet(CountedOnes) /\ Cardinality(CountedOnes) \in Nat
    /\ \A S \in SUBSET CountedOnes : IsFiniteSet(S) /\ Cardinality(S) <= Cardinality(CountedOnes)
    /\ IsFiniteSet(EnteredOnes) /\ Cardinality(EnteredOnes) \in Nat
    /\ \A S \in SUBSET EnteredOnes : IsFiniteSet(S) /\ Cardinality(S) <= Cardinality(EnteredOnes)
<1>1. CountedOnes \in SUBSET Children /\ EnteredOnes \in SUBSET Children
  BY DEF CountedOnes, EnteredOnes
<1>2. IsFiniteSet(CountedOnes) /\ IsFiniteSet(EnteredOnes)
  BY <1>1, GateAssumption, FS_Subset
<1>3. Cardinality(CountedOnes) \in Nat /\ Cardinality(EnteredOnes) \in Nat
  BY <1>2, FS_CardinalityType
<1> QED BY <1>2, <1>3, FS_Subset

(* A step that leaves the number and who is counted, and lets nobody enter, *)
(* keeps the invariant.                                                     *)
LEMMA NobodyEnters ==
    ASSUME GateInv, GateTypeOK', num' = num, stray => stray',
           CountedOnes' = CountedOnes, EnteredOnes' \in SUBSET EnteredOnes
    PROVE  GateInv'
<1> SUFFICES ASSUME ~stray' PROVE /\ num' = Cardinality(CountedOnes')
                                  /\ Cardinality(EnteredOnes') <= gimaxProcNums
  BY DEF GateInv
<1>1. num = Cardinality(CountedOnes) /\ Cardinality(EnteredOnes) <= gimaxProcNums
  BY DEF GateInv
<1>2. Cardinality(EnteredOnes') <= Cardinality(EnteredOnes) /\ Cardinality(EnteredOnes) \in Nat
  BY OnesFinite
<1>3. IsFiniteSet(EnteredOnes')
  BY OnesFinite
<1>4. Cardinality(EnteredOnes') \in Nat
  BY <1>3, FS_CardinalityType
<1> QED BY <1>1, <1>2, <1>4, GateAssumption

(* The invariant holds at first. *)
LEMMA GateInitInv == GateInit => GateInv
<1> SUFFICES ASSUME GateInit PROVE GateInv
  OBVIOUS
<1>1. GateTypeOK
  BY DEF GateInit, GateTypeOK, Points
<1>2. CountedOnes = {} /\ EnteredOnes = {}
  BY DEF GateInit, CountedOnes, Counted, EnteredOnes, Entered, Updating, Serving
<1> QED BY <1>1, <1>2, FS_EmptySet, GateAssumption DEF GateInit, GateInv

(* UpdateProcNum writes.  That no update was overwritten means that the     *)
(* number was one less, or one more, than what is written.                  *)
LEMMA WriteInv == ASSUME GateInv, NEW c \in Children, WriteNum(c) PROVE GateInv'
<1>1. GateTypeOK'
  BY DEF GateInv, GateTypeOK, WriteNum, Only, Move, Points, Updating
<1> SUFFICES ASSUME ~stray' PROVE /\ num' = Cardinality(CountedOnes')
                                  /\ Cardinality(EnteredOnes') <= gimaxProcNums
  BY <1>1 DEF GateInv
<1> USE DEF GateInv
<1>2. /\ num = Cardinality(CountedOnes) /\ Cardinality(EnteredOnes) <= gimaxProcNums
      /\ num' = num + step[c] /\ num' = val[c] /\ step[c] \in {1, -1}
      /\ at[c] = "write" /\ at' = [at EXCEPT ![c] = "lower"] /\ UNCHANGED <<step, val>>
  <2>1. ~(stray \/ num # val[c] - step[c])
    BY DEF WriteNum
  <2>2. ~stray
    BY <2>1
  <2>3. num = val[c] - step[c]
    BY <2>1
  <2>4. num' = val[c] /\ at[c] = "write" /\ at' = [at EXCEPT ![c] = "lower"]
        /\ UNCHANGED <<step, val>>
    BY DEF WriteNum, Only, Move
  <2>5. val[c] \in Int /\ step[c] \in {1, -1}
    BY DEF GateTypeOK
  <2>6. num' = num + step[c]
    BY <2>3, <2>4, <2>5
  <2>7. num = Cardinality(CountedOnes) /\ Cardinality(EnteredOnes) <= gimaxProcNums
    BY <2>2
  <2> QED BY <2>4, <2>5, <2>6, <2>7
<1>3. CASE step[c] = 1
  <2>1. c \notin CountedOnes /\ CountedOnes' = CountedOnes \cup {c}
    BY <1>2, <1>3 DEF GateTypeOK, CountedOnes, Counted, Updating, Serving
  <2>2. num' = Cardinality(CountedOnes')
    BY <1>2, <1>3, <2>1, OnesFinite, FS_AddElement
  <2>3. CASE val[c] <= gimaxProcNums
    <3>1. EnteredOnes' \subseteq CountedOnes'
      BY <1>2, <1>3 DEF GateTypeOK, EnteredOnes, Entered, CountedOnes, Counted, Serving
    <3>2. IsFiniteSet(CountedOnes')
      BY <2>1, OnesFinite, FS_AddElement
    <3>3. /\ Cardinality(EnteredOnes') <= Cardinality(CountedOnes')
          /\ Cardinality(EnteredOnes') \in Nat /\ Cardinality(CountedOnes') \in Nat
      BY <3>1, <3>2, FS_Subset, FS_CardinalityType
    <3> QED BY <1>2, <2>2, <2>3, <3>3, GateAssumption
  <2>4. CASE ~(val[c] <= gimaxProcNums)
    <3>1. EnteredOnes' = EnteredOnes
      BY <1>2, <2>4 DEF GateTypeOK, EnteredOnes, Entered, Serving
    <3> QED BY <1>2, <2>2, <3>1
  <2> QED BY <2>3, <2>4
<1>4. CASE step[c] = -1
  <2>1. c \in CountedOnes /\ CountedOnes' = CountedOnes \ {c}
    BY <1>2, <1>4 DEF GateTypeOK, CountedOnes, Counted, Updating, Serving
  <2>2. EnteredOnes' = EnteredOnes
    BY <1>2, <1>4 DEF GateTypeOK, EnteredOnes, Entered, Serving
  <2> QED BY <1>2, <1>4, <2>1, <2>2, OnesFinite, FS_RemoveElement
<1> QED BY <1>2, <1>3, <1>4

(* No step breaks the invariant: every other one leaves who is counted as   *)
(* it was, or notes that the number may be wrong, or starts anew.           *)
LEMMA GateNextInv == GateInv /\ [GateNext]_gateVars => GateInv'
<1> SUFFICES ASSUME GateInv, [GateNext]_gateVars PROVE GateInv'
  OBVIOUS
<1> USE DEF Move, Only, Points, Updating, Serving
<1>1. CASE UNCHANGED gateVars
  BY <1>1 DEF GateInv, GateTypeOK, gateVars, CountedOnes, Counted, EnteredOnes, Entered
<1>2. ASSUME NEW c \in Children, Accept(c) PROVE GateInv'
  <2>1. GateTypeOK'
    BY <1>2 DEF Accept, GateInv, GateTypeOK
  <2>2. CountedOnes' = CountedOnes /\ EnteredOnes' \in SUBSET EnteredOnes
    BY <1>2 DEF Accept, GateInv, GateTypeOK, CountedOnes, Counted, EnteredOnes, Entered
  <2> QED BY <1>2, <2>1, <2>2, NobodyEnters DEF Accept
<1>3. ASSUME NEW c \in Children, Shmat(c) PROVE GateInv'
  <2>1. GateTypeOK'
    BY <1>3 DEF Shmat, Result, CountOut, Exit, GateInv, GateTypeOK
  <2>2. CASE stray'
    BY <2>1, <2>2 DEF GateInv
  <2>3. CASE ~stray'
    <3>1. CountedOnes' = CountedOnes /\ EnteredOnes' \in SUBSET EnteredOnes
      BY <1>3, <2>3 DEF Shmat, GateInv, GateTypeOK, CountedOnes, Counted, EnteredOnes, Entered
    <3> QED BY <1>3, <2>1, <2>3, <3>1, NobodyEnters DEF Shmat
  <2> QED BY <2>2, <2>3
<1>4. ASSUME NEW c \in Children, Waitv(c) \/ ReadNum(c) \/ SetP(c) PROVE GateInv'
  <2>1. GateTypeOK'
    BY <1>4 DEF Waitv, ReadNum, SetP, GateInv, GateTypeOK
  <2>2. CountedOnes' = CountedOnes
    BY <1>4 DEF Waitv, ReadNum, SetP, GateInv, GateTypeOK, CountedOnes, Counted
  <2>3. EnteredOnes' \in SUBSET EnteredOnes
    BY <1>4 DEF Waitv, ReadNum, SetP, GateInv, GateTypeOK, EnteredOnes, Entered
  <2> QED BY <1>4, <2>1, <2>2, <2>3, NobodyEnters DEF Waitv, ReadNum, SetP
<1>5. ASSUME NEW c \in Children, SetV(c) PROVE GateInv'
  <2>1. GateTypeOK'
    BY <1>5 DEF SetV, Result, CountOut, Exit, GateInv, GateTypeOK
  <2>2. CountedOnes' = CountedOnes
    BY <1>5 DEF SetV, Result, CountOut, Exit, GateInv, GateTypeOK, CountedOnes, Counted
  <2>3. EnteredOnes' \in SUBSET EnteredOnes
    BY <1>5, GateAssumption
       DEF SetV, Result, CountOut, Exit, GateInv, GateTypeOK, EnteredOnes, Entered
  <2> QED BY <1>5, <2>1, <2>2, <2>3, NobodyEnters DEF SetV
<1>6. ASSUME NEW c \in Children, RecvReqData(c) PROVE GateInv'
  <2>1. GateTypeOK'
    BY <1>6 DEF RecvReqData, CountOut, GateInv, GateTypeOK
  <2>2. CountedOnes' = CountedOnes /\ EnteredOnes' \in SUBSET EnteredOnes
    BY <1>6 DEF RecvReqData, CountOut, GateInv, GateTypeOK, CountedOnes, Counted, EnteredOnes, Entered
  <2> QED BY <1>6, <2>1, <2>2, NobodyEnters DEF RecvReqData
<1>7. ASSUME NEW c \in Children, DoProcess(c) PROVE GateInv'
  <2>1. GateTypeOK'
    BY <1>7 DEF DoProcess, CountOut, Exit, GateInv, GateTypeOK
  <2>2. CASE stray'
    BY <2>1, <2>2 DEF GateInv
  <2>3. CASE ~stray'
    <3>1. CountedOnes' = CountedOnes /\ EnteredOnes' \in SUBSET EnteredOnes
      BY <1>7, <2>3 DEF DoProcess, CountOut, GateInv, GateTypeOK,
                        CountedOnes, Counted, EnteredOnes, Entered
    <3> QED BY <1>7, <2>1, <2>3, <3>1, NobodyEnters DEF DoProcess
  <2> QED BY <2>2, <2>3
<1>8. ASSUME NEW c \in Children, Dies(c) PROVE GateInv'
  <2>1. GateTypeOK'
    BY <1>8 DEF Dies, Exit, GateInv, GateTypeOK
  <2>2. CASE stray'
    BY <2>1, <2>2 DEF GateInv
  <2>3. CASE ~stray'
    <3>1. CountedOnes' = CountedOnes
      BY <1>8, <2>3 DEF Dies, Exit, GateInv, GateTypeOK, CountedOnes, Counted
    <3>2. EnteredOnes' \in SUBSET EnteredOnes
      BY <1>8 DEF Dies, Exit, GateInv, GateTypeOK, EnteredOnes, Entered
    <3> QED BY <1>8, <2>1, <2>3, <3>1, <3>2, NobodyEnters DEF Dies
  <2> QED BY <2>2, <2>3
<1>9. CASE StopRun
  BY <1>9 DEF StopRun, GateInv, GateTypeOK, CountedOnes, Counted, EnteredOnes, Entered
<1>10. CASE KillAll
  BY <1>10 DEF KillAll, GateInv, GateTypeOK
<1>11. CASE InitProcManage
  <2>1. GateTypeOK'
    BY <1>11 DEF InitProcManage, GateInv, GateTypeOK
  <2>2. CountedOnes' = {} /\ EnteredOnes' = {}
    BY <1>11 DEF InitProcManage, GateInv, GateTypeOK, CountedOnes, Counted, EnteredOnes, Entered
  <2> QED BY <1>11, <2>1, <2>2, FS_EmptySet, GateAssumption DEF InitProcManage, GateInv
<1> QED BY <1>1, <1>2, <1>3, <1>4, <1>5, <1>6, <1>7, <1>8, <1>9, <1>10, <1>11, WriteInv
        DEF GateNext, ChildStep, UpdateProcNum

(* Unless an update was overwritten, a child ended without counting itself  *)
(* out or shmat failed, the number in shared memory is that of the children *)
(* counted, and no more serve than gimaxProcNums (UpdateProcNum, main).     *)
THEOREM NumberTells == GateSpec => []CountTells
<1>1. GateInv => CountTells
  <2> SUFFICES ASSUME GateInv, ~stray PROVE NumCounts /\ AtMostMax
    BY DEF CountTells
  <2> DEFINE ServingOnes == {c \in Children : at[c] \in Serving}
  <2>1. ServingOnes \in SUBSET EnteredOnes
    BY DEF EnteredOnes, Entered
  <2>2. IsFiniteSet(ServingOnes) /\ Cardinality(ServingOnes) <= Cardinality(EnteredOnes)
    BY <2>1, OnesFinite
  <2>3. Cardinality(ServingOnes) \in Nat /\ Cardinality(EnteredOnes) \in Nat
    BY <2>2, OnesFinite, FS_CardinalityType
  <2>4. Cardinality(ServingOnes) <= gimaxProcNums
    BY <2>2, <2>3, GateAssumption DEF GateInv
  <2> QED BY <2>4 DEF GateInv, NumCounts, AtMostMax, CountedOnes
<1> QED BY <1>1, GateInitInv, GateNextInv, PTL DEF GateSpec

-----------------------------------------------------------------------------
(* KeyMachines.                                                             *)

CallRec == [at : {"idle", "get", "create", "wipe", "fill", "scan", "count", "mark"},
            refused : BOOLEAN, tries : Nat, i : Nat, j : Nat, failed : BOOLEAN,
            total : Nat, normal : SUBSET Places]
TestRec == [at : {"idle", "begin", "probe", "write"}, i : Nat, found : {"none", "0", "9"}]
KeyTypes == /\ exists \in BOOLEAN /\ curid \in 0 .. SVR_MAX - 2 /\ sumcnt \in Nat
            /\ state \in [Places -> {"none", "0", "9"}]
            /\ call \in [Callers -> CallRec] /\ test \in [Testers -> TestRec]

(* Only the places of machines are ever marked; and all of them are, once  *)
(* there is a segment that nobody is about to clear or to go on filling.   *)
Filled(n) == \A i \in Machines : i < n => state[i] # "none"
TableOK ==
    /\ \A i \in Places : i >= Count => state[i] = "none"
    /\ \A t \in Testers :
          /\ test[t].at = "probe" => test[t].i <= SVR_MAX
          /\ test[t].at = "write" => test[t].i < Count /\ test[t].found # "none"
    /\ exists => \/ Filled(Count)
                 \/ \E p \in Callers : \/ At(p, "create") \/ At(p, "wipe")
                                       \/ At(p, "fill") /\ Filled(call[p].i)

(* The places a scan passed are not those that stayed normal: up to where  *)
(* it turns back (the last place, or the first without a machine) it has   *)
(* passed those before i that it came over in j turns; after that all but  *)
(* those between i and the place it began at.                              *)
Wrap == IF Count < SVR_MAX - 1 THEN Count ELSE SVR_MAX - 1
Left(c) == c.normal \ {SVR_MAX - 1}
Unpassed(c) ==
    \/ /\ c.j < c.i /\ (c.i <= Wrap \/ c.j = 0)
       /\ \A x \in Left(c) : x < c.i - c.j \/ c.i <= x
    \/ \A x \in Left(c) : c.i <= x /\ x < Wrap + 1 + c.i - c.j

CallOK(c, ex) ==
    /\ c.at = "scan" => c.i \in Places /\ c.j <= Turns /\ ~c.refused /\ Unpassed(c)
    /\ c.at = "count" /\ ~c.refused => c.i < Count
    /\ c.at = "mark" => c.i < Count
    /\ c.refused => Left(c) = {}
    /\ c.normal # {} => ex
CallersOK == \A p \in Callers : CallOK(call[p], exists)
StillNormal == \A p \in Callers : call[p].normal \subseteq Normal(call, state)
KeysInv == KeyTypes /\ TableOK /\ CallersOK /\ StillNormal

(* Looking again takes places out of what callers have seen, nothing else; *)
(* what is left of it is normal now.                                       *)
LEMMA SeeingEffect ==
  ASSUME NEW c \in [Callers -> CallRec], call' = Seeing(c)
  PROVE  /\ call' \in [Callers -> CallRec]
         /\ \A o \in Callers :
               /\ call'[o].at = c[o].at /\ call'[o].refused = c[o].refused
               /\ call'[o].i = c[o].i /\ call'[o].j = c[o].j
               /\ call'[o].normal \subseteq c[o].normal
         /\ StillNormal'
<1>1. \A o \in Callers : call'[o] = [c[o] EXCEPT !.normal = @ \cap Normal(c, state')]
  BY DEF Seeing
<1>2. ASSUME NEW o \in Callers
      PROVE  /\ call'[o].at = c[o].at /\ call'[o].refused = c[o].refused
             /\ call'[o].i = c[o].i /\ call'[o].j = c[o].j
             /\ call'[o].normal = c[o].normal \cap Normal(c, state')
             /\ call'[o] \in CallRec
  <2> DEFINE r == c[o]
             s == [r EXCEPT !.normal = @ \cap Normal(c, state')]
  <2>1. r \in CallRec /\ call'[o] = s
    BY <1>1
  <2> HIDE DEF r
  <2>2. /\ s.at = r.at /\ s.refused = r.refused /\ s.i = r.i /\ s.j = r.j
        /\ s.normal = r.normal \cap Normal(c, state') /\ s \in CallRec
    BY <2>1 DEF CallRec
  <2> QED
    BY <2>1, <2>2 DEF r
<1>3. Filling(call') <=> Filling(c)
  BY <1>2 DEF Filling
<1>4. Normal(call', state') = Normal(c, state')
  BY <1>3 DEF Normal
<1>5. call' \in [Callers -> CallRec]
  BY <1>2 DEF Seeing
<1> QED
  BY <1>2, <1>4, <1>5 DEF StillNormal

(* Who saw less of the table is no worse off. *)
LEMMA CallOKKept ==
  ASSUME NEW c \in CallRec, NEW d \in CallRec, NEW ex, NEW ex1, CallOK(c, ex), ex => ex1,
         d.at = c.at, d.refused = c.refused, d.i = c.i, d.j = c.j, d.normal \subseteq c.normal
  PROVE  CallOK(d, ex1)
<1>1. Left(d) \subseteq Left(c)
  BY DEF Left
<1>2. Unpassed(c) => Unpassed(d)
  BY <1>1 DEF Unpassed
<1> QED
  BY <1>1, <1>2 DEF CallOK

LEMMA OthersEffect ==
  ASSUME KeyTypes, CallersOK, exists => exists', Others
  PROVE  /\ call' \in [Callers -> CallRec] /\ CallersOK' /\ StillNormal'
         /\ \A o \in Callers : call'[o].at = call[o].at /\ call'[o].i = call[o].i
<1>1. call \in [Callers -> CallRec] /\ call' = Seeing(call)
  BY DEF KeyTypes, Others
<1> QED
  BY <1>1, SeeingEffect, CallOKKept DEF CallersOK

LEMMA SetEffectKeys ==
  ASSUME KeyTypes, CallersOK, exists => exists', NEW p \in Callers, NEW c \in CallRec,
         CallOK(c, exists'), Set(p, c)
  PROVE  /\ call' \in [Callers -> CallRec] /\ CallersOK' /\ StillNormal'
         /\ call'[p].at = c.at /\ call'[p].i = c.i
         /\ \A o \in Callers \ {p} : call'[o].at = call[o].at /\ call'[o].i = call[o].i
<1> DEFINE d == [call EXCEPT ![p] = c]
<1>1. d \in [Callers -> CallRec] /\ call' = Seeing(d)
  BY DEF KeyTypes, Set
<1>2. /\ d[p] = c /\ \A o \in Callers \ {p} : d[o] = call[o]
      /\ \A o \in Callers : call[o] \in CallRec /\ d[o] \in CallRec
  BY <1>1 DEF KeyTypes
<1>3. \A o \in Callers : CallOK(d[o], exists) \/ CallOK(d[o], exists')
  BY <1>2 DEF CallersOK
<1> HIDE DEF d
<1>4. /\ call' \in [Callers -> CallRec] /\ StillNormal'
      /\ \A o \in Callers :
            /\ call'[o].at = d[o].at /\ call'[o].refused = d[o].refused
            /\ call'[o].i = d[o].i /\ call'[o].j = d[o].j
            /\ call'[o].normal \subseteq d[o].normal
  BY <1>1, SeeingEffect
<1>5. CallersOK'
  BY <1>2, <1>3, <1>4, CallOKKept DEF CallersOK
<1> QED
  BY <1>2, <1>4, <1>5

(* One turn of the loop, toward a machine, a refusal or the next turn. *)
LEMMA ScanKeeps ==
  ASSUME KeysInv, ~OnlyLast, NEW p \in Callers, Scan(p) PROVE KeysInv'
<1> DEFINE c == call[p]
<1>0. /\ KeyTypes /\ CallersOK /\ c \in CallRec /\ CallOK(c, exists) /\ c.at = "scan"
      /\ SVR_MAX \in Nat /\ Count \in Nat /\ SVR_MAX >= 2 /\ 1 <= Count /\ Count <= SVR_MAX
  BY SizeAssumption DEF OnlyLast, KeysInv, KeyTypes, CallersOK, Scan, At
<1>1. /\ c.i \in Nat /\ c.j \in Nat /\ c.i < SVR_MAX /\ c.j <= SVR_MAX
      /\ ~c.refused /\ Unpassed(c) /\ c.normal \subseteq Places /\ Wrap \in Nat
      /\ Wrap <= Count /\ Wrap <= SVR_MAX - 1 /\ (Wrap = Count \/ Wrap = SVR_MAX - 1)
  BY <1>0 DEF CallOK, Places, CallRec, Wrap, Turns
<1>2. /\ \A x \in c.normal : state[x] = "0" /\ x \in Nat /\ x < Count
      /\ \A x \in Left(c) : x \in Nat /\ x < Wrap
      /\ c.normal # {} => exists /\ Filled(Count)
  <2>1. c.normal \subseteq Normal(call, state)
    BY DEF KeysInv, StillNormal
  <2>2. c.normal # {} => exists /\ Filled(Count)
    BY <1>0, <2>1 DEF Normal, Filling, CallOK, KeysInv, TableOK, At
  <2>3. \A x \in c.normal : state[x] = "0" /\ x \in Nat /\ x < SVR_MAX
    BY <1>0, <2>1 DEF Normal, Places
  <2>4. \A x \in c.normal : x < Count
    BY <1>0, <2>3 DEF KeysInv, TableOK, Places
  <2>5. \A x \in Left(c) : x \in Nat /\ x < Wrap
    BY <1>0, <1>1, <2>3, <2>4 DEF Left
  <2> QED
    BY <2>2, <2>3, <2>4, <2>5
<1> HIDE DEF c
<1>m. ASSUME NEW d \in CallRec, CallOK(d, exists'), d.at \in {"scan", "count"}, Set(p, d),
             UNCHANGED <<exists, sumcnt, state, test>>, curid' \in 0 .. SVR_MAX - 2
      PROVE  KeysInv'
  <2>1. /\ call' \in [Callers -> CallRec] /\ CallersOK' /\ StillNormal' /\ call'[p].at = d.at
        /\ \A o \in Callers \ {p} : call'[o].at = call[o].at /\ call'[o].i = call[o].i
    BY <1>0, <1>m, SetEffectKeys
  <2>2. KeyTypes'
    BY <1>0, <1>m, <2>1 DEF KeyTypes
  <2>3. TableOK'
    BY <1>0, <1>m, <2>1 DEF KeysInv, TableOK, At, Filled, c
  <2> QED
    BY <2>1, <2>2, <2>3 DEF KeysInv
<1>3. ASSUME c.j = Turns \/ (state[c.i] = "none" /\ c.i = 0)
      PROVE  Left(c) = {}
  <2>1. CASE state[c.i] = "none" /\ c.i = 0
    BY <1>0, <1>2, <2>1 DEF Filled, Machines, Left
  <2>2. CASE c.j = SVR_MAX
    BY <1>0, <1>1, <1>2, <2>2 DEF Unpassed
  <2> QED
    BY <1>3, <2>1, <2>2 DEF Turns
<1>4. CASE /\ c.j = Turns \/ (state[c.i] = "none" /\ c.i = 0)
           /\ Set(p, [c EXCEPT !.at = "count", !.refused = TRUE, !.j = 0])
           /\ UNCHANGED <<curid, exists, sumcnt, state, test>>
  <2> DEFINE d == [c EXCEPT !.at = "count", !.refused = TRUE, !.j = 0]
  <2>1. d \in CallRec /\ d.at = "count" /\ d.refused /\ d.normal = c.normal
    BY <1>0 DEF CallRec
  <2>2. CallOK(d, exists')
    BY <1>0, <1>3, <1>4, <2>1 DEF CallOK, Left
  <2> HIDE DEF d
  <2> QED
    BY <1>0, <1>4, <1>m, <2>1, <2>2 DEF KeyTypes, d
<1>5. CASE /\ c.j < Turns
           /\ c.i = SVR_MAX - 1 \/ (state[c.i] = "none" /\ c.i # 0)
           /\ Set(p, [c EXCEPT !.j = @ + 1, !.i = 0])
           /\ UNCHANGED <<curid, exists, sumcnt, state, test>>
  <2> DEFINE d == [c EXCEPT !.j = @ + 1, !.i = 0]
  <2>0. c \in CallRec /\ c.at = "scan" /\ ~c.refused /\ c.j + 1 \in Nat
    BY <1>0, <1>1
  <2>1. /\ d \in CallRec /\ d.at = "scan" /\ ~d.refused /\ d.normal = c.normal
        /\ d.i = 0 /\ d.j = c.j + 1
    BY ONLY <2>0 DEF CallRec
  <2>2. Left(d) = Left(c)
    BY <2>1 DEF Left
  <2>3. c.normal # {} => c.i >= Wrap
    <3>1. CASE c.i = SVR_MAX - 1
      BY <1>1, <3>1
    <3>2. CASE state[c.i] = "none" /\ c.normal # {}
      <4>1. ~(c.i < Count)
        BY <1>0, <1>1, <1>2, <3>2 DEF Filled, Machines
      <4> QED
        BY <1>0, <1>1, <4>1
    <3> QED
      BY <1>5, <3>1, <3>2
  <2>4. Unpassed(d)
    <3>1. \A x \in Left(c) : x < Wrap - c.j
      BY <1>0, <1>1, <1>2, <2>3 DEF Unpassed, Left
    <3> QED
      BY <1>1, <1>2, <2>1, <2>2, <3>1 DEF Unpassed
  <2>5. CallOK(d, exists')
    BY <1>0, <1>1, <1>5, <2>1, <2>4 DEF CallOK, Places, Turns
  <2> QED
    BY <1>0, <1>5, <1>m, <2>1, <2>5 DEF KeyTypes, d
<1>6. CASE /\ c.i # SVR_MAX - 1 /\ state[c.i] = "0"
           /\ curid' = c.i
           /\ Set(p, [c EXCEPT !.at = "count", !.normal = {}, !.j = 0])
           /\ UNCHANGED <<exists, sumcnt, state, test>>
  <2> DEFINE d == [c EXCEPT !.at = "count", !.normal = {}, !.j = 0]
  <2>1. d \in CallRec /\ d.at = "count" /\ ~d.refused /\ d.normal = {} /\ d.i = c.i
    BY <1>0, <1>1 DEF CallRec
  <2>2. c.i < Count /\ curid' \in 0 .. SVR_MAX - 2
    BY <1>0, <1>1, <1>6 DEF KeysInv, TableOK, Places
  <2> HIDE DEF d
  <2>3. CallOK(d, exists')
    BY <2>1, <2>2 DEF CallOK, Left
  <2> QED
    BY <1>0, <1>6, <1>m, <2>1, <2>2, <2>3 DEF d
<1>7. CASE /\ c.j < Turns /\ c.i # SVR_MAX - 1 /\ state[c.i] = "9"
           /\ Set(p, [c EXCEPT !.j = @ + 1, !.i = @ + 1, !.failed = TRUE])
           /\ UNCHANGED <<curid, exists, sumcnt, state, test>>
  <2> DEFINE d == [c EXCEPT !.j = @ + 1, !.i = @ + 1, !.failed = TRUE]
  <2>0. /\ c \in CallRec /\ c.at = "scan" /\ ~c.refused
        /\ c.j + 1 \in Nat /\ c.i + 1 \in Nat
    BY <1>0, <1>1
  <2>1. /\ d \in CallRec /\ d.at = "scan" /\ ~d.refused /\ d.normal = c.normal
        /\ d.i = c.i + 1 /\ d.j = c.j + 1
    BY ONLY <2>0 DEF CallRec
  <2>2. c.i \notin Left(c) /\ Left(d) = Left(c) /\ c.i < Wrap
    <3>1. c.i < Count
      BY <1>0, <1>1, <1>7 DEF KeysInv, TableOK, Places
    <3> QED
      BY <1>0, <1>1, <1>2, <1>7, <2>1, <3>1 DEF Left
  <2>3. Unpassed(d)
    BY <1>1, <1>2, <2>1, <2>2 DEF Unpassed
  <2>4. CallOK(d, exists')
    BY <1>0, <1>1, <1>7, <2>1, <2>3 DEF CallOK, Places, Turns
  <2> QED
    BY <1>0, <1>7, <1>m, <2>1, <2>4 DEF KeyTypes, d
<1>8. c.i # SVR_MAX /\ (c.j # Turns => c.j < Turns)
  BY <1>0, <1>1 DEF Turns
<1> QED
  BY <1>4, <1>5, <1>6, <1>7, <1>8 DEF Scan, c

(* The table after a step of p: it is or will be complete as long as p,    *)
(* when it fills the table, goes on or is done.                            *)
Refills(p) == At(p, "fill") /\ Filled(call[p].i)

LEMMA TableKept ==
  ASSUME KeysInv, NEW p \in Callers,
         \A i \in Places : i >= Count => state'[i] = "none",
         \A t \in Testers : test'[t] = test[t] \/ test'[t].at \in {"idle", "begin"},
         \A o \in Callers \ {p} : call'[o].at = call[o].at /\ call'[o].i = call[o].i,
         \/ ~exists' \/ At(p, "create")' \/ At(p, "wipe")' \/ Refills(p)'
         \/ /\ exists /\ ~At(p, "create") /\ ~At(p, "wipe")
            /\ \A i \in Machines : state'[i] = state[i] \/ state'[i] # "none"
            /\ Refills(p) => Filled(Count)'
  PROVE  TableOK'
<1>1. \A t \in Testers :
        /\ test'[t].at = "probe" => test'[t].i <= SVR_MAX
        /\ test'[t].at = "write" => test'[t].i < Count /\ test'[t].found # "none"
  BY DEF KeysInv, TableOK
<1>2. ASSUME exists' PROVE \/ Filled(Count)'
                           \/ \E o \in Callers : At(o, "create")' \/ At(o, "wipe")' \/ Refills(o)'
  <2>0. SUFFICES ASSUME \A i \in Machines : state'[i] = state[i] \/ state'[i] # "none",
                        exists, ~At(p, "create"), ~At(p, "wipe"),
                        Refills(p) => Filled(Count)'
                 PROVE  \/ Filled(Count)'
                        \/ \E o \in Callers : At(o, "create")' \/ At(o, "wipe")' \/ Refills(o)'
    BY <1>2
  <2>1. Filled(Count) => Filled(Count)'
    BY <2>0 DEF Filled
  <2>2. ASSUME NEW o \in Callers \ {p}, At(o, "create") \/ At(o, "wipe") \/ Refills(o)
        PROVE  At(o, "create")' \/ At(o, "wipe")' \/ Refills(o)'
    BY <2>0, <2>2 DEF At, Filled, Refills
  <2> QED
    BY <2>0, <2>1, <2>2 DEF KeysInv, TableOK, Refills
<1> QED
  BY <1>1, <1>2 DEF TableOK, Refills

(* The children mark machines and nothing else. *)
LEMMA TesterKeeps ==
  ASSUME KeysInv, NEW t \in Testers, TesterStep(t) PROVE KeysInv'
<1>0. /\ KeyTypes /\ TableOK /\ CallersOK /\ exists' = exists /\ UNCHANGED <<curid, sumcnt>>
      /\ test[t] \in TestRec /\ SVR_MAX \in Nat /\ Count \in Nat /\ Count <= SVR_MAX
  BY SizeAssumption
     DEF KeysInv, KeyTypes, TesterStep, TestBegin, TestProbe, TestWrite, shm
<1>1. /\ call' \in [Callers -> CallRec] /\ CallersOK' /\ StillNormal'
      /\ \A o \in Callers : call'[o].at = call[o].at /\ call'[o].i = call[o].i
  BY <1>0, OthersEffect DEF TesterStep, TestBegin, TestProbe, TestWrite
<1>2. /\ test' \in [Testers -> TestRec] /\ \A u \in Testers \ {t} : test'[u] = test[u]
      /\ test'[t].at = "probe" => test'[t].i <= SVR_MAX
      /\ test'[t].at = "write" => test'[t].i < Count /\ test'[t].found # "none"
  <2>1. CASE TestBegin(t)
    BY <1>0, <2>1 DEF TestBegin, KeyTypes, TestRec
  <2>2. CASE TestProbe(t)
    <3>1. test[t].i \in Nat /\ test[t].i <= SVR_MAX
      BY <1>0, <2>2 DEF TestProbe, TableOK, TestRec
    <3>2. test[t].i # SVR_MAX /\ state[test[t].i] # "none" => test[t].i < Count
      BY <1>0, <3>1 DEF TableOK, Places
    <3> QED
      BY <1>0, <2>2, <3>1, <3>2 DEF TestProbe, KeyTypes, TestRec
  <2>3. CASE TestWrite(t)
    <3>1. test[t].i \in Nat /\ test[t].i < Count
      BY <1>0, <2>3 DEF TestWrite, TableOK, TestRec
    <3> QED
      BY <1>0, <2>3, <3>1 DEF TestWrite, KeyTypes, TestRec
  <2> QED
    BY <2>1, <2>2, <2>3 DEF TesterStep
<1>3. /\ state' \in [Places -> {"none", "0", "9"}]
      /\ \A i \in Places : i >= Count => state'[i] = "none"
      /\ \A i \in Machines : state[i] # "none" => state'[i] # "none"
  <2>1. CASE UNCHANGED state
    BY <1>0, <2>1 DEF KeyTypes, TableOK
  <2>2. CASE TestWrite(t)
    <3>1. test[t].i \in Nat /\ test[t].i < Count /\ test[t].found \in {"0", "9"}
      BY <1>0, <2>2 DEF TestWrite, TableOK, TestRec
    <3> QED
      BY <1>0, <2>2, <3>1 DEF TestWrite, KeyTypes, TableOK, Machines, Places
  <2> QED
    BY <2>1, <2>2 DEF TesterStep, TestBegin, TestProbe, shm
<1>4. TableOK'
  <2>1. \A u \in Testers :
          /\ test'[u].at = "probe" => test'[u].i <= SVR_MAX
          /\ test'[u].at = "write" => test'[u].i < Count /\ test'[u].found # "none"
    BY <1>0, <1>2 DEF TableOK
  <2>2. exists' => \/ Filled(Count)'
                   \/ \E o \in Callers : \/ At(o, "create")' \/ At(o, "wipe")'
                                         \/ At(o, "fill")' /\ Filled(call[o].i)'
    BY <1>0, <1>1, <1>3 DEF TableOK, At, Filled
  <2> QED
    BY <1>3, <2>1, <2>2 DEF TableOK, At, Filled
<1> QED
  BY <1>0, <1>1, <1>2, <1>3, <1>4 DEF KeysInv, KeyTypes

(* A step of a caller keeps the invariant if what it goes on with does. *)
LEMMA CallerMoves ==
  ASSUME KeysInv, NEW p \in Callers, NEW d \in CallRec, Set(p, d), CallOK(d, exists'),
         exists' \in BOOLEAN, exists => exists', curid' \in 0 .. SVR_MAX - 2, sumcnt' \in Nat,
         state' \in [Places -> {"none", "0", "9"}],
         \A i \in Places : i >= Count => state'[i] = "none",
         test' \in [Testers -> TestRec],
         \A t \in Testers : test'[t] = test[t] \/ test'[t].at \in {"idle", "begin"},
         \/ ~exists' \/ d.at = "create" \/ d.at = "wipe"
         \/ d.at = "fill" /\ \A i \in Machines : i < d.i => state'[i] # "none"
         \/ /\ exists /\ ~At(p, "create") /\ ~At(p, "wipe")
            /\ \A i \in Machines : state'[i] = state[i] \/ state'[i] # "none"
            /\ Refills(p) => Filled(Count)'
  PROVE  KeysInv'
<1>1. /\ call' \in [Callers -> CallRec] /\ CallersOK' /\ StillNormal'
      /\ call'[p].at = d.at /\ call'[p].i = d.i
      /\ \A o \in Callers \ {p} : call'[o].at = call[o].at /\ call'[o].i = call[o].i
  BY SetEffectKeys DEF KeysInv
<1>2. \/ ~exists' \/ At(p, "create")' \/ At(p, "wipe")' \/ Refills(p)'
      \/ /\ exists /\ ~At(p, "create") /\ ~At(p, "wipe")
         /\ \A i \in Machines : state'[i] = state[i] \/ state'[i] # "none"
         /\ Refills(p) => Filled(Count)'
  BY <1>1 DEF At, Refills, Filled
<1>3. TableOK'
  BY <1>1, <1>2, TableKept
<1> QED
  BY <1>1, <1>3 DEF KeysInv, KeyTypes

LEMMA CallerKeeps ==
  ASSUME KeysInv, ~OnlyLast, NEW p \in Callers, CallerStep(p) PROVE KeysInv'
<1> DEFINE c == call[p]
<1>0. /\ c \in CallRec /\ CallOK(c, exists) /\ exists \in BOOLEAN /\ sumcnt \in Nat
      /\ curid \in 0 .. SVR_MAX - 2 /\ state \in [Places -> {"none", "0", "9"}]
      /\ test \in [Testers -> TestRec] /\ \A i \in Places : i >= Count => state[i] = "none"
      /\ SVR_MAX \in Nat /\ Count \in Nat /\ SVR_MAX >= 2 /\ 1 <= Count /\ Count <= SVR_MAX
      /\ FirstId \in 0 .. SVR_MAX - 2 /\ Tries \in Nat
      /\ \A w : At(p, w) <=> c.at = w
  BY SizeAssumption DEF OnlyLast, KeysInv, KeyTypes, CallersOK, TableOK, At
<1>1. c.i \in Nat /\ c.j \in Nat /\ c.tries \in Nat /\ c.normal \subseteq Places
  BY <1>0 DEF CallRec
<1>2. Resting \in CallRec /\ Resting.at = "idle" /\ CallOK(Resting, exists)
  BY DEF Resting, CallRec, CallOK, Left
<1> HIDE DEF c
<1>3. CASE Get_MYJ_Info(p)
  <2>1. Tried(p) \in Nat
    BY <1>0, <1>1 DEF Tried, c
  <2>2. CASE exists
    <3> DEFINE d == [Resting EXCEPT !.at = "scan", !.tries = Tried(p), !.i = curid + 1,
                                    !.total = sumcnt, !.normal = Places]
    <3>0. curid + 1 \in Nat /\ curid + 1 < SVR_MAX /\ 0 < curid + 1
      BY <1>0
    <3>1. d \in CallRec /\ d.at = "scan" /\ ~d.refused /\ d.i = curid + 1 /\ d.j = 0
      BY ONLY <1>0, <2>1, <3>0 DEF Resting, CallRec
    <3>2. Set(p, d)
      BY <1>3, <2>2 DEF Get_MYJ_Info
    <3> HIDE DEF d
    <3>3. Unpassed(d)
      <4>1. \A x \in Left(d) : x \in Int
        BY <1>0, <3>1 DEF Left, CallRec, Places
      <4> QED
        BY <3>0, <3>1, <4>1 DEF Unpassed
    <3>4. CallOK(d, exists')
      BY <1>0, <1>3, <2>2, <3>0, <3>1, <3>3 DEF CallOK, Turns, Places, Get_MYJ_Info, shm
    <3> QED
      BY <1>0, <1>3, <2>2, <3>1, <3>2, <3>4, CallerMoves DEF Get_MYJ_Info, shm, Refills
  <2>3. CASE ~exists
    <3> DEFINE d == [Resting EXCEPT !.at = "create", !.tries = Tried(p), !.i = 0,
                                    !.total = sumcnt, !.normal = {}]
    <3>1. d \in CallRec /\ d.at = "create" /\ ~d.refused /\ d.normal = {}
      BY <1>0, <2>1 DEF Resting, CallRec
    <3>2. Set(p, d)
      BY <1>3, <2>3 DEF Get_MYJ_Info
    <3> HIDE DEF d
    <3>3. CallOK(d, exists')
      BY <3>1 DEF CallOK
    <3> QED
      BY <1>0, <1>3, <3>1, <3>2, <3>3, CallerMoves DEF Get_MYJ_Info, shm
  <2> QED
    BY <2>2, <2>3
<1>4. CASE CreateShm(p)
  <2> DEFINE d == [c EXCEPT !.at = "wipe"]
  <2>1. d \in CallRec /\ d.at = "wipe" /\ d.refused = c.refused /\ Left(d) = Left(c)
    BY <1>0 DEF CallRec, Left
  <2>2. Set(p, d) /\ exists'
    BY <1>4 DEF CreateShm, c
  <2> HIDE DEF d
  <2>3. CallOK(d, exists')
    BY <1>0, <2>1, <2>2 DEF CallOK
  <2> QED
    BY <1>0, <1>4, <2>1, <2>2, <2>3, CallerMoves DEF CreateShm
<1>5. CASE Wipe(p)
  <2> DEFINE d == [c EXCEPT !.at = "fill", !.i = 0]
  <2>1. /\ d \in CallRec /\ d.at = "fill" /\ d.refused = c.refused /\ d.i = 0
        /\ d.normal = c.normal
    BY <1>0 DEF CallRec
  <2>2. Set(p, d) /\ exists' = exists
    BY <1>5 DEF Wipe, c
  <2> HIDE DEF d
  <2>3. CallOK(d, exists')
    BY <1>0, <2>1, <2>2 DEF CallOK, Left
  <2>4. \A i \in Machines : ~(i < d.i)
    BY <1>0, <2>1 DEF Machines
  <2> QED
    BY <1>0, <1>5, <2>1, <2>2, <2>3, <2>4, CallerMoves DEF Wipe
<1>6. CASE Fill(p) /\ c.i < Count
  <2> DEFINE d == [c EXCEPT !.i = c.i + 1]
  <2>0. c \in CallRec /\ c.i + 1 \in Nat
    BY <1>0, <1>1
  <2>1. /\ d \in CallRec /\ d.at = c.at /\ d.refused = c.refused /\ d.i = c.i + 1
        /\ d.normal = c.normal
    BY ONLY <2>0 DEF CallRec
  <2>2. /\ Set(p, d) /\ exists' = exists /\ state' = [state EXCEPT ![c.i] = "0"]
        /\ c.at = "fill" /\ UNCHANGED <<curid, sumcnt, test>>
    BY <1>0, <1>6 DEF Fill, c
  <2> HIDE DEF d
  <2>3. CallOK(d, exists')
    BY <1>0, <2>1, <2>2 DEF CallOK, Left
  <2>4. /\ state' \in [Places -> {"none", "0", "9"}]
        /\ \A i \in Places : i >= Count => state'[i] = "none"
        /\ \A i \in Machines : /\ i = c.i => state'[i] = "0"
                               /\ i # c.i => state'[i] = state[i]
    BY <1>0, <1>1, <1>6, <2>2 DEF Places, Machines
  <2>5. Refills(p) => \A i \in Machines : i < d.i => state'[i] # "none"
    BY <1>0, <1>1, <2>1, <2>4 DEF Refills, Filled, Machines, c
  <2>6. ~exists' \/ (exists /\ ~At(p, "create") /\ ~At(p, "wipe"))
    BY <1>0, <2>2
  <2>7. \A i \in Machines : state'[i] = state[i] \/ state'[i] # "none"
    BY <2>4
  <2>8. CASE Refills(p)
    BY <1>0, <2>1, <2>2, <2>3, <2>4, <2>5, <2>8, CallerMoves
  <2>9. CASE ~Refills(p)
    BY <1>0, <2>1, <2>2, <2>3, <2>4, <2>6, <2>7, <2>9, CallerMoves
  <2> QED
    BY <2>8, <2>9
<1>7. CASE Fill(p) /\ ~(c.i < Count)
  <2> DEFINE d == [c EXCEPT !.at = "get"]
  <2>1. /\ d \in CallRec /\ d.at = "get" /\ d.refused = c.refused /\ d.normal = c.normal
    BY <1>0 DEF CallRec
  <2>2. /\ Set(p, d) /\ UNCHANGED <<exists, state, test>> /\ c.at = "fill"
        /\ sumcnt' = Count /\ curid' = FirstId
    BY <1>0, <1>7 DEF Fill, c
  <2> HIDE DEF d
  <2>3. CallOK(d, exists')
    BY <1>0, <2>1, <2>2 DEF CallOK, Left
  <2>4. Refills(p) => Filled(Count)'
    BY <1>0, <1>1, <1>7, <2>2 DEF Refills, Filled, Machines, c
  <2> QED
    BY <1>0, <2>1, <2>2, <2>3, <2>4, CallerMoves
<1>8. CASE CountFailed(p)
  <2>0. /\ UNCHANGED <<exists, curid, sumcnt, state>> /\ c.at = "count"
        /\ test' \in [Testers -> TestRec]
        /\ \A t \in Testers : test'[t] = test[t] \/ test'[t].at \in {"idle", "begin"}
    BY <1>0, <1>8 DEF CountFailed, shm, TestRec, c
  <2>1. CASE Set(p, Resting)
    BY <1>0, <1>2, <2>0, <2>1, CallerMoves DEF Refills
  <2> DEFINE d == [Resting EXCEPT !.at = "mark", !.i = c.i, !.tries = c.tries]
  <2>2. /\ d \in CallRec /\ d.at = "mark" /\ ~d.refused /\ d.i = c.i /\ d.normal = {}
    BY <1>1 DEF CallRec, Resting
  <2>3. CASE Set(p, d) /\ ~c.refused
    <3> HIDE DEF d
    <3>1. CallOK(d, exists')
      BY <1>0, <2>0, <2>2, <2>3 DEF CallOK
    <3> QED
      BY <1>0, <2>0, <2>2, <2>3, <3>1, CallerMoves DEF Refills
  <2> QED
    BY <1>8, <2>1, <2>3 DEF CountFailed, c
<1>9. CASE Set_MYJ_Info(p)
  <2>0. /\ UNCHANGED <<exists, curid, sumcnt, test>> /\ c.at = "mark" /\ c.i < Count
        /\ state' = [state EXCEPT ![c.i] = "9"]
    BY <1>0, <1>9 DEF Set_MYJ_Info, CallOK, c
  <2>1. /\ state' \in [Places -> {"none", "0", "9"}]
        /\ \A i \in Places : i >= Count => state'[i] = "none"
        /\ \A i \in Machines : state'[i] = state[i] \/ state'[i] # "none"
    BY <1>0, <1>1, <2>0 DEF Places, Machines
  <2>2. CASE Set(p, Resting)
    BY <1>0, <1>2, <2>0, <2>1, <2>2, CallerMoves DEF Refills
  <2> DEFINE d == [Resting EXCEPT !.at = "get", !.tries = c.tries + 1]
  <2>3. /\ d \in CallRec /\ d.at = "get" /\ ~d.refused /\ d.normal = {}
    <3>1. c.tries + 1 \in Nat
      BY <1>1
    <3> QED
      BY ONLY <3>1 DEF CallRec, Resting
  <2>4. CASE Set(p, d)
    <3> HIDE DEF d
    <3>1. CallOK(d, exists')
      BY <2>3 DEF CallOK
    <3> QED
      BY <1>0, <2>0, <2>1, <2>3, <2>4, <3>1, CallerMoves DEF Refills
  <2> QED
    BY <1>9, <2>2, <2>4 DEF Set_MYJ_Info, c
<1> QED
  BY <1>3, <1>4, <1>5, <1>6, <1>7, <1>8, <1>9, ScanKeeps DEF CallerStep

LEMMA KeysStep == ~OnlyLast /\ KeysInv /\ [KeysNext]_keyVars => KeysInv'
<1> SUFFICES ASSUME ~OnlyLast, KeysInv, [KeysNext]_keyVars PROVE KeysInv'
  OBVIOUS
<1>1. CASE Others /\ UNCHANGED <<exists, curid, sumcnt, state, test>>
  <2>1. /\ call' \in [Callers -> CallRec] /\ CallersOK' /\ StillNormal'
        /\ \A o \in Callers : call'[o].at = call[o].at /\ call'[o].i = call[o].i
    BY <1>1, OthersEffect DEF KeysInv
  <2> QED
    BY <1>1, <2>1 DEF KeysInv, KeyTypes, TableOK, At, Filled
<1>2. CASE UNCHANGED keyVars
  BY <1>2 DEF keyVars, shm, KeysInv, KeyTypes, TableOK, CallersOK, StillNormal, Normal, Filling,
              At, Filled
<1> QED
  BY <1>1, <1>2, CallerKeeps, TesterKeeps DEF KeysNext, Tick, Fails, ComesBack, shm

(* A caller is told that no machine works only when none but the last      *)
(* place of the table stayed marked normal while it looked -- for any      *)
(* number of callers, children and machines, wherever the scan began and   *)
(* whatever was marked meanwhile; but not when server.ini names a machine  *)
(* of the last number only.                                                *)
THEOREM RefusalIsTrue == KeysSpec => []RefusedNoneNormal
<1>1. KeysInit => OnlyLast \/ KeysInv
  <2> SUFFICES ASSUME KeysInit, ~OnlyLast PROVE KeysInv
    OBVIOUS
  <2>1. KeyTypes
    <3>1. Resting \in CallRec
      BY DEF Resting, CallRec
    <3>2. call \in [Callers -> CallRec]
      BY <3>1 DEF KeysInit
    <3>3. /\ exists \in BOOLEAN /\ sumcnt \in Nat /\ test \in [Testers -> TestRec]
          /\ state \in [Places -> {"none", "0", "9"}]
      BY DEF KeysInit, TestRec
    <3>4. curid \in 0 .. SVR_MAX - 2
      BY SizeAssumption DEF KeysInit, OnlyLast
    <3> QED
      BY <3>2, <3>3, <3>4 DEF KeyTypes
  <2>2. TableOK
    BY SizeAssumption DEF KeysInit, TableOK, Places, OnlyLast
  <2>3. CallersOK /\ StillNormal
    BY DEF KeysInit, CallersOK, StillNormal, CallOK, Resting, Left
  <2> QED
    BY <2>1, <2>2, <2>3 DEF KeysInv
<1>2. (OnlyLast \/ KeysInv) /\ [KeysNext]_keyVars => (OnlyLast \/ KeysInv)'
  BY KeysStep DEF OnlyLast
<1>3. OnlyLast \/ KeysInv => RefusedNoneNormal
  BY DEF KeysInv, CallersOK, CallOK, Left, RefusedNoneNormal
<1> QED
  BY <1>1, <1>2, <1>3, PTL DEF KeysSpec

-----------------------------------------------------------------------------
(* Agreements.                                                              *)

AgreementsTypeOK ==
    /\ agreement \in [Ids -> {"absent", "1", "2"}]
    /\ astage \in [Tellers -> {"idle", "center", "delete", "insert", "cancel", "new"}]
    /\ atask \in [Tellers -> [op : {"none", "XYHREG", "XYHCANCEL", "PF_1011"},
                              id : Ids \cup {"none"}]]

(* What a request works on at each of its points. *)
StageTask ==
    \A p \in Tellers :
        /\ astage[p] = "center" => atask[p].op \in {"XYHREG", "XYHCANCEL"}
        /\ astage[p] \in {"delete", "insert"} => atask[p].op = "XYHREG"
        /\ astage[p] = "cancel" => atask[p].op = "XYHCANCEL"
        /\ astage[p] \in {"center", "delete", "insert", "cancel"} => atask[p].id \in Joint
        /\ astage[p] = "new" => atask[p].id \in Local

Works(p, i) == astage[p] # "idle" /\ atask[p].id = i

(* Two requests at work on one agreement are noted in split. *)
OneWorks == \A i \in Joint \ split : \A p, q \in Tellers : Works(p, i) /\ Works(q, i) => p = q

(* The only request at work knows what the center has; with none at work    *)
(* the table has it too.                                                    *)
KnowsCenter ==
    \A i \in Joint \ split : \A p \in Tellers :
        Works(p, i) => /\ astage[p] \in {"delete", "insert"} => i \in centerHas
                       /\ astage[p] = "cancel" => i \notin centerHas
TableFollows ==
    \A i \in Joint \ split :
        (\A p \in Tellers : ~Works(p, i)) => (agreement[i] = "1" <=> i \in centerHas)

JointInv == AgreementsTypeOK /\ StageTask /\ OneWorks /\ KnowsCenter /\ TableFollows

(* Whoever is about to insert a local agreement is alone and saw none. *)
SeesNone ==
    doubled \/ /\ \A p, q \in Tellers : astage[p] = "new" /\ astage[q] = "new" => p = q
               /\ \A p \in Tellers : astage[p] = "new" => \A l \in Local : agreement[l] = "absent"

AgreeInv == JointInv /\ SeesNone /\ OneLocalAgreement

(* The invariant holds at first. *)
LEMMA AgreementsInitInv == AgreementsInit => AgreeInv
<1> SUFFICES ASSUME AgreementsInit PROVE AgreeInv
  OBVIOUS
<1>1. AgreementsTypeOK /\ StageTask
  BY DEF AgreementsInit, AgreementsTypeOK, StageTask, NoWork
<1>2. OneWorks /\ KnowsCenter /\ TableFollows
  BY AgreementsAssumption DEF AgreementsInit, OneWorks, KnowsCenter, TableFollows, Works
<1>3. SeesNone /\ OneLocalAgreement
  BY DEF AgreementsInit, SeesNone, OneLocalAgreement, Local
<1> QED BY <1>1, <1>2, <1>3 DEF AgreeInv, JointInv

(* A request that begins takes its agreement out of split when it is alone: *)
(* whatever the last one left, this one will set right.                     *)
LEMMA RequestInv ==
    ASSUME AgreeInv, NEW p \in Tellers, NEW i \in Ids, NEW op \in {"XYHREG", "XYHCANCEL"},
           Request(p, op, i)
    PROVE  AgreeInv'
<1> USE DEF AgreeInv, JointInv
<1>1. AgreementsTypeOK' /\ StageTask'
  BY DEF Request, AgreementsTypeOK, StageTask
<1>2. OneWorks'
  BY DEF Request, AgreementsTypeOK, OneWorks, Works, OthersAsk
<1>3. KnowsCenter' /\ TableFollows'
  BY DEF Request, AgreementsTypeOK, KnowsCenter, TableFollows, Works, OthersAsk
<1>4. SeesNone' /\ OneLocalAgreement'
  BY DEF Request, AgreementsTypeOK, SeesNone, OneLocalAgreement
<1> QED BY <1>1, <1>2, <1>3, <1>4

(* The center decides; the request goes on whatever came back. *)
LEMMA AskCenterInv == ASSUME AgreeInv, NEW p \in Tellers, AskCenter(p) PROVE AgreeInv'
<1> USE DEF AgreeInv, JointInv, Goes, Mark, Overlap
<1>1. AgreementsTypeOK' /\ StageTask'
  BY DEF AskCenter, AgreementsTypeOK, StageTask
<1>2. OneWorks'
  BY DEF AskCenter, AgreementsTypeOK, OneWorks, Works, OthersAsk
<1>3. KnowsCenter'
  BY DEF AskCenter, AgreementsTypeOK, StageTask, KnowsCenter, Works, OthersAsk
<1>4. TableFollows'
  BY DEF AskCenter, AgreementsTypeOK, StageTask, TableFollows, Works, OthersAsk
<1>5. SeesNone' /\ OneLocalAgreement'
  BY DEF AskCenter, AgreementsTypeOK, SeesNone, OneLocalAgreement
<1> QED BY <1>1, <1>2, <1>3, <1>4, <1>5

(* The statements on the table touch the agreement of their request only.  *)
LEMMA TableInv ==
    ASSUME AgreeInv, NEW p \in Tellers,
           DeleteAgreement(p) \/ InsertAgreement(p) \/ CancelAgreement(p)
    PROVE  AgreeInv'
<1> USE DEF AgreeInv, JointInv, Goes, Leave, NoWork, Mark, Overlap, Put
<1>1. AgreementsTypeOK'
  BY DEF DeleteAgreement, InsertAgreement, CancelAgreement, AgreementsTypeOK
<1>2. StageTask'
  BY DEF DeleteAgreement, InsertAgreement, CancelAgreement, AgreementsTypeOK, StageTask
<1>3. OneWorks'
  BY DEF DeleteAgreement, InsertAgreement, CancelAgreement, AgreementsTypeOK, OneWorks, Works
<1>4. KnowsCenter'
  BY DEF DeleteAgreement, InsertAgreement, CancelAgreement, AgreementsTypeOK, StageTask,
         KnowsCenter, Works
<1>5. TableFollows'
  <2>1. CASE DeleteAgreement(p)
    BY <2>1, AgreementsAssumption DEF DeleteAgreement, AgreementsTypeOK, TableFollows, Works
  <2>2. CASE InsertAgreement(p)
    BY <2>2, AgreementsAssumption DEF InsertAgreement, AgreementsTypeOK, StageTask, KnowsCenter, TableFollows,
                Works, OthersAsk
  <2>3. CASE CancelAgreement(p)
    BY <2>3, AgreementsAssumption DEF CancelAgreement, AgreementsTypeOK, StageTask, KnowsCenter, TableFollows,
                Works, OthersAsk
  <2> QED BY <2>1, <2>2, <2>3
<1>6. atask[p].id \in Joint
  BY DEF DeleteAgreement, InsertAgreement, CancelAgreement, StageTask
<1>7. \A l \in Local : agreement'[l] = agreement[l]
  BY <1>6 DEF DeleteAgreement, InsertAgreement, CancelAgreement, AgreementsTypeOK, Local
<1>8. \A q \in Tellers : astage'[q] = "new" => astage[q] = "new"
  BY DEF DeleteAgreement, InsertAgreement, CancelAgreement, AgreementsTypeOK
<1>9. SeesNone' /\ OneLocalAgreement'
  BY <1>7, <1>8
     DEF DeleteAgreement, InsertAgreement, CancelAgreement, SeesNone, OneLocalAgreement
<1> QED BY <1>1, <1>2, <1>3, <1>4, <1>5, <1>9

(* The requests of this bank alone, and deaths. *)
LEMMA LocalInv ==
    ASSUME AgreeInv, NEW p \in Tellers, NEW i \in Ids,
           PF_1011(p, i) \/ PF_1012(p, i) \/ InsertLocal(p) \/ TellerDies(p)
    PROVE  AgreeInv'
<1> USE DEF AgreeInv, JointInv, Leave, NoWork, Mark, Put
<1>1. AgreementsTypeOK'
  BY DEF PF_1011, PF_1012, InsertLocal, TellerDies, AgreementsTypeOK
<1>2. StageTask'
  BY DEF PF_1011, PF_1012, InsertLocal, TellerDies, AgreementsTypeOK, StageTask
<1>3. OneWorks' /\ KnowsCenter'
  BY DEF PF_1011, PF_1012, InsertLocal, TellerDies, AgreementsTypeOK, StageTask, OneWorks,
         KnowsCenter, Works, Local
<1>4. TableFollows'
  <2>1. CASE TellerDies(p)
    BY <2>1 DEF TellerDies, AgreementsTypeOK, TableFollows, Works
  <2>2. CASE PF_1011(p, i)
    BY <2>2 DEF PF_1011, AgreementsTypeOK, TableFollows, Works, Local
  <2>3. CASE PF_1012(p, i)
    BY <2>3, AgreementsAssumption DEF PF_1012, AgreementsTypeOK, TableFollows, Works, Local
  <2>4. CASE InsertLocal(p)
    BY <2>4, AgreementsAssumption DEF InsertLocal, AgreementsTypeOK, StageTask, TableFollows, Works, Local
  <2> QED BY <2>1, <2>2, <2>3, <2>4
<1>5. SeesNone' /\ OneLocalAgreement'
  <2>1. CASE TellerDies(p)
    BY <2>1 DEF TellerDies, AgreementsTypeOK, SeesNone, OneLocalAgreement
  <2>2. CASE PF_1011(p, i)
    <3> DEFINE found == \E l \in Local : agreement[l] # "absent"
               new == \E q \in Tellers : astage[q] = "new"
    <3>1. CASE found /\ UNCHANGED <<astage, atask, doubled>>
      BY <2>2, <3>1 DEF PF_1011, SeesNone, OneLocalAgreement
    <3>2. CASE doubled' = (doubled \/ found \/ new)
      <4>1. CASE doubled \/ found \/ new
        BY <3>2, <4>1 DEF SeesNone, OneLocalAgreement
      <4>2. CASE ~(doubled \/ found \/ new)
        <5>1. \A l \in Local : agreement'[l] = "absent"
          BY <2>2, <4>2 DEF PF_1011
        <5>2. \A q \in Tellers : astage'[q] = "new" => q = p
          BY <2>2, <4>2 DEF PF_1011, AgreementsTypeOK
        <5> QED BY <5>1, <5>2 DEF SeesNone, OneLocalAgreement
      <4> QED BY <4>1, <4>2
    <3> QED BY <2>2, <3>1, <3>2 DEF PF_1011
  <2>3. CASE PF_1012(p, i)
    BY <2>3 DEF PF_1012, AgreementsTypeOK, SeesNone, OneLocalAgreement, Local
  <2>4. CASE InsertLocal(p)
    BY <2>4 DEF InsertLocal, AgreementsTypeOK, StageTask, SeesNone, OneLocalAgreement, Local
  <2> QED BY <2>1, <2>2, <2>3, <2>4
<1> QED BY <1>1, <1>2, <1>3, <1>4, <1>5

(* No step breaks the invariant. *)
LEMMA AgreementsInductive == AgreementsSpec => []AgreeInv
<1>1. AgreeInv /\ [AgreementsNext]_agreeVars => AgreeInv'
  <2> SUFFICES ASSUME AgreeInv, [AgreementsNext]_agreeVars PROVE AgreeInv'
    OBVIOUS
  <2>1. CASE UNCHANGED agreeVars
    BY <2>1 DEF agreeVars, AgreeInv, JointInv, AgreementsTypeOK, StageTask, OneWorks,
                KnowsCenter, TableFollows, Works, SeesNone, OneLocalAgreement
  <2>2. CASE AgreementsNext
    <3>1. PICK p \in Tellers :
             \/ AskCenter(p) \/ DeleteAgreement(p) \/ InsertAgreement(p) \/ CancelAgreement(p)
             \/ InsertLocal(p) \/ TellerDies(p)
             \/ \E i \in Ids : \/ PF_1011(p, i) \/ PF_1012(p, i)
                               \/ \E op \in {"XYHREG", "XYHCANCEL"} : Request(p, op, i)
      BY <2>2 DEF AgreementsNext
    <3>2. CASE InsertLocal(p) \/ TellerDies(p)
      <4>1. Ids # {}
        BY <3>2, AgreementsAssumption
         DEF InsertLocal, TellerDies, AgreeInv, JointInv, StageTask, AgreementsTypeOK, Local
      <4> QED BY <3>2, <4>1, LocalInv
    <3> QED BY <3>1, <3>2, RequestInv, AskCenterInv, TableInv, LocalInv
  <2> QED BY <2>1, <2>2
<1> QED BY <1>1, AgreementsInitInv, PTL DEF AgreementsSpec

(* Between requests the table and the center agree on which agreements are  *)
(* in force (OPAdmAfterCommToPH, ChkAgreement), unless the last request for *)
(* one was refused, lost, failed, died or overlapped with another.          *)
THEOREM TableAgrees == AgreementsSpec => []AgreementsAgree
<1>1. AgreeInv => AgreementsAgree
  BY AgreementsAssumption
     DEF AgreeInv, JointInv, AgreementsTypeOK, TableFollows, Works, AgreementsAgree, ChkAgreement
<1> QED BY <1>1, AgreementsInductive, PTL

(* PF_1011 admits one agreement kept by this bank alone, whatever ids are   *)
(* asked for, unless its SELECT fails or two run at once.                   *)
THEOREM LocalIsOne == AgreementsSpec => []OneLocalAgreement
BY AgreementsInductive, PTL DEF AgreeInv

-----------------------------------------------------------------------------
(* Operators.                                                               *)

OperatorsTypeOK ==
    /\ operstat \in {"LOGOFF", "LOGIN", "CANCEL"}
    /\ ostage \in [Desks -> {"idle", "login", "modpwd", "reset", "clrpwd"}]
    /\ told \in [Desks -> {"none", "error", "OK", "PASSWD", "CANCEL"}]

(* Whoever may still change the state of a cancelled operator has looked at *)
(* it before.                                                               *)
LookedBefore ==
    barred => \A d \in Desks : ostage[d] \in {"login", "reset"} => d \in looked

OperInv == OperatorsTypeOK /\ LookedBefore /\ CancelledStays

(* A request that looks and is refused, or accepted, leaves the state. *)
LEMMA LookInv ==
    ASSUME OperInv, NEW d \in Desks,
           NEW a \in {"error", "OK", "PASSWD", "CANCEL"},
           NEW u \in {"login", "modpwd", "reset", "clrpwd"},
           ostage[d] = "idle",
           Reject(d, a) \/ (Enter(d, u) /\ (operstat # "CANCEL" \/ u \notin {"login", "reset"}))
    PROVE  OperInv'
<1>1. OperatorsTypeOK'
  BY DEF OperInv, OperatorsTypeOK, Reject, Enter, About, Tell
<1>2. CancelledStays'
  BY DEF OperInv, CancelledStays, Reject, Enter
<1>3. LookedBefore'
  BY DEF OperInv, OperatorsTypeOK, LookedBefore, CancelledStays, Reject, Enter, About, Tell
<1> QED BY <1>1, <1>2, <1>3 DEF OperInv

(* The UPDATE of a request: one that logs in or resets had looked before,   *)
(* if the operator is barred.                                               *)
LEMMA UpdateInv == ASSUME OperInv, NEW d \in Desks, UpdateOper(d) PROVE OperInv'
<1>1. OperatorsTypeOK'
  BY DEF OperInv, OperatorsTypeOK, UpdateOper, Quit, Tell
<1>2. barred' => barred
  BY DEF UpdateOper, Quit
<1>3. ostage' = [ostage EXCEPT ![d] = "idle"] /\ looked' = looked \ {d}
  BY DEF UpdateOper, Quit, Tell
<1>4. LookedBefore'
  BY <1>2, <1>3 DEF OperInv, OperatorsTypeOK, LookedBefore
<1>5. CancelledStays'
  <2> SUFFICES ASSUME barred' PROVE operstat' = "CANCEL"
    BY DEF CancelledStays
  <2>1. operstat = "CANCEL"
    BY <1>2 DEF OperInv, CancelledStays
  <2>2. CASE ostage[d] \in {"login", "reset"}
    <3>1. d \in looked
      BY <1>2, <2>2 DEF OperInv, LookedBefore
    <3> QED BY <2>1, <2>2, <3>1 DEF UpdateOper
  <2>3. CASE ostage[d] \notin {"login", "reset"}
    BY <2>1, <2>3 DEF UpdateOper
  <2> QED BY <2>2, <2>3
<1> QED BY <1>1, <1>4, <1>5 DEF OperInv

(* A cancelled operator stays cancelled (tcMng.c, OPAdminOperHandle), but   *)
(* for a log-out, and for a log-in or reset that had looked before.         *)
THEOREM StaysCancelled == OperatorsSpec => []CancelledStays
<1>1. OperatorsInit => OperInv
  BY DEF OperatorsInit, OperInv, OperatorsTypeOK, LookedBefore, CancelledStays
<1>2. OperInv /\ [OperatorsNext]_operVars => OperInv'
  <2> SUFFICES ASSUME OperInv, [OperatorsNext]_operVars PROVE OperInv'
    OBVIOUS
  <2>1. CASE UNCHANGED operVars
    BY <2>1 DEF operVars, OperInv, OperatorsTypeOK, LookedBefore, CancelledStays
  <2>2. ASSUME NEW d \in Desks, OPT_OPER_RESET(d) \/ OPT_OPER_CLRPWD(d) PROVE OperInv'
    BY <2>2, LookInv DEF OPT_OPER_RESET, OPT_OPER_CLRPWD
  <2>3. ASSUME NEW d \in Desks, OPT_OPER_LOGOUT(d) PROVE OperInv'
    BY <2>3 DEF OPT_OPER_LOGOUT, Tell, OperInv, OperatorsTypeOK, LookedBefore, CancelledStays
  <2>4. ASSUME NEW d \in Desks, OPT_OPER_CANCEL(d) PROVE OperInv'
    BY <2>4 DEF OPT_OPER_CANCEL, Tell, OperInv, OperatorsTypeOK, LookedBefore, CancelledStays
  <2>5. ASSUME NEW d \in Desks, NEW s \in Secrets, OPT_OPER_LOGIN(d, s) PROVE OperInv'
    BY <2>5, LookInv DEF OPT_OPER_LOGIN
  <2>6. ASSUME NEW d \in Desks, NEW s \in Secrets, OPT_OPER_MODPWD(d, s) PROVE OperInv'
    BY <2>6, LookInv DEF OPT_OPER_MODPWD
  <2>7. ASSUME NEW d \in Desks, NEW s \in Secrets, OPT_OPER_AUTHORIZE(d, s) PROVE OperInv'
    BY <2>7, LookInv DEF OPT_OPER_AUTHORIZE
  <2> QED BY <2>1, <2>2, <2>3, <2>4, <2>5, <2>6, <2>7, UpdateInv DEF OperatorsNext
<1>3. OperInv => CancelledStays
  BY DEF OperInv
<1> QED BY <1>1, <1>2, <1>3, PTL DEF OperatorsSpec

-----------------------------------------------------------------------------
(* Params: the downloads.                                                   *)

Rows(v, ls) == {[ver |-> v, line |-> l] : l \in ls}

TablesTypeOK ==
    /\ version \in Nat \ {0}
    /\ table \in [1..Len(Tables) -> SUBSET [ver : Nat, line : 1..Lines]]
    /\ down \in [Handlers -> [ver : Nat, nr : 0..Len(Tables), left : 0..(Lines + 1)]]
    /\ \A p \in Handlers : Downloading(p) => down[p].nr > 0 /\ down[p].ver \in 1..version
    /\ torn \in BOOLEAN

(* Two downloads at once are noted in torn. *)
OneDownload == ~torn => \A p, q \in Handlers : Downloading(p) /\ Downloading(q) => p = q

(* The only one has filled the tables before its own, and of its own the    *)
(* lines it has had.                                                        *)
FilledSoFar ==
    ~torn => \A p \in Handlers : Downloading(p) =>
        /\ \A n \in 1..(down[p].nr - 1) : table[n] = Rows(down[p].ver, 1..Lines)
        /\ down[p].left <= Lines =>
              table[down[p].nr] = Rows(down[p].ver, (down[p].left + 1)..Lines)

TablesInv == TablesTypeOK /\ OneDownload /\ FilledSoFar /\ TablesWhole

(* A start: the tables are complete when nobody else downloads. *)
LEMMA StartInv == ASSUME TablesInv, NEW p \in Handlers, PF_1619(p) PROVE TablesInv'
<1> USE ParamsAssumption
<1> DEFINE d == [ver |-> version, nr |-> 1, left |-> Lines + 1]
<1>1. /\ ~Downloading(p) /\ down' = [down EXCEPT ![p] = d]
      /\ torn' = \E q \in Handlers : Downloading(q)
      /\ version' = version /\ table' = table
  BY DEF PF_1619
<1>2. /\ d \in [ver : Nat, nr : 0..Len(Tables), left : 0..(Lines + 1)]
      /\ d.nr = 1 /\ d.left = Lines + 1 /\ d.ver = version /\ d.ver \in 1..version /\ d # NoFile
  BY DEF TablesInv, TablesTypeOK, NoFile
<1>3. down'[p] = d /\ \A q \in Handlers \ {p} : down'[q] = down[q]
  BY <1>1 DEF TablesInv, TablesTypeOK
<1> HIDE DEF d
<1>4. TablesTypeOK'
  BY <1>1, <1>2, <1>3 DEF TablesInv, TablesTypeOK, Downloading
<1>5. ASSUME ~torn', NEW q \in Handlers, Downloading(q)' PROVE q = p
  BY <1>1, <1>3, <1>5 DEF Downloading
<1>6. OneDownload'
  BY <1>5 DEF OneDownload
<1>7. FilledSoFar'
  <2> SUFFICES ASSUME ~torn' PROVE FilledSoFar'
    BY DEF FilledSoFar
  <2>1. 1..(d.nr - 1) = {} /\ ~(d.left <= Lines)
    BY <1>2
  <2> QED BY <1>3, <1>5, <2>1 DEF FilledSoFar
<1>8. TablesWhole'
  BY <1>2, <1>3 DEF TablesWhole, Downloading
<1> QED BY <1>4, <1>6, <1>7, <1>8 DEF TablesInv

(* A line, or the rows of the former file. *)
LEMMA FillInv ==
    ASSUME TablesInv, NEW p \in Handlers, DeleteRows(p) \/ InsertLine(p) PROVE TablesInv'
<1> USE ParamsAssumption
<1> DEFINE d == down[p]
           l == d.left - 1
           e == [d EXCEPT !.left = l]
<1>1. d \in [ver : Nat, nr : 0..Len(Tables), left : 0..(Lines + 1)] /\ d.left \in 1..(Lines + 1)
  BY DEF TablesInv, TablesTypeOK, DeleteRows, InsertLine
<1>2. d # NoFile
  BY <1>1 DEF NoFile
<1>3. /\ torn' = torn /\ version' = version
      /\ down' = [down EXCEPT ![p].left = l]
      /\ table' = [table EXCEPT ![d.nr] =
                      IF d.left = Lines + 1 THEN {} ELSE @ \cup {[ver |-> d.ver, line |-> d.left]}]
  <2>1. CASE DeleteRows(p)
    <3>1. d.left = Lines + 1 /\ l = Lines
      BY <1>1, <2>1 DEF DeleteRows
    <3> QED BY <2>1, <3>1 DEF DeleteRows
  <2>2. CASE InsertLine(p)
    <3>1. d.left # Lines + 1
      BY <2>2 DEF InsertLine
    <3> QED BY <2>2, <3>1 DEF InsertLine
  <2> QED BY <2>1, <2>2
<1>4. d.nr > 0 /\ d.ver \in 1..version
  BY <1>2 DEF TablesInv, TablesTypeOK, Downloading
<1>5. e.ver = d.ver /\ e.nr = d.nr /\ e.left = l /\ l \in 0..Lines
      /\ e \in [ver : Nat, nr : 0..Len(Tables), left : 0..(Lines + 1)]
  BY <1>1
<1>6. e # NoFile
  BY <1>4, <1>5 DEF NoFile
<1>7. down'[p] = e /\ \A q \in Handlers \ {p} : down'[q] = down[q]
  BY <1>3 DEF TablesInv, TablesTypeOK
<1>8. \A q \in Handlers : Downloading(q)' <=> Downloading(q)
  BY <1>2, <1>6, <1>7 DEF Downloading
<1>9. /\ table' \in [1..Len(Tables) -> SUBSET [ver : Nat, line : 1..Lines]]
      /\ \A n \in 1..Len(Tables) \ {d.nr} : table'[n] = table[n]
      /\ table'[d.nr] = IF d.left = Lines + 1 THEN {}
                        ELSE table[d.nr] \cup {[ver |-> d.ver, line |-> d.left]}
  <2>1. /\ d.nr \in 1..Len(Tables)
        /\ table \in [1..Len(Tables) -> SUBSET [ver : Nat, line : 1..Lines]]
        /\ d.left # Lines + 1 => [ver |-> d.ver, line |-> d.left] \in [ver : Nat, line : 1..Lines]
    BY <1>1, <1>4 DEF TablesInv, TablesTypeOK
  <2> HIDE DEF d, l
  <2> QED BY <1>3, <2>1
<1>10. TablesTypeOK'
  <2>1. down' \in [Handlers -> [ver : Nat, nr : 0..Len(Tables), left : 0..(Lines + 1)]]
    BY <1>3, <1>5 DEF TablesInv, TablesTypeOK
  <2>2. \A q \in Handlers : Downloading(q)' => down'[q].nr > 0 /\ down'[q].ver \in 1..version
    BY <1>4, <1>5, <1>7, <1>8 DEF TablesInv, TablesTypeOK
  <2> QED BY <1>3, <1>9, <2>1, <2>2 DEF TablesInv, TablesTypeOK
<1>11. OneDownload'
  BY <1>3, <1>8 DEF TablesInv, OneDownload
<1>12. FilledSoFar'
  <2> SUFFICES ASSUME ~torn PROVE FilledSoFar'
    BY <1>3 DEF FilledSoFar
  <2>1. \A q \in Handlers : Downloading(q)' => q = p
    BY <1>2, <1>8 DEF TablesInv, OneDownload, Downloading
  <2>2. /\ \A n \in 1..(d.nr - 1) : table[n] = Rows(d.ver, 1..Lines)
        /\ d.left <= Lines => table[d.nr] = Rows(d.ver, (d.left + 1)..Lines)
    BY <1>2 DEF TablesInv, FilledSoFar, Downloading
  <2>3. \A n \in 1..(d.nr - 1) : table'[n] = Rows(d.ver, 1..Lines)
    BY <1>1, <1>9, <2>2
  <2>4. table'[d.nr] = Rows(d.ver, (l + 1)..Lines)
    <3>1. CASE d.left = Lines + 1
      <4>1. (l + 1)..Lines = {}
        BY <1>1, <3>1
      <4> QED BY <1>9, <3>1, <4>1 DEF Rows
    <3>2. CASE d.left # Lines + 1
      <4>1. (l + 1)..Lines = ((d.left + 1)..Lines) \cup {d.left}
        BY <1>1, <3>2
      <4>2. table[d.nr] = Rows(d.ver, (d.left + 1)..Lines)
        BY <1>1, <2>2, <3>2
      <4> HIDE DEF d, l
      <4> QED BY <1>9, <3>2, <4>1, <4>2 DEF Rows
    <3> QED BY <3>1, <3>2
  <2> QED BY <1>5, <1>7, <2>1, <2>3, <2>4 DEF FilledSoFar
<1>13. TablesWhole'
  BY <1>2, <1>8 DEF TablesWhole, Downloading
<1> QED BY <1>10, <1>11, <1>12, <1>13 DEF TablesInv

(* On to the next table, or, after the last, done. *)
LEMMA TableDoneInv == ASSUME TablesInv, NEW p \in Handlers, NextTable(p) PROVE TablesInv'
<1> USE ParamsAssumption
<1> DEFINE d == down[p]
           e == IF d.nr = Len(Tables) THEN NoFile
                ELSE [ver |-> d.ver, nr |-> d.nr + 1, left |-> Lines + 1]
<1>1. /\ Downloading(p) /\ d.left = 0 /\ torn' = torn /\ version' = version /\ table' = table
      /\ down' = [down EXCEPT ![p] = e]
  BY DEF NextTable
<1>2. /\ d \in [ver : Nat, nr : 0..Len(Tables), left : 0..(Lines + 1)]
      /\ d.nr > 0 /\ d.ver \in 1..version
  BY <1>1 DEF TablesInv, TablesTypeOK
<1>3. e \in [ver : Nat, nr : 0..Len(Tables), left : 0..(Lines + 1)]
      /\ (d.nr # Len(Tables) => e.nr = d.nr + 1 /\ e.left = Lines + 1 /\ e.ver = d.ver)
  BY <1>2 DEF NoFile
<1>4. d.nr = Len(Tables) => e = NoFile
  OBVIOUS
<1>5. down'[p] = e /\ \A q \in Handlers \ {p} : down'[q] = down[q]
  BY <1>1 DEF TablesInv, TablesTypeOK
<1>6. \A q \in Handlers : Downloading(q)' => Downloading(q) /\ (q = p => d.nr # Len(Tables))
  BY <1>1, <1>4, <1>5 DEF Downloading
<1>7. TablesTypeOK'
  <2>1. down' \in [Handlers -> [ver : Nat, nr : 0..Len(Tables), left : 0..(Lines + 1)]]
    BY <1>1, <1>3 DEF TablesInv, TablesTypeOK
  <2>2. \A q \in Handlers : Downloading(q)' => down'[q].nr > 0 /\ down'[q].ver \in 1..version
    BY <1>2, <1>3, <1>5, <1>6 DEF TablesInv, TablesTypeOK
  <2> QED BY <1>1, <2>1, <2>2 DEF TablesInv, TablesTypeOK
<1>8. OneDownload'
  BY <1>1, <1>6 DEF TablesInv, OneDownload
<1>9. ASSUME ~torn
      PROVE  /\ \A q \in Handlers : Downloading(q)' => q = p
             /\ \A n \in 1..d.nr : table[n] = Rows(d.ver, 1..Lines)
  <2>1. \A n \in 1..(d.nr - 1) : table[n] = Rows(d.ver, 1..Lines)
    BY <1>1, <1>9 DEF TablesInv, FilledSoFar
  <2>2. table[d.nr] = Rows(d.ver, (0 + 1)..Lines)
    BY <1>1, <1>9 DEF TablesInv, FilledSoFar
  <2>3. (0 + 1)..Lines = 1..Lines
    OBVIOUS
  <2> QED BY <1>1, <1>2, <1>6, <1>9, <2>1, <2>2, <2>3 DEF TablesInv, OneDownload
<1>10. FilledSoFar'
  <2> SUFFICES ASSUME ~torn, Downloading(p)'
               PROVE  /\ \A n \in 1..(e.nr - 1) : table[n] = Rows(e.ver, 1..Lines)
                      /\ ~(e.left <= Lines)
    BY <1>1, <1>5, <1>9 DEF FilledSoFar
  <2> HIDE DEF e
  <2> QED BY <1>2, <1>3, <1>6, <1>9
<1>11. TablesWhole'
  <2> SUFFICES ASSUME ~torn, \A q \in Handlers : ~Downloading(q)' PROVE TablesWhole'
    BY <1>1 DEF TablesWhole
  <2>1. d.nr = Len(Tables)
    <3>1. d.nr # Len(Tables) => e.nr # 0
      BY <1>2, <1>3
    <3> HIDE DEF e
    <3> QED BY <1>5, <3>1 DEF Downloading, NoFile
  <2>2. \A n \in DOMAIN table : table[n] = {[ver |-> d.ver, line |-> k] : k \in 1..Lines}
    BY <1>9, <2>1 DEF Rows, TablesInv, TablesTypeOK
  <2> QED BY <1>1, <1>2, <2>2 DEF TablesWhole
<1> QED BY <1>7, <1>8, <1>10, <1>11 DEF TablesInv

(* Between complete downloads every code table holds one and the same       *)
(* version of the center's files (PF_1619), unless the last download        *)
(* failed, died or overlapped with another.                                 *)
THEOREM TablesAreWhole == ParamsSpec => []TablesWhole
<1> USE ParamsAssumption
<1>1. ParamsInit => TablesInv
  <2> SUFFICES ASSUME ParamsInit PROVE TablesInv
    OBVIOUS
  <2>0. /\ version = 1 /\ torn = FALSE
        /\ table = [n \in 1..Len(Tables) |-> {[ver |-> 1, line |-> l] : l \in 1..Lines}]
        /\ down = [p \in Handlers |-> NoFile]
    BY DEF ParamsInit
  <2>1. \A p \in Handlers : ~Downloading(p)
    BY <2>0 DEF Downloading
  <2>2. TablesTypeOK
    <3>1. table \in [1..Len(Tables) -> SUBSET [ver : Nat, line : 1..Lines]]
      BY ONLY ParamsAssumption, <2>0
    <3>2. NoFile \in [ver : Nat, nr : 0..Len(Tables), left : 0..(Lines + 1)]
      BY ONLY ParamsAssumption DEF NoFile
    <3>3. down \in [Handlers -> [ver : Nat, nr : 0..Len(Tables), left : 0..(Lines + 1)]]
      BY ONLY <2>0, <3>2
    <3>4. version \in Nat \ {0}
      BY ONLY <2>0
    <3>5. torn \in BOOLEAN
      BY ONLY Zenon, <2>0
    <3> QED BY ONLY <2>1, <3>1, <3>3, <3>4, <3>5 DEF TablesTypeOK
  <2>3. TablesWhole
    BY ONLY ParamsAssumption, <2>0 DEF TablesWhole
  <2> QED BY <2>1, <2>2, <2>3 DEF TablesInv, OneDownload, FilledSoFar
<1>2. TablesInv /\ [SyncNext \/ DownloadNext]_paramVars => TablesInv'
  <2> SUFFICES ASSUME TablesInv, [SyncNext \/ DownloadNext]_paramVars PROVE TablesInv'
    OBVIOUS
  <2>1. CASE SyncNext \/ UNCHANGED paramVars
    <3>1. UNCHANGED tableVars
      BY <2>1 DEF SyncNext, paramVars, CenterMoves, EnterBlock, UpdSysPara, UpdFails,
                  HandlerEnds, Take
    <3> QED BY <3>1 DEF tableVars, TablesInv, TablesTypeOK, OneDownload, FilledSoFar,
                        TablesWhole, Downloading
  <2>2. CASE CenterChanges
    <3>1. /\ table' = table /\ down' = down /\ torn' = torn
          /\ version' = version + 1 /\ version \in Nat /\ 1..version \subseteq 1..version'
      BY <2>2 DEF CenterChanges, TablesInv, TablesTypeOK
    <3>2. TablesTypeOK'
      BY <3>1 DEF TablesInv, TablesTypeOK, Downloading
    <3>3. TablesWhole'
      BY <3>1 DEF TablesInv, TablesWhole, Downloading
    <3> QED BY <3>1, <3>2, <3>3 DEF TablesInv, OneDownload, FilledSoFar, Downloading
  <2>3. ASSUME NEW p \in Handlers, DownloadFails(p) PROVE TablesInv'
    <3>1. /\ table' = table /\ torn' = TRUE /\ version' = version
          /\ down' = [down EXCEPT ![p] = NoFile]
      BY <2>3 DEF DownloadFails
    <3>2. TablesTypeOK'
      BY <3>1 DEF TablesInv, TablesTypeOK, Downloading, NoFile
    <3> QED BY <3>1, <3>2 DEF TablesInv, OneDownload, FilledSoFar, TablesWhole
  <2> QED BY <2>1, <2>2, <2>3, StartInv, FillInv, TableDoneInv DEF DownloadNext
<1>3. TablesInv => TablesWhole
  BY DEF TablesInv
<1> QED BY <1>1, <1>2, <1>3, PTL DEF ParamsSpec

-----------------------------------------------------------------------------
(* Params: the status.                                                      *)

Compared == {"work", "round", "clear", "exchg"}
Fields   == Told \cup DOMAIN Previous
Blocks   == [differs : Told \cup {"any"}, fields : Seq(Fields)]
Has(s, f) == \E i \in 1..Len(s) : s[i] = f

SyncTypeOK ==
    /\ status \in [Told -> Nat]
    /\ para \in [Fields -> Nat]
    /\ hand \in [Handlers -> [h : {"none", "1601", "1602", "1603"}, msg : [Told -> Nat],
                              blocks : Seq(Blocks), fields : Seq(Fields), clean : BOOLEAN]]

(* PF_1601 sets what it has found to differ. *)
SetsCompared ==
    \A p \in Handlers : hand[p].h = "1601" => \A i \in 1..Len(hand[p].blocks) :
        LET b == hand[p].blocks[i] IN b.differs \in Compared /\ Has(b.fields, b.differs)

(* Undisturbed, PF_1601 has brought each parameter up to date, or has it    *)
(* before it.                                                               *)
UpToDate ==
    \A p \in Handlers : hand[p].h = "1601" /\ hand[p].clean => \A f \in Compared :
        \/ para[f] = hand[p].msg[f]
        \/ Has(hand[p].fields, f)
        \/ \E i \in 1..Len(hand[p].blocks) : hand[p].blocks[i].differs = f

(* Nobody has started since the one that synced is about. *)
NobodySince == synced # {} => \A p \in Handlers : hand[p] = Nobody

SyncInv == SyncTypeOK /\ SetsCompared /\ UpToDate /\ NobodySince /\ SyncRepairs

LEMMA FourTuple ==
    ASSUME NEW S, NEW a \in S, NEW b \in S, NEW c \in S, NEW d \in S
    PROVE  <<a, b, c, d>> \in Seq(S)
OBVIOUS

LEMMA HeadTail ==
    ASSUME NEW S, NEW s \in Seq(S), s # <<>>
    PROVE  /\ Head(s) \in S /\ Tail(s) \in Seq(S) /\ Head(s) = s[1] /\ 1 \in 1..Len(s)
           /\ \A i \in 1..Len(s) : i = 1 \/ (i - 1 \in 1..Len(Tail(s)) /\ Tail(s)[i - 1] = s[i])
           /\ \A i \in 1..Len(Tail(s)) : i + 1 \in 1..Len(s) /\ Tail(s)[i] = s[i + 1]
OBVIOUS

(* The plans of the three handlers; the one of PF_1601 compares and sets    *)
(* each of the four.                                                        *)
LEMMA PlanFacts ==
    /\ \A h \in {"1601", "1602", "1603"} : Plan(h) \in Seq(Blocks)
    /\ \A i \in 1..Len(Plan("1601")) :
          LET b == Plan("1601")[i] IN b.differs \in Compared /\ Has(b.fields, b.differs)
    /\ \A f \in Compared : \E i \in 1..Len(Plan("1601")) : Plan("1601")[i].differs = f
<1>1. \A d \in Told \cup {"any"}, s \in Seq(Fields) : Block(d, s) \in Blocks
  BY DEF Block, Blocks
<1>2. Fields = Told \cup {"prework", "preround", "preclear", "preexchg"}
  BY DEF Fields, Previous
<1>3. Sync1601 \in Seq(Blocks)
  <2>1. /\ <<"prework", "work">> \in Seq(Fields) /\ <<"round">> \in Seq(Fields)
        /\ <<"preclear", "clear", "clearround">> \in Seq(Fields)
        /\ <<"exchg", "exchground">> \in Seq(Fields)
    BY <1>2 DEF Told
  <2>2. /\ Block("work", <<"prework", "work">>) \in Blocks
        /\ Block("round", <<"round">>) \in Blocks
        /\ Block("clear", <<"preclear", "clear", "clearround">>) \in Blocks
        /\ Block("exchg", <<"exchg", "exchground">>) \in Blocks
    BY <1>1, <2>1 DEF Told
  <2> QED BY <2>2, FourTuple DEF Sync1601
<1>4. Round1602 \in Seq(Blocks)
  <2>1. /\ <<"preround", "round", "exchground">> \in Seq(Fields)
        /\ <<"preexchg", "exchg">> \in Seq(Fields) /\ <<"preclear", "clear">> \in Seq(Fields)
        /\ <<"clearround">> \in Seq(Fields)
    BY <1>2 DEF Told
  <2>2. /\ Block("any", <<"preround", "round", "exchground">>) \in Blocks
        /\ Block("exchg", <<"preexchg", "exchg">>) \in Blocks
        /\ Block("clear", <<"preclear", "clear">>) \in Blocks
        /\ Block("any", <<"clearround">>) \in Blocks
    BY <1>1, <2>1 DEF Told
  <2> QED BY <2>2, FourTuple DEF Round1602
<1>5. Day1603 \in Seq(Blocks)
  <2>1. /\ <<"prework", "work", "preround", "round">> \in Seq(Fields)
        /\ <<"preclear">> \in Seq(Fields) /\ <<"clear", "clearround">> \in Seq(Fields)
        /\ <<"preexchg", "exchg", "exchground">> \in Seq(Fields)
    BY <1>2 DEF Told
  <2>2. /\ Block("any", <<"prework", "work", "preround", "round">>) \in Blocks
        /\ Block("clear", <<"preclear">>) \in Blocks
        /\ Block("any", <<"clear", "clearround">>) \in Blocks
        /\ Block("exchg", <<"preexchg", "exchg", "exchground">>) \in Blocks
    BY <1>1, <2>1 DEF Told
  <2> QED BY <2>2, FourTuple DEF Day1603
<1>6. Len(Sync1601) = 4
      /\ Sync1601[1] = Block("work", <<"prework", "work">>)
      /\ Sync1601[2] = Block("round", <<"round">>)
      /\ Sync1601[3] = Block("clear", <<"preclear", "clear", "clearround">>)
      /\ Sync1601[4] = Block("exchg", <<"exchg", "exchground">>)
  BY DEF Sync1601
<1>7. /\ Has(<<"prework", "work">>, "work") /\ Has(<<"round">>, "round")
      /\ Has(<<"preclear", "clear", "clearround">>, "clear")
      /\ Has(<<"exchg", "exchground">>, "exchg")
  BY DEF Has
<1>8. Plan("1601") = Sync1601
  BY DEF Plan
<1>9. \A i \in 1..4 : LET b == Sync1601[i] IN b.differs \in Compared /\ Has(b.fields, b.differs)
  BY <1>6, <1>7 DEF Block, Compared
<1>10. \A f \in Compared : \E i \in 1..4 : Sync1601[i].differs = f
  BY <1>6 DEF Block, Compared
<1> QED BY <1>3, <1>4, <1>5, <1>6, <1>8, <1>9, <1>10 DEF Plan

HandType == [h : {"none", "1601", "1602", "1603"}, msg : [Told -> Nat],
             blocks : Seq(Blocks), fields : Seq(Fields), clean : BOOLEAN]

LEMMA NobodyType == Nobody \in HandType /\ Nobody.h = "none"
BY DEF Nobody, HandType, Start

(* What a handler knows, of itself and of the table. *)
Sets(o) == o.h = "1601" => \A i \in 1..Len(o.blocks) :
              LET b == o.blocks[i] IN b.differs \in Compared /\ Has(b.fields, b.differs)
Knows(o, pa) == o.h = "1601" /\ o.clean => \A f \in Compared :
                   \/ pa[f] = o.msg[f]
                   \/ Has(o.fields, f)
                   \/ \E i \in 1..Len(o.blocks) : o.blocks[i].differs = f

(* A step of one process that leaves the table. *)
LEMMA HandlerMoves ==
    ASSUME SyncInv, NEW p \in Handlers, NEW o \in HandType,
           hand' = [hand EXCEPT ![p] = o], para' = para, status' = status,
           Sets(o), Knows(o, para),
           synced' = {} \/ (synced' = synced /\ (o = Nobody \/ hand[p] # Nobody))
    PROVE  SyncInv'
<1>1. hand'[p] = o /\ \A q \in Handlers \ {p} : hand'[q] = hand[q]
  BY DEF SyncInv, SyncTypeOK
<1>2. SyncTypeOK'
  BY DEF SyncInv, SyncTypeOK, HandType
<1>3. SetsCompared'
  BY <1>1 DEF SyncInv, SetsCompared, Sets
<1>4. UpToDate'
  BY <1>1 DEF SyncInv, UpToDate, Knows
<1>5. NobodySince'
  BY <1>1 DEF SyncInv, NobodySince
<1>6. SyncRepairs'
  BY DEF SyncInv, SyncRepairs
<1> QED BY <1>2, <1>3, <1>4, <1>5, <1>6 DEF SyncInv

LEMMA TakeInv ==
    ASSUME SyncInv, NEW p \in Handlers, NEW h \in {"1601", "1602", "1603"}, Take(p, h)
    PROVE  SyncInv'
<1> DEFINE o == [h |-> h, msg |-> status, blocks |-> Plan(h), fields |-> <<>>, clean |-> TRUE]
<1>1. hand' = [hand EXCEPT ![p] = o] /\ para' = para /\ status' = status /\ synced' = {}
  BY DEF Take
<1>2. o \in HandType
  BY PlanFacts DEF HandType, SyncInv, SyncTypeOK
<1>3. Sets(o)
  BY PlanFacts DEF Sets
<1>4. Knows(o, para)
  BY PlanFacts DEF Knows
<1> HIDE DEF o
<1> QED BY <1>1, <1>2, <1>3, <1>4, HandlerMoves

(* A comparison that finds no difference needs no update. *)
LEMMA EnterBlockInv == ASSUME SyncInv, NEW p \in Handlers, EnterBlock(p) PROVE SyncInv'
<1> DEFINE me == hand[p]
           b  == Head(me.blocks)
           fs == IF b.differs = "any" \/ para[b.differs] # me.msg[b.differs] THEN b.fields ELSE <<>>
           o  == [me EXCEPT !.blocks = Tail(me.blocks), !.fields = fs]
<1>1. /\ me \in HandType /\ me.blocks # <<>> /\ me.fields = <<>>
      /\ para' = para /\ status' = status /\ synced' = synced
      /\ hand' = [hand EXCEPT ![p] = o]
  BY DEF EnterBlock, SyncInv, SyncTypeOK, HandType
<1>2. /\ b \in Blocks /\ Tail(me.blocks) \in Seq(Blocks) /\ b = me.blocks[1]
      /\ \A i \in 1..Len(me.blocks) : i = 1 \/
            (i - 1 \in 1..Len(Tail(me.blocks)) /\ Tail(me.blocks)[i - 1] = me.blocks[i])
      /\ \A i \in 1..Len(Tail(me.blocks)) :
            i + 1 \in 1..Len(me.blocks) /\ Tail(me.blocks)[i] = me.blocks[i + 1]
      /\ 1 \in 1..Len(me.blocks)
  BY <1>1, HeadTail DEF HandType
<1>3. fs \in Seq(Fields)
  BY <1>2 DEF Blocks
<1>4. Sets(me) /\ Knows(me, para)
  BY DEF SyncInv, SetsCompared, UpToDate, Sets, Knows
<1>5. /\ o \in HandType /\ o.h = me.h /\ o.msg = me.msg /\ o.clean = me.clean
      /\ o.blocks = Tail(me.blocks) /\ o.fields = fs
  <2> HIDE DEF fs, me
  <2> QED BY <1>1, <1>2, <1>3 DEF HandType
<1>6. me.h = "1601" => b.differs \in Compared /\ Has(b.fields, b.differs)
  BY <1>2, <1>4 DEF Sets
<1>7. me.h = "1601" => para[b.differs] = me.msg[b.differs] \/ Has(fs, b.differs)
  BY <1>6
<1> HIDE DEF o, fs, b, me
<1>8. Sets(o)
  BY <1>2, <1>4, <1>5 DEF Sets
<1>9. Knows(o, para)
  <2> SUFFICES ASSUME o.h = "1601", o.clean, NEW f \in Compared
               PROVE  \/ para[f] = o.msg[f]
                      \/ Has(o.fields, f)
                      \/ \E i \in 1..Len(o.blocks) : o.blocks[i].differs = f
    BY DEF Knows
  <2>1. CASE f = b.differs
    BY <1>5, <1>7, <2>1
  <2>2. CASE f # b.differs
    <3>1. ~Has(me.fields, f)
      BY <1>1 DEF Has
    <3>2. \/ para[f] = me.msg[f]
          \/ \E i \in 1..Len(me.blocks) : me.blocks[i].differs = f
      BY <1>4, <1>5, <3>1 DEF Knows
    <3>3. ASSUME NEW i \in 1..Len(me.blocks), me.blocks[i].differs = f
          PROVE  \E j \in 1..Len(o.blocks) : o.blocks[j].differs = f
      <4>1. i # 1
        BY <1>2, <2>2, <3>3
      <4>2. i - 1 \in 1..Len(Tail(me.blocks)) /\ Tail(me.blocks)[i - 1] = me.blocks[i]
        BY <1>2, <4>1
      <4> QED BY <1>5, <3>3, <4>2
    <3> QED BY <1>5, <3>2, <3>3
  <2> QED BY <2>1, <2>2
<1>10. me # Nobody
  BY <1>1 DEF Nobody
<1> QED BY <1>1, <1>5, <1>8, <1>9, <1>10, HandlerMoves DEF me

(* An update brings its parameter up to date, and disturbs the others. *)
LEMMA UpdSysParaInv == ASSUME SyncInv, NEW p \in Handlers, UpdSysPara(p) PROVE SyncInv'
<1> DEFINE me == hand[p]
           f  == Head(me.fields)
           o  == [me EXCEPT !.fields = Tail(me.fields)]
<1>1. /\ me \in HandType /\ me.fields # <<>> /\ status' = status /\ synced' = synced
      /\ para' = [para EXCEPT ![f] = IF f \in Told THEN me.msg[f] ELSE para[Previous[f]]]
      /\ hand' = [q \in Handlers |->
                     IF q = p THEN o
                     ELSE IF hand[q] = Nobody THEN Nobody ELSE [hand[q] EXCEPT !.clean = FALSE]]
  BY DEF UpdSysPara, SyncInv, SyncTypeOK, HandType
<1>2. /\ f \in Fields /\ Tail(me.fields) \in Seq(Fields) /\ f = me.fields[1]
      /\ \A i \in 1..Len(me.fields) : i = 1 \/
            (i - 1 \in 1..Len(Tail(me.fields)) /\ Tail(me.fields)[i - 1] = me.fields[i])
  BY <1>1, HeadTail DEF HandType
<1>3. \A g \in Compared : Has(me.fields, g) => g = f \/ Has(Tail(me.fields), g)
  BY <1>2 DEF Has
<1>4. Sets(me) /\ Knows(me, para)
  BY DEF SyncInv, SetsCompared, UpToDate, Sets, Knows
<1>5. /\ o \in HandType /\ o.h = me.h /\ o.msg = me.msg /\ o.clean = me.clean
      /\ o.blocks = me.blocks /\ o.fields = Tail(me.fields)
  <2> HIDE DEF me
  <2> QED BY <1>1, <1>2 DEF HandType
<1>6. Compared \subseteq Told /\ Told \subseteq Fields
  BY DEF Compared, Told, Fields
<1> HIDE DEF o, f, me
<1>7. para' \in [Fields -> Nat]
  <2>1. f \in Told => me.msg[f] \in Nat
    BY <1>1 DEF HandType
  <2>2. f \notin Told => f \in DOMAIN Previous /\ Previous[f] \in Fields
    BY <1>2 DEF Fields, Previous, Told
  <2>3. para \in [Fields -> Nat]
    BY DEF SyncInv, SyncTypeOK
  <2> QED BY <1>1, <2>1, <2>2, <2>3
<1>8. \A g \in Compared : para'[g] = IF g = f THEN me.msg[g] ELSE para[g]
  BY <1>1, <1>2, <1>6 DEF SyncInv, SyncTypeOK
<1>9. hand'[p] = o
  BY <1>1
<1>10. ASSUME NEW q \in Handlers \ {p}
       PROVE  hand'[q] \in HandType /\ (hand'[q].h = "none" \/ ~hand'[q].clean)
              /\ Sets(hand'[q])
  <2>1. CASE hand[q] = Nobody
    BY <1>1, <2>1, NobodyType DEF Sets
  <2>2. CASE hand[q] # Nobody
    <3> DEFINE w == hand[q]
               v == [w EXCEPT !.clean = FALSE]
    <3>1. hand'[q] = v /\ w \in HandType /\ Sets(w)
      BY <1>1, <2>2 DEF SyncInv, SyncTypeOK, SetsCompared, Sets, HandType
    <3>2. v \in HandType /\ ~v.clean /\ v.h = w.h /\ v.blocks = w.blocks
      <4> HIDE DEF w
      <4> QED BY <3>1 DEF HandType
    <3> HIDE DEF v, w
    <3> QED BY <3>1, <3>2 DEF Sets
  <2> QED BY <2>1, <2>2
<1>11. SyncTypeOK'
  <2>1. hand' \in [Handlers -> HandType]
    <3>1. DOMAIN hand' = Handlers /\ hand' = [q \in Handlers |-> hand'[q]]
      BY <1>1
    <3> QED BY <1>5, <1>9, <1>10, <3>1
  <2> QED BY <1>1, <1>7, <2>1 DEF SyncInv, SyncTypeOK, HandType
<1>12. SetsCompared'
  <2>1. Sets(o)
    BY <1>4, <1>5 DEF Sets
  <2> QED BY <1>9, <1>10, <2>1 DEF SetsCompared, Sets
<1>13. Knows(o, para')
  BY <1>3, <1>4, <1>5, <1>8 DEF Knows
<1>14. UpToDate'
  <2> SUFFICES ASSUME NEW q \in Handlers PROVE Knows(hand'[q], para')
    BY DEF UpToDate, Knows
  <2> QED BY <1>9, <1>10, <1>13 DEF Knows
<1>15. synced = {}
  <2>1. me # Nobody
    BY <1>1 DEF Nobody
  <2> QED BY <2>1 DEF SyncInv, NobodySince, me
<1> QED BY <1>1, <1>11, <1>12, <1>14, <1>15 DEF SyncInv, NobodySince, SyncRepairs

(* A failed update is left out only where PF_1601 has none. *)
LEMMA UpdFailsInv == ASSUME SyncInv, NEW p \in Handlers, UpdFails(p) PROVE SyncInv'
<1> DEFINE me == hand[p]
           f  == Head(me.fields)
           o  == [me EXCEPT !.fields = Tail(me.fields)]
<1>1. /\ me \in HandType /\ me.fields # <<>>
      /\ para' = para /\ status' = status /\ synced' = synced
      /\ hand' = [hand EXCEPT ![p] = IF f \in Unchecked(me.h) THEN o ELSE Nobody]
  BY DEF UpdFails, SyncInv, SyncTypeOK, HandType
<1>2. /\ f \in Fields /\ Tail(me.fields) \in Seq(Fields) /\ f = me.fields[1]
      /\ \A i \in 1..Len(me.fields) : i = 1 \/
            (i - 1 \in 1..Len(Tail(me.fields)) /\ Tail(me.fields)[i - 1] = me.fields[i])
  BY <1>1, HeadTail DEF HandType
<1>3. \A g \in Compared : Has(me.fields, g) => g = f \/ Has(Tail(me.fields), g)
  BY <1>2 DEF Has
<1>4. Sets(me) /\ Knows(me, para)
  BY DEF SyncInv, SetsCompared, UpToDate, Sets, Knows
<1>5. /\ o \in HandType /\ o.h = me.h /\ o.msg = me.msg /\ o.clean = me.clean
      /\ o.blocks = me.blocks /\ o.fields = Tail(me.fields)
  <2> HIDE DEF me
  <2> QED BY <1>1, <1>2 DEF HandType
<1>6. f \in Unchecked(me.h) => f \notin Compared
  BY DEF Unchecked, Compared
<1>7. me # Nobody
  BY <1>1 DEF Nobody
<1> HIDE DEF o, f, me
<1>8. CASE f \in Unchecked(me.h)
  <2>1. Sets(o)
    BY <1>4, <1>5 DEF Sets
  <2>2. Knows(o, para)
    BY <1>3, <1>4, <1>5, <1>6, <1>8 DEF Knows
  <2> QED BY <1>1, <1>5, <1>7, <1>8, <2>1, <2>2, HandlerMoves DEF me
<1>9. CASE f \notin Unchecked(me.h)
  BY <1>1, <1>9, NobodyType, HandlerMoves DEF Sets, Knows
<1> QED BY <1>8, <1>9

(* At its end PF_1601 has nothing before it. *)
LEMMA HandlerEndsInv == ASSUME SyncInv, NEW p \in Handlers, HandlerEnds(p) PROVE SyncInv'
<1> DEFINE me == hand[p]
<1>1. /\ me.blocks = <<>> /\ me.fields = <<>> /\ para' = para /\ status' = status
      /\ hand' = [hand EXCEPT ![p] = Nobody]
      /\ synced' = IF me.h = "1601" /\ me.clean /\ \A q \in Handlers \ {p} : hand[q] = Nobody
                   THEN {me.msg} ELSE {}
  BY DEF HandlerEnds
<1>2. CASE synced' = {}
  BY <1>1, <1>2, NobodyType, HandlerMoves DEF Sets, Knows
<1>3. CASE synced' # {}
  <2>1. /\ me.h = "1601" /\ me.clean /\ synced' = {me.msg}
        /\ \A q \in Handlers : hand'[q] = Nobody
    BY <1>1, <1>3 DEF SyncInv, SyncTypeOK
  <2>2. \A f \in Compared : para[f] = me.msg[f]
    <3>1. Knows(me, para)
      BY DEF SyncInv, UpToDate, Knows
    <3> QED BY <1>1, <2>1, <3>1 DEF Knows, Has
  <2>3. SyncRepairs'
    BY <1>1, <2>1, <2>2 DEF SyncRepairs, Compared
  <2>4. SyncTypeOK'
    BY <1>1, NobodyType DEF SyncInv, SyncTypeOK, HandType
  <2>5. SetsCompared' /\ UpToDate'
    BY <2>1, NobodyType DEF SetsCompared, UpToDate
  <2> QED BY <2>1, <2>3, <2>4, <2>5 DEF SyncInv, NobodySince
<1> QED BY <1>2, <1>3

(* The center moves on: what a handler was told stays what it was told. *)
LEMMA CenterMovesInv == ASSUME SyncInv, CenterMoves PROVE SyncInv'
<1>1. status \in [Told -> Nat]
  BY DEF SyncInv, SyncTypeOK
<1>2. status' \in [Told -> Nat]
  BY <1>1 DEF CenterMoves, Told
<1>3. UNCHANGED <<para, hand, synced>>
  BY DEF CenterMoves
<1>4. SyncTypeOK'
  BY <1>2, <1>3 DEF SyncInv, SyncTypeOK
<1>5. SetsCompared'
  BY <1>3 DEF SyncInv, SetsCompared
<1>6. UpToDate'
  BY <1>3 DEF SyncInv, UpToDate
<1>7. NobodySince' /\ SyncRepairs'
  BY <1>3 DEF SyncInv, NobodySince, SyncRepairs
<1> QED BY <1>4, <1>5, <1>6, <1>7 DEF SyncInv

(* PF_1601 repairs the dates and the work round whatever was lost, repeated *)
(* or half done before, if no other handler writes meanwhile (UpdSysPara).  *)
THEOREM SyncIsRepaired == ParamsSpec => []SyncRepairs
<1>1. ParamsInit => SyncInv
  <2> SUFFICES ASSUME ParamsInit PROVE SyncInv
    OBVIOUS
  <2>1. /\ status = [f \in Told |-> 1] /\ synced = {} /\ hand = [p \in Handlers |-> Nobody]
        /\ para = [f \in Told \cup DOMAIN Previous |-> IF f \in Told THEN 1 ELSE 0]
    BY DEF ParamsInit, Start
  <2>2. para \in [Fields -> Nat]
    BY ONLY <2>1 DEF Fields
  <2>3. SyncTypeOK
    BY ONLY <2>1, <2>2, NobodyType DEF SyncTypeOK, HandType
  <2> QED BY ONLY <2>1, <2>3, NobodyType DEF SyncInv, SetsCompared, UpToDate, NobodySince,
                                            SyncRepairs
<1>2. SyncInv /\ [SyncNext \/ DownloadNext]_paramVars => SyncInv'
  <2> SUFFICES ASSUME SyncInv, [SyncNext \/ DownloadNext]_paramVars PROVE SyncInv'
    OBVIOUS
  <2>1. CASE DownloadNext \/ UNCHANGED paramVars
    <3>1. UNCHANGED statusVars
      BY <2>1 DEF DownloadNext, paramVars, CenterChanges, PF_1619, DeleteRows, InsertLine,
                  NextTable, DownloadFails
    <3> QED BY <3>1 DEF statusVars, SyncInv, SyncTypeOK, SetsCompared, UpToDate, NobodySince,
                        SyncRepairs
  <2> QED BY <2>1, CenterMovesInv, TakeInv, EnterBlockInv, UpdSysParaInv, UpdFailsInv,
             HandlerEndsInv DEF SyncNext
<1>3. SyncInv => SyncRepairs
  BY DEF SyncInv
<1> QED BY <1>1, <1>2, <1>3, PTL DEF ParamsSpec
==============================================================================
