---------------------------- MODULE StorageProofs ----------------------------
(***************************************************************************)
(* What is written to disk and to the database, for all values of the      *)
(* constants: tallies against the rows they count, runs and the lock, what *)
(* a verdict rests on, limits over restarts and days, and what can be told *)
(* from what is shown.  Each part of MCStorage has its inductive invariant *)
(* and a section of its own.                                               *)
(***************************************************************************)
EXTENDS MCStorage, TLAPS, FiniteSetTheorems, SequenceTheorems,
        WellFoundedInduction

-----------------------------------------------------------------------------
(* Numbers.                                                                 *)

\* The order of the natural numbers, on which sets of them have a least element.

Before == {p \in Nat \X Nat : p[1] < p[2]}
LEMMA NatWF == IsWellFoundedOn(Before, Nat)
BY NatLessThanWellFounded DEF Before, OpToRel

LEMMA Least == ASSUME NEW T, T \subseteq Nat, T # {} PROVE \E x \in T : \A y \in T : x <= y
<1>1. PICK x \in T : \A y \in T : ~ (<<y, x>> \in Before)
  BY NatWF, WFMin, Zenon
<1>2. ASSUME NEW y \in T PROVE x <= y
  <2>1. x \in Nat /\ y \in Nat /\ ~ (<<y, x>> \in Before)
    BY <1>1, <1>2
  <2>2. y < x => <<y, x>> \in Before
    BY <2>1 DEF Before
  <2>3. QED
    BY <2>1, <2>2
<1>3. QED
  BY <1>1, <1>2

LEMMA Induct == ASSUME NEW S, 0 \in S, \A n \in Nat : n \in S => n + 1 \in S PROVE Nat \subseteq S
<1>1. SUFFICES ASSUME Nat \ S # {} PROVE FALSE
  OBVIOUS
<1>2. PICK m \in Nat \ S : \A y \in Nat \ S : m <= y
  BY <1>1, Least
<1>3. m # 0 /\ m - 1 \in Nat /\ m - 1 \in S
  BY <1>2
<1>4. QED
  BY <1>2, <1>3

\* A finite set of numbers has a highest one.
LEMMA Bounded ==
    ASSUME NEW S, S \subseteq Nat, IsFiniteSet(S) PROVE \E b \in Nat : \A y \in S : y <= b
<1>1. PICK K : K = {n \in Nat : \A U \in SUBSET S : Cardinality(U) = n => \E b \in Nat : \A y \in U : y <= b}
  OBVIOUS
<1>2. 0 \in K
  <2>1. ASSUME NEW U \in SUBSET S, Cardinality(U) = 0 PROVE \E b \in Nat : \A y \in U : y <= b
    <3>1. IsFiniteSet(U)
      BY FS_Subset
    <3>2. U = {}
      BY <2>1, <3>1, FS_EmptySet
    <3>3. QED
      BY <3>2
  <2>2. QED
    BY <1>1, <2>1
<1>3. ASSUME NEW n \in Nat, n \in K PROVE n + 1 \in K
  <2>1. ASSUME NEW U \in SUBSET S, Cardinality(U) = n + 1 PROVE \E b \in Nat : \A y \in U : y <= b
    <3>1. IsFiniteSet(U)
      BY FS_Subset
    <3>2. U # {}
      BY <2>1, FS_EmptySet
    <3>3. PICK z \in U : TRUE
      BY <3>2
    <3>4. Cardinality(U \ {z}) = n
      <4>1. Cardinality(U \ {z}) = Cardinality(U) - 1
        BY <3>1, <3>3, FS_RemoveElement
      <4>2. QED
        BY <1>3, <2>1, <4>1
    <3>5. U \ {z} \in SUBSET S
      OBVIOUS
    <3>6. PICK b \in Nat : \A y \in U \ {z} : y <= b
      BY <1>1, <1>3, <3>4, <3>5
    <3>7. PICK c \in Nat : c >= b /\ c >= z
      <4>1. z \in Nat
        BY <3>3
      <4>2. b + z \in Nat /\ b + z >= b /\ b + z >= z
        BY <4>1
      <4>3. QED
        BY <4>2
    <3>8. \A y \in U : y <= c
      BY <3>3, <3>6, <3>7
    <3>9. QED
      BY <3>8
  <2>2. QED
    BY <1>1, <2>1
<1>4. Nat \subseteq K
  BY <1>2, <1>3, Induct
<1>5. Cardinality(S) \in K
  BY <1>4, FS_CardinalityType
<1>6. QED
  BY <1>1, <1>5

LEMMA Highest ==
    ASSUME NEW S, S \subseteq Nat, IsFiniteSet(S), S # {}
    PROVE  \E m \in S : \A y \in S : y <= m
<1>1. PICK B : B = {b \in Nat : \A y \in S : y <= b}
  OBVIOUS
<1>2. B # {} /\ B \subseteq Nat
  BY <1>1, Bounded
<1>3. PICK m \in B : \A b \in B : m <= b
  BY <1>2, Least
<1>4. m \in S
  <2> SUFFICES ASSUME m \notin S PROVE FALSE
    OBVIOUS
  <2>1. m \in Nat /\ \A y \in S : y <= m /\ y # m /\ y \in Nat
    BY <1>1, <1>2
  <2>2. m - 1 \in Nat /\ \A y \in S : y <= m - 1
    <3>1. PICK z \in S : z <= m /\ z # m /\ z \in Nat
      BY <2>1
    <3>2. m - 1 \in Nat
      BY <2>1, <3>1
    <3>3. \A y \in S : y <= m - 1
      BY <2>1
    <3>4. QED
      BY <3>2, <3>3
  <2>3. m - 1 \in B
    BY <1>1, <2>2
  <2>4. QED
    BY <1>3, <2>1, <2>3
<1>5. QED
  BY <1>1, <1>4

LEMMA HighestIs ==
    ASSUME NEW S, NEW m \in S, \A y \in S : y \in Int /\ y <= m
    PROVE  (CHOOSE x \in S : \A y \in S : x >= y) = m
<1> DEFINE M == CHOOSE x \in S : \A y \in S : x >= y
<1>1. \E x \in S : \A y \in S : x >= y
  OBVIOUS
<1>2. M \in S /\ \A y \in S : M >= y
  BY <1>1
<1>3. M >= m /\ m >= M /\ M \in Int /\ m \in Int
  BY <1>2
<1>4. M = m
  BY <1>3
<1>5. QED
  BY <1>4

-----------------------------------------------------------------------------
(* The write lock.                                                          *)

Keeping == {"inside", "reserve", "release", "unlink"}
Holding == Keeping \cup {"created"}

LockTyped ==
    /\ DOMAIN pc = Pids
    /\ read \in [Pids -> Pids \cup {0}] /\ fd \in [Pids -> Nat] /\ number \in [Pids -> Nat]
    /\ files \in Nat /\ counter \in Nat /\ runs \subseteq [pid : Pids, no : Nat]
    /\ \/ lockFile = Lock!NoFile
       \/ lockFile \in [id : Nat \ {0}, owner : Pids \cup {0}]

\* One process holds the lock, and the file is the one it has created.
OneHolder ==
    /\ \A p, q \in Pids : pc[p] \in Holding /\ pc[q] \in Holding => p = q
    /\ \A p \in Pids : pc[p] \in Holding =>
          lockFile # Lock!NoFile /\ lockFile.id = fd[p]
    /\ \A p \in Pids : pc[p] \in Keeping => lockFile.owner = p

\* The file names a process that holds it, or one that died with it.
OwnerKnown ==
    lockFile # Lock!NoFile =>
        /\ lockFile.owner \in Pids => pc[lockFile.owner] \in Keeping \cup {"dead"}
        /\ lockFile.owner = 0 =>
              \E q \in Pids : fd[q] = lockFile.id /\ pc[q] \in {"created", "dead"}

\* The owner that was read is another process; who reaps is the only one left.
ReapersAlone ==
    /\ \A p \in Pids : pc[p] = "look" => read[p] # p
    /\ \A p, q \in Pids : pc[p] = "reap" /\ q # p => pc[q] = "dead"

NumbersApart ==
    /\ \A r \in runs : r.no <= counter
    /\ \A r, s \in runs : r.no = s.no => r.pid = s.pid
    /\ \A p \in Pids : pc[p] = "reserve" => number[p] = counter + 1

LockInv == LockTyped /\ OneHolder /\ OwnerKnown /\ ReapersAlone /\ NumbersApart

LEMMA LockSteps ==
    [SuiteNext]_suiteVars =>
        \/ part = "lock" /\ part' = "lock" /\ Lock!Next
        \/ UNCHANGED <<part, lockVars>>
BY DEF SuiteNext, suiteVars, DatabaseStep, LockStep, ArchiveStep, LegacyStep,
       ContentStep, EditStep, VisitStep, SessionsStep, QuotaStep, ReviewsStep,
       OnlyBase, OnlyLock, OnlyArchive, OnlyContent, OnlyReport, OnlyPeople, OnlyReview

LEMMA PidsNotZero == 0 \notin Pids /\ \A p, q, r \in Pids : p = q \/ q = r \/ p = r
BY WriterAssumption DEF Lock!LockAssumption, Lock!TwoWriters

LEMMA LockStart == SuiteInit => LockInv
BY DEF SuiteInit, Lock!Init, LockInv, LockTyped, OneHolder, OwnerKnown, ReapersAlone,
       NumbersApart, Keeping, Holding, Lock!Empty

\* A new file.
LEMMA CreateKeeps ==
    ASSUME LockInv, NEW p \in Pids, Lock!Create(p) PROVE LockInv'
<1>1. /\ pc[p] = "start" /\ pc' = [pc EXCEPT ![p] = "created"]
      /\ lockFile = Lock!NoFile /\ files' = files + 1
      /\ lockFile' = [id |-> files + 1, owner |-> 0] /\ fd' = [fd EXCEPT ![p] = files + 1]
      /\ UNCHANGED <<read, counter, number, runs, crashes>>
  BY DEF Lock!Create, Lock!Goto, Lock!Empty
<1>2. \A q \in Pids : q # p => pc'[q] = pc[q] /\ fd'[q] = fd[q]
  BY <1>1 DEF LockInv, LockTyped
<1>3. pc'[p] = "created" /\ fd'[p] = files + 1
  BY <1>1 DEF LockInv, LockTyped
<1>4. \A q \in Pids : pc[q] \notin Holding
  BY <1>1 DEF LockInv, OneHolder
<1>5. LockTyped'
  BY <1>1 DEF LockInv, LockTyped
<1>6. lockFile'.id = files + 1 /\ lockFile'.owner = 0
  BY <1>1
<1>7. lockFile' # Lock!NoFile
  BY <1>1 DEF Lock!NoFile, LockInv, LockTyped
<1>8. OneHolder'
  BY <1>2, <1>3, <1>4, <1>6, <1>7 DEF OneHolder, Keeping, Holding
<1>9. OwnerKnown'
  BY <1>3, <1>6, PidsNotZero DEF OwnerKnown
<1>10. ReapersAlone'
  BY <1>1, <1>2, <1>3 DEF LockInv, ReapersAlone
<1>11. NumbersApart'
  BY <1>1, <1>2, <1>3 DEF LockInv, NumbersApart
<1>12. QED
  BY <1>5, <1>8, <1>9, <1>10, <1>11 DEF LockInv

\* The file goes: by the one that holds it, or by the only one left.
LEMMA RemoveKeeps ==
    ASSUME LockInv, NEW p \in Pids, NEW label, label \in {"start", "done"},
           \/ pc[p] = "unlink" \/ pc[p] = "reap",
           pc' = [pc EXCEPT ![p] = label], lockFile' = Lock!NoFile,
           UNCHANGED <<read, fd, files, counter, number, runs>>
    PROVE  LockInv'
<1>1. \A q \in Pids : q # p => pc'[q] = pc[q] /\ pc[q] \notin Holding
  BY DEF LockInv, LockTyped, OneHolder, ReapersAlone, Holding, Keeping
<1>2. pc'[p] = label
  BY DEF LockInv, LockTyped
<1>3. LockTyped' /\ OwnerKnown'
  BY DEF LockInv, LockTyped, OwnerKnown
<1>4. OneHolder'
  BY <1>1, <1>2 DEF OneHolder, Keeping, Holding
<1>5. ReapersAlone'
  BY <1>1, <1>2 DEF LockInv, ReapersAlone
<1>6. NumbersApart'
  BY <1>1, <1>2 DEF LockInv, NumbersApart
<1>7. QED
  BY <1>3, <1>4, <1>5, <1>6 DEF LockInv

\* A process that holds nothing goes on, and the file stays.
LEMMA MoveKeeps ==
    ASSUME LockInv, NEW p \in Pids, NEW label,
           pc[p] \notin Holding, label \in {"start", "look", "reap", "timeout", "done"},
           pc' = [pc EXCEPT ![p] = label], UNCHANGED <<lockFile, fd, files, counter, number, runs>>,
           read' \in [Pids -> Pids \cup {0}], \A q \in Pids : q # p => read'[q] = read[q],
           pc[p] # "dead", label = "look" => read'[p] # p,
           label = "reap" => \A q \in Pids : q # p => pc[q] = "dead"
    PROVE  LockInv'
<1>1. \A q \in Pids : q # p => pc'[q] = pc[q]
  BY DEF LockInv, LockTyped
<1>2. pc'[p] = label
  BY DEF LockInv, LockTyped
<1>3. LockTyped'
  BY DEF LockInv, LockTyped
<1>4. OneHolder'
  BY <1>1, <1>2 DEF LockInv, OneHolder, Keeping, Holding
<1>5. OwnerKnown'
  BY <1>1, <1>2 DEF LockInv, OwnerKnown, Keeping, Holding
<1>6. ReapersAlone'
  BY <1>1, <1>2 DEF LockInv, ReapersAlone
<1>7. NumbersApart'
  BY <1>1, <1>2 DEF LockInv, NumbersApart
<1>8. QED
  BY <1>3, <1>4, <1>5, <1>6, <1>7 DEF LockInv

LEMMA CrashKeeps ==
    ASSUME LockInv, NEW p \in Pids, Lock!Crash(p) PROVE LockInv'
<1>0. pc' = [pc EXCEPT ![p] = "dead"] /\ UNCHANGED <<lockFile, read, fd, files, counter, number, runs>>
  BY DEF Lock!Crash, Lock!Goto
<1>1. \A q \in Pids : q # p => pc'[q] = pc[q]
  BY <1>0 DEF LockInv, LockTyped
<1>2. pc'[p] = "dead"
  BY <1>0 DEF LockInv, LockTyped
<1>3. LockTyped'
  BY <1>0 DEF LockInv, LockTyped
<1>4. OneHolder'
  BY <1>0, <1>1, <1>2 DEF LockInv, OneHolder, Keeping, Holding
<1>5. OwnerKnown'
  BY <1>0, <1>1, <1>2 DEF LockInv, OwnerKnown
<1>6. ReapersAlone'
  BY <1>0, <1>1, <1>2 DEF LockInv, ReapersAlone
<1>7. NumbersApart'
  BY <1>0, <1>1, <1>2 DEF LockInv, NumbersApart
<1>8. QED
  BY <1>3, <1>4, <1>5, <1>6, <1>7 DEF LockInv

LEMMA WritePidKeeps ==
    ASSUME LockInv, NEW p \in Pids, Lock!WritePid(p) PROVE LockInv'
<1>0. /\ pc[p] = "created" /\ pc' = [pc EXCEPT ![p] = "inside"]
      /\ UNCHANGED <<read, fd, files, counter, number, runs>>
  BY DEF Lock!WritePid, Lock!Goto
<1>1. lockFile # Lock!NoFile /\ lockFile.id = fd[p]
  BY <1>0 DEF LockInv, OneHolder, Holding
<1>2. lockFile' = [lockFile EXCEPT !.owner = p] /\ lockFile \in [id : Nat \ {0}, owner : Pids \cup {0}]
  BY <1>1 DEF Lock!WritePid, LockInv, LockTyped
<1>3. lockFile'.id = fd[p] /\ lockFile'.owner = p /\ lockFile' \in [id : Nat \ {0}, owner : Pids \cup {0}]
  BY <1>1, <1>2
<1>4. lockFile' # Lock!NoFile
  BY <1>3 DEF Lock!NoFile
<1>5. \A q \in Pids : q # p => pc'[q] = pc[q] /\ pc[q] \notin Holding
  BY <1>0 DEF LockInv, LockTyped, OneHolder, Holding
<1>6. pc'[p] = "inside"
  BY <1>0 DEF LockInv, LockTyped
<1>7. LockTyped'
  BY <1>0, <1>3 DEF LockInv, LockTyped
<1>8. OneHolder'
  BY <1>0, <1>3, <1>4, <1>5, <1>6 DEF OneHolder, Keeping, Holding
<1>9. OwnerKnown'
  BY <1>3, <1>6, PidsNotZero DEF OwnerKnown, Keeping
<1>10. ReapersAlone'
  BY <1>0, <1>5, <1>6 DEF LockInv, ReapersAlone
<1>11. NumbersApart'
  BY <1>0, <1>5, <1>6 DEF LockInv, NumbersApart
<1>12. QED
  BY <1>7, <1>8, <1>9, <1>10, <1>11 DEF LockInv

\* The one that holds the lock goes on under it.
LEMMA HeldKeeps ==
    ASSUME LockInv, NEW p \in Pids, NEW label \in Keeping,
           pc[p] \in Keeping, pc' = [pc EXCEPT ![p] = label],
           UNCHANGED <<lockFile, read, fd, files>>,
           number' \in [Pids -> Nat], counter' \in Nat, runs' \subseteq [pid : Pids, no : Nat],
           NumbersApart'
    PROVE  LockInv'
<1>1. \A q \in Pids : q # p => pc'[q] = pc[q]
  BY DEF LockInv, LockTyped
<1>2. pc'[p] = label
  BY DEF LockInv, LockTyped
<1>3. LockTyped'
  BY DEF LockInv, LockTyped
<1>4. OneHolder'
  BY <1>1, <1>2 DEF LockInv, OneHolder, Keeping, Holding
<1>5. OwnerKnown'
  BY <1>1, <1>2 DEF LockInv, OwnerKnown, Keeping
<1>6. ReapersAlone'
  BY <1>1, <1>2 DEF LockInv, ReapersAlone, Keeping
<1>8. QED
  BY <1>3, <1>4, <1>5, <1>6 DEF LockInv

\* Who finds the lock abandoned is the only process left: its owner, the other
\* one, is dead.
LEMMA AbandonedAlone ==
    ASSUME LockInv, NEW p \in Pids, pc[p] = "look", Lock!Abandoned(p)
    PROVE  \A q \in Pids : q # p => pc[q] = "dead"
<1>1. \E q \in Pids : q # p /\ pc[q] = "dead"
  <2>1. CASE read[p] # 0 /\ pc[read[p]] = "dead"
    <3>1. read[p] \in Pids /\ read[p] # p
      BY <2>1 DEF LockInv, LockTyped, ReapersAlone
    <3>2. QED
      BY <2>1, <3>1
  <2>2. CASE /\ lockFile # Lock!NoFile /\ lockFile.owner = 0
             /\ \A q \in Pids : pc[q] = "created" => fd[q] # lockFile.id
    <3>1. PICK q \in Pids : fd[q] = lockFile.id /\ pc[q] \in {"created", "dead"}
      BY <2>2 DEF LockInv, OwnerKnown
    <3>2. QED
      BY <2>2, <3>1
  <2>3. QED
    BY <2>1, <2>2 DEF Lock!Abandoned, Lock!Empty, Lock!Alive
<1>2. QED
  BY <1>1, PidsNotZero

LEMMA LockKeeps == LockInv /\ Lock!Next => LockInv'
<1> SUFFICES ASSUME LockInv, NEW p \in Pids,
                    \/ Lock!Create(p) \/ Lock!WritePid(p) \/ Lock!ReadOwner(p) \/ Lock!LookUp(p)
                    \/ Lock!Reap(p) \/ Lock!ReadCounter(p) \/ Lock!WriteCounter(p)
                    \/ Lock!CheckOwn(p) \/ Lock!Unlink(p) \/ Lock!Again(p) \/ Lock!Crash(p)
             PROVE  LockInv'
  BY DEF Lock!Next
<1>1. CASE Lock!ReadOwner(p)
  <2>1. /\ pc[p] = "start" /\ lockFile # Lock!NoFile /\ read' = [read EXCEPT ![p] = lockFile.owner]
        /\ pc' = [pc EXCEPT ![p] = "look"] /\ UNCHANGED <<lockFile, fd, files, counter, number, runs>>
    BY <1>1 DEF Lock!ReadOwner, Lock!Goto
  <2>2. lockFile.owner \in Pids \cup {0} /\ lockFile.owner # p
    BY <2>1, PidsNotZero DEF LockInv, LockTyped, OwnerKnown, Keeping
  <2>3. read' \in [Pids -> Pids \cup {0}] /\ read'[p] # p /\ \A q \in Pids : q # p => read'[q] = read[q]
    BY <2>1, <2>2 DEF LockInv, LockTyped
  <2>4. pc[p] \notin Holding /\ pc[p] # "dead"
    BY <2>1 DEF Holding, Keeping
  <2>5. QED
    BY <2>1, <2>3, <2>4, MoveKeeps
<1>2. CASE Lock!LookUp(p)
  <2>1. pc[p] = "look" /\ UNCHANGED <<lockFile, read, fd, files, counter, number, runs>>
    BY <1>2 DEF Lock!LookUp
  <2>2. PICK label \in {"reap", "start", "timeout"} :
           pc' = [pc EXCEPT ![p] = label] /\ (label = "reap" => Lock!Abandoned(p))
    BY <1>2 DEF Lock!LookUp, Lock!Goto
  <2>3. label = "reap" => \A q \in Pids : q # p => pc[q] = "dead"
    BY <2>1, <2>2, AbandonedAlone
  <2>4. pc[p] \notin Holding /\ pc[p] # "dead"
    BY <2>1 DEF Holding, Keeping
  <2>5. read' \in [Pids -> Pids \cup {0}]
    BY <2>1 DEF LockInv, LockTyped
  <2>6. QED
    BY <2>1, <2>2, <2>3, <2>4, <2>5, MoveKeeps
<1>3. CASE Lock!Again(p)
  <2>1. /\ pc[p] \in {"done", "timeout"} /\ pc' = [pc EXCEPT ![p] = "start"]
        /\ UNCHANGED <<lockFile, read, fd, files, counter, number, runs>>
    BY <1>3 DEF Lock!Again, Lock!Goto
  <2>2. pc[p] \notin Holding /\ pc[p] # "dead"
    BY <2>1 DEF Holding, Keeping
  <2>3. read' \in [Pids -> Pids \cup {0}]
    BY <2>1 DEF LockInv, LockTyped
  <2>4. QED
    BY <2>1, <2>2, <2>3, MoveKeeps
<1>4. CASE Lock!Reap(p)
  BY <1>4, RemoveKeeps DEF Lock!Reap, Lock!Goto
<1>5. CASE Lock!Unlink(p)
  BY <1>5, RemoveKeeps DEF Lock!Unlink, Lock!Goto
<1>6. CASE Lock!ReadCounter(p)
  <2>1. /\ pc[p] = "inside" /\ pc' = [pc EXCEPT ![p] = "reserve"]
        /\ number' = [number EXCEPT ![p] = counter + 1]
        /\ UNCHANGED <<lockFile, read, fd, files, counter, runs>>
    BY <1>6 DEF Lock!ReadCounter, Lock!Goto
  <2>2. number' \in [Pids -> Nat] /\ number'[p] = counter + 1
    BY <2>1 DEF LockInv, LockTyped
  <2>3. \A q \in Pids : q # p => pc'[q] = pc[q] /\ pc[q] # "reserve"
    BY <2>1 DEF LockInv, LockTyped, OneHolder, Holding, Keeping
  <2>4. NumbersApart'
    BY <2>1, <2>2, <2>3 DEF LockInv, NumbersApart
  <2>5. counter' \in Nat /\ runs' \subseteq [pid : Pids, no : Nat]
    BY <2>1 DEF LockInv, LockTyped
  <2>6. pc[p] \in Keeping /\ "reserve" \in Keeping
    BY <2>1 DEF Keeping
  <2>7. QED
    BY <2>1, <2>2, <2>4, <2>5, <2>6, HeldKeeps
<1>7. CASE Lock!WriteCounter(p)
  <2>1. /\ pc[p] = "reserve" /\ pc' = [pc EXCEPT ![p] = "release"]
        /\ counter' = number[p] /\ runs' = runs \cup {[pid |-> p, no |-> number[p]]}
        /\ UNCHANGED <<lockFile, read, fd, files, number>>
    BY <1>7 DEF Lock!WriteCounter, Lock!Goto
  <2>2. counter' = counter + 1 /\ counter \in Nat /\ number' \in [Pids -> Nat]
    BY <2>1 DEF LockInv, LockTyped, NumbersApart
  <2>3. \A q \in Pids : pc'[q] # "reserve"
    BY <2>1 DEF LockInv, LockTyped, OneHolder, Holding, Keeping
  <2>4. runs' \subseteq [pid : Pids, no : Nat]
    BY <2>1, <2>2 DEF LockInv, LockTyped
  <2>5. \A r \in runs : r.no <= counter /\ r.no \in Nat
    BY DEF LockInv, LockTyped, NumbersApart
  <2>6. NumbersApart'
    BY <2>1, <2>2, <2>3, <2>5 DEF LockInv, NumbersApart
  <2>7. pc[p] \in Keeping /\ "release" \in Keeping
    BY <2>1 DEF Keeping
  <2>8. QED
    BY <2>1, <2>2, <2>4, <2>6, <2>7, HeldKeeps
<1>8. CASE Lock!CheckOwn(p)
  <2>1. /\ pc[p] = "release" /\ UNCHANGED <<lockFile, read, fd, files, counter, number, runs>>
        /\ pc' = [pc EXCEPT ![p] = IF Lock!OwnLock(p) THEN "unlink" ELSE "done"]
    BY <1>8 DEF Lock!CheckOwn, Lock!Goto
  <2>2. Lock!OwnLock(p)
    BY <2>1 DEF Lock!OwnLock, LockInv, OneHolder, Holding, Keeping
  <2>3. pc' = [pc EXCEPT ![p] = "unlink"]
    BY <2>1, <2>2
  <2>4. pc[p] \in Keeping /\ "unlink" \in Keeping
    BY <2>1 DEF Keeping
  <2>5. \A q \in Pids : pc'[q] = "reserve" => pc[q] = "reserve"
    BY <2>3 DEF LockInv, LockTyped
  <2>6. NumbersApart'
    BY <2>1, <2>5 DEF LockInv, NumbersApart
  <2>7. counter' \in Nat /\ runs' \subseteq [pid : Pids, no : Nat] /\ number' \in [Pids -> Nat]
    BY <2>1 DEF LockInv, LockTyped
  <2>8. QED
    BY <2>1, <2>3, <2>4, <2>6, <2>7, HeldKeeps
<1>9. QED
  BY <1>1, <1>2, <1>3, <1>4, <1>5, <1>6, <1>7, <1>8, CreateKeeps, WritePidKeeps, CrashKeeps

LEMMA LockHeld == SuiteSpec => []LockInv
<1>1. LockInv /\ [SuiteNext]_suiteVars => LockInv'
  <2> SUFFICES ASSUME LockInv, [SuiteNext]_suiteVars PROVE LockInv'
    OBVIOUS
  <2>1. CASE Lock!Next
    BY <2>1, LockKeeps
  <2>2. CASE UNCHANGED lockVars
    BY <2>2 DEF LockInv, LockTyped, OneHolder, OwnerKnown, ReapersAlone, NumbersApart, lockVars
  <2>3. QED
    BY <2>1, <2>2, LockSteps
<1>2. QED
  BY <1>1, LockStart, PTL DEF SuiteSpec

LEMMA WritersApart == LockInv => Lock!RunNumbersDistinct
<1> SUFFICES ASSUME LockInv PROVE Lock!RunNumbersDistinct
  OBVIOUS
<1>1. \A r, s \in runs : r.no = s.no => r.pid = s.pid
  BY DEF LockInv, NumbersApart
<1>2. \A p, q \in Pids : Lock!Inside(p) /\ Lock!Inside(q) => p = q
  BY DEF LockInv, OneHolder, Lock!Inside, Holding, Keeping
<1>3. QED
  BY <1>1, <1>2 DEF Lock!RunNumbersDistinct

-----------------------------------------------------------------------------
(* The archive of captured answers.                                         *)

Statuses == {"ai_pending", "ai_verified"}
Verdicts == {"pending", "some", "none"}

ArchiveTyped ==
    /\ refs \subseteq [run : Nat, cap : Captures, n : Nat]
    /\ answers \subseteq [run : Nat, cap : Captures, status : Statuses]
    /\ products \subseteq [run : Nat, cap : Captures]
    /\ counted \in Nat
    /\ DOMAIN saver = Savers
    /\ \A s \in Savers :
          \/ saver[s] = Archive!Idle
          \/ saver[s] \in [pc : {"answer", "review", "status", "products"}, cap : Captures,
                           run : Nat, verdict : Verdicts]
    /\ DOMAIN job.verdicts \subseteq [run : Nat, cap : Captures]

\* The runs and captures that are written anywhere, or are about to be.
ArchiveKeys ==
    Archive!Ids(refs) \cup Archive!Ids(answers) \cup products \cup DOMAIN job.verdicts
    \cup {Archive!Key(s) : s \in {x \in Savers : saver[x] # Archive!Idle}}

OneCapture ==
    /\ \A k, m \in ArchiveKeys : k.run = m.run => k.cap = m.cap
    /\ \A k \in ArchiveKeys : k.run <= counted

AnswersOnce == \A x, y \in answers : x.run = y.run => x = y

\* A verdict is that of the model, or that there is none yet.
VerdictsTrue ==
    /\ \A s \in Savers :
          /\ saver[s] # Archive!Idle => saver[s].verdict \in {"pending", Archive!Truth(saver[s].cap)}
          /\ saver[s].pc = "products" => saver[s].verdict = "some"
    /\ \A k \in DOMAIN job.verdicts : job.verdicts[k] \in {"pending", Archive!Truth(k.cap)}

\* An answer that names products is verified only with them, unless they are
\* being written or were not written.
VerifiedHasProducts ==
    \A x \in answers : x.cap \in Recommends /\ x.status = "ai_verified" =>
        (\E p \in products : p.run = x.run) \/ x.run \in torn \/ Archive!Writing(x.run)

ArchiveInv ==
    /\ ArchiveTyped /\ OneCapture /\ AnswersOnce /\ Archive!OneSourcedRun
    /\ VerdictsTrue /\ VerifiedHasProducts

LEMMA ArchiveSteps ==
    [SuiteNext]_suiteVars =>
        \/ part = "archive" /\ part' = "archive" /\ Archive!Next
        \/ part = "legacy" /\ part' = "legacy" /\ Legacy!Next
        \/ UNCHANGED <<part, archiveVars>>
BY DEF SuiteNext, suiteVars, DatabaseStep, LockStep, ArchiveStep, LegacyStep,
       ContentStep, EditStep, VisitStep, SessionsStep, QuotaStep, ReviewsStep,
       OnlyBase, OnlyLock, OnlyArchive, OnlyContent, OnlyReport, OnlyPeople, OnlyReview

LEMMA ArchiveStart == SuiteInit => (part # "legacy" => ArchiveInv)
<1> SUFFICES ASSUME SuiteInit, part # "legacy" PROVE ArchiveInv
  OBVIOUS
<1>1. Archive!Init
  BY DEF SuiteInit
<1>2. /\ refs = {} /\ answers = {} /\ products = {} /\ counted = 0
      /\ saver = [s \in Savers |-> Archive!Idle] /\ DOMAIN job.verdicts = {}
  BY <1>1 DEF Archive!Init
<1>3. ArchiveKeys = {}
  BY <1>2 DEF ArchiveKeys, Archive!Ids
<1>4. \A s \in Savers : saver[s].pc = "idle"
  BY <1>2 DEF Archive!Idle
<1>5. QED
  BY <1>2, <1>3, <1>4 DEF ArchiveInv, ArchiveTyped, OneCapture, AnswersOnce,
     Archive!OneSourcedRun, VerdictsTrue, VerifiedHasProducts

\* The highest number is the one that was counted last.
LEMMA HighestIsCounted == ArchiveTyped /\ OneCapture => Archive!Highest = counted
<1> SUFFICES ASSUME ArchiveTyped, OneCapture PROVE Archive!Highest = counted
  OBVIOUS
<1> DEFINE S == {counted} \cup {x.run : x \in refs \cup answers \cup products}
<1>1. counted \in S /\ counted \in Nat
  BY DEF ArchiveTyped
<1>2. ASSUME NEW y \in S PROVE y \in Int /\ y <= counted
  <2>1. CASE y = counted
    BY <1>1, <2>1
  <2>2. ASSUME NEW x \in refs \cup answers, y = x.run PROVE y \in Int /\ y <= counted
    <3>1. [run |-> x.run, cap |-> x.cap] \in ArchiveKeys
      BY DEF ArchiveKeys, Archive!Ids
    <3>2. QED
      BY <2>2, <3>1 DEF OneCapture, ArchiveTyped
  <2>3. ASSUME NEW x \in products, y = x.run PROVE y \in Int /\ y <= counted
    BY <2>3 DEF OneCapture, ArchiveKeys, ArchiveTyped
  <2>4. QED
    BY <2>1, <2>2, <2>3
<1>3. Archive!Max(S) = counted
  BY <1>1, <1>2, HighestIs DEF Archive!Max
<1>4. QED
  BY <1>3 DEF Archive!Highest

\* Nothing is ever shared, so there is nothing to repair.
LEMMA NothingShared == AnswersOnce => Archive!Shared = {}
<1> SUFFICES ASSUME AnswersOnce, NEW r PROVE ~(Cardinality({x \in answers : x.run = r}) > 1)
  BY DEF Archive!Shared, Archive!Cardinality, Cardinality
<1> DEFINE T == {x \in answers : x.run = r}
<1>1. CASE T = {}
  BY <1>1, FS_EmptySet
<1>2. CASE T # {}
  <2>1. PICK a \in T : TRUE
    BY <1>2
  <2>2. T = {a}
    BY <2>1 DEF AnswersOnce
  <2>3. Cardinality(T) = 1
    BY <2>2, FS_Singleton
  <2>4. QED
    BY <2>3
<1>3. QED
  BY <1>1, <1>2
LEMMA KeysStay ==
    ASSUME OneCapture, ArchiveKeys' \subseteq ArchiveKeys, counted' = counted
    PROVE  OneCapture'
BY DEF OneCapture

\* A saver that has begun.
Busy(s) == saver[s] \in [pc : {"answer", "review", "status", "products"}, cap : Captures,
                         run : Nat, verdict : Verdicts]

LEMMA BusyKnown ==
    ASSUME ArchiveInv, NEW s \in Savers, saver[s] # Archive!Idle
    PROVE  Busy(s) /\ Archive!Key(s) \in ArchiveKeys /\ DOMAIN saver = Savers
BY DEF ArchiveInv, ArchiveTyped, Busy, ArchiveKeys

\* What a saver does to itself: it keeps its capture and its run, or ends.
SaverMoves(s) ==
    /\ DOMAIN saver' = Savers
    /\ \A t \in Savers \ {s} : saver'[t] = saver[t]
    /\ \/ saver'[s] = Archive!Idle
       \/ /\ saver'[s] \in [pc : {"answer", "review", "status", "products"}, cap : Captures,
                            run : Nat, verdict : Verdicts]
          /\ saver'[s].run = saver[s].run /\ saver'[s].cap = saver[s].cap

LEMMA MovesKeepKeys ==
    ASSUME NEW s \in Savers, saver[s] # Archive!Idle, SaverMoves(s),
           UNCHANGED <<refs, products, job>>,
           Archive!Ids(answers)' \subseteq Archive!Ids(answers) \cup {Archive!Key(s)}
    PROVE  ArchiveKeys' \subseteq ArchiveKeys
<1>1. \A t \in Savers : saver'[t] # Archive!Idle
         => saver[t] # Archive!Idle /\ Archive!Key(t)' = Archive!Key(t)
  BY DEF SaverMoves, Archive!Key
<1>2. Archive!Ids(refs)' = Archive!Ids(refs) /\ DOMAIN job'.verdicts = DOMAIN job.verdicts
  BY DEF Archive!Ids
<1>3. {Archive!Key(t) : t \in {x \in Savers : saver[x] # Archive!Idle}}'
         \subseteq {Archive!Key(t) : t \in {x \in Savers : saver[x] # Archive!Idle}}
  BY <1>1
<1>4. QED
  BY <1>2, <1>3 DEF ArchiveKeys

\* append_csv
LEMMA SourcesKeep ==
    ASSUME ArchiveInv, NEW s \in Savers, NEW c \in Captures, NEW n \in 0..MaxRefs,
           Archive!AppendSources(s, c, n), MaxRefs \in Nat
    PROVE  ArchiveInv'
<1> DEFINE At(r) == [pc |-> "answer", cap |-> c, run |-> r, verdict |-> "pending"]
<1>0. /\ saver[s] = Archive!Idle /\ UNCHANGED <<answers, products, reviewed, job, torn, cuts>>
      /\ n \in Nat /\ DOMAIN saver = Savers /\ ArchiveTyped /\ OneCapture
  BY DEF Archive!AppendSources, ArchiveInv, ArchiveTyped
<1>1. PICK r \in Nat :
         /\ saver' = [saver EXCEPT ![s] = At(r)]
         /\ refs' \subseteq refs \cup {[run |-> r, cap |-> c, n |-> n]}
         /\ \A x, y \in refs' : x.cap = y.cap => x = y
         /\ \/ [run |-> r, cap |-> c] \in ArchiveKeys /\ counted' = counted
            \/ r = counted + 1 /\ counted' = counted + 1
  <2>1. ASSUME NEW r \in Archive!RunsOf(c), refs' = Archive!Repaired(r, c, n),
               saver' = [saver EXCEPT ![s] = At(r)], counted' = counted
        PROVE  /\ r \in Nat /\ [run |-> r, cap |-> c] \in ArchiveKeys
               /\ refs' \subseteq refs \cup {[run |-> r, cap |-> c, n |-> n]}
               /\ \A x, y \in refs' : x.cap = y.cap => x = y
    <3>1. PICK a \in refs \cup answers : a.run = r /\ a.cap = c
      BY <2>1 DEF Archive!RunsOf
    <3>2. [run |-> a.run, cap |-> a.cap] \in ArchiveKeys
      BY DEF ArchiveKeys, Archive!Ids
    <3>3. r \in Nat
      BY <1>0, <3>1 DEF ArchiveTyped
    <3>4. refs' = refs \/ refs' = (refs \ Archive!Sources(r)) \cup {[run |-> r, cap |-> c, n |-> n]}
      BY <2>1 DEF Archive!Repaired
    <3>5. ASSUME NEW x \in refs, x.cap = c PROVE x.run = r
      <4>1. r \in {y.run : y \in {z \in refs : z.cap = c}}
        BY <2>1, <3>5 DEF Archive!RunsOf
      <4>2. PICK y \in refs : y.cap = c /\ y.run = r
        BY <4>1
      <4>3. QED
        BY <3>5, <4>2 DEF ArchiveInv, Archive!OneSourcedRun
    <3>6. \A x, y \in refs' : x.cap = y.cap => x = y
      BY <3>4, <3>5 DEF Archive!Sources, ArchiveInv, Archive!OneSourcedRun
    <3>7. QED
      BY <3>1, <3>2, <3>3, <3>4, <3>6
  <2>2. CASE \E r \in Archive!RunsOf(c) :
                refs' = Archive!Repaired(r, c, n) /\ saver' = [saver EXCEPT ![s] = At(r)]
                /\ UNCHANGED counted
    BY <2>1, <2>2
  <2>3. CASE /\ Archive!RunsOf(c) = {} /\ counted' = Archive!Highest + 1
             /\ refs' = IF n = 0 THEN refs ELSE refs \cup {[run |-> Archive!Highest + 1, cap |-> c, n |-> n]}
             /\ saver' = [saver EXCEPT ![s] = At(Archive!Highest + 1)]
    <3>1. Archive!Highest = counted /\ counted + 1 \in Nat
      BY <1>0, HighestIsCounted DEF ArchiveTyped
    <3>2. \A x \in refs : x.cap # c
      <4>1. {x.run : x \in {y \in refs : y.cap = c}} = {}
        BY <2>3 DEF Archive!RunsOf
      <4>2. QED
        BY <4>1
    <3>3. \A x, y \in refs' : x.cap = y.cap => x = y
      BY <2>3, <3>2 DEF ArchiveInv, Archive!OneSourcedRun
    <3>4. QED
      BY <2>3, <3>1, <3>3
  <2>4. QED
    BY <2>2, <2>3 DEF Archive!AppendSources
<1>2. Archive!OneSourcedRun'
  BY <1>1 DEF Archive!OneSourcedRun
<1>3. saver'[s] = At(r) /\ \A t \in Savers \ {s} : saver'[t] = saver[t]
  BY <1>0, <1>1
<1>4. counted' \in Nat
  BY <1>0, <1>1 DEF ArchiveTyped
<1>5. ArchiveTyped'
  <2>1. refs' \subseteq [run : Nat, cap : Captures, n : Nat]
    BY <1>0, <1>1 DEF ArchiveTyped
  <2>2. At(r) \in [pc : {"answer", "review", "status", "products"}, cap : Captures,
                   run : Nat, verdict : Verdicts]
    BY DEF Verdicts
  <2>3. DOMAIN saver' = Savers
    BY <1>0, <1>1
  <2>4. QED
    BY <1>0, <1>3, <1>4, <2>1, <2>2, <2>3 DEF ArchiveTyped
<1>6. ArchiveKeys' \subseteq ArchiveKeys \cup {[run |-> r, cap |-> c]}
  <2>1. Archive!Ids(refs') \subseteq Archive!Ids(refs) \cup {[run |-> r, cap |-> c]}
    BY <1>1 DEF Archive!Ids
  <2>2. Archive!Ids(answers)' = Archive!Ids(answers) /\ DOMAIN job'.verdicts = DOMAIN job.verdicts
    BY <1>0 DEF Archive!Ids
  <2>3. Archive!Key(s)' = [run |-> r, cap |-> c]
    BY <1>3 DEF Archive!Key
  <2>4. \A t \in Savers \ {s} : Archive!Key(t)' = Archive!Key(t) /\ saver'[t] = saver[t]
    BY <1>3 DEF Archive!Key
  <2>5. {Archive!Key(t) : t \in {x \in Savers : saver[x] # Archive!Idle}}'
           \subseteq {Archive!Key(t) : t \in {x \in Savers : saver[x] # Archive!Idle}}
                     \cup {[run |-> r, cap |-> c]}
    BY <2>3, <2>4
  <2>6. QED
    BY <1>0, <2>1, <2>2, <2>5 DEF ArchiveKeys
<1>7. OneCapture'
  <2>1. CASE [run |-> r, cap |-> c] \in ArchiveKeys /\ counted' = counted
    BY <1>0, <1>6, <2>1 DEF OneCapture
  <2>2. CASE r = counted + 1 /\ counted' = counted + 1
    <3>1. \A k \in ArchiveKeys : k.run <= counted /\ k.run \in Nat
      <4>1. \A k \in ArchiveKeys : k.run \in Nat
        BY <1>0 DEF ArchiveKeys, ArchiveTyped, Archive!Ids, Archive!Key
      <4>2. QED
        BY <1>0, <4>1 DEF OneCapture
    <3>2. \A k \in ArchiveKeys' : k \in ArchiveKeys \/ (k.run = counted + 1 /\ k.cap = c)
      BY <1>6, <2>2
    <3>3. counted \in Nat
      BY <1>0 DEF ArchiveTyped
    <3>4. \A k, m \in ArchiveKeys' : k.run = m.run => k.cap = m.cap
      BY <1>0, <3>1, <3>2, <3>3 DEF OneCapture
    <3>5. \A k \in ArchiveKeys' : k.run <= counted'
      BY <2>2, <3>1, <3>2, <3>3
    <3>6. QED
      BY <3>4, <3>5 DEF OneCapture
  <2>3. QED
    BY <1>1, <2>1, <2>2
<1>8. AnswersOnce'
  BY <1>0 DEF ArchiveInv, AnswersOnce
<1>9. VerdictsTrue'
  <2>1. job'.verdicts = job.verdicts /\ \A k : Archive!Truth(k)' = Archive!Truth(k)
    BY <1>0 DEF Archive!Truth
  <2>2. QED
    BY <1>3, <2>1 DEF ArchiveInv, VerdictsTrue, Archive!Truth
<1>10. VerifiedHasProducts'
  <2>1. \A q : Archive!Writing(q) => Archive!Writing(q)'
    BY <1>0, <1>3 DEF Archive!Writing, Archive!Idle
  <2>2. QED
    BY <1>0, <2>1 DEF ArchiveInv, VerifiedHasProducts
<1>11. QED
  BY <1>2, <1>5, <1>7, <1>8, <1>9, <1>10 DEF ArchiveInv

LEMMA NotWriting ==
    ASSUME NEW s \in Savers, SaverMoves(s), saver[s].pc # "products"
    PROVE  \A q : Archive!Writing(q) => Archive!Writing(q)'
BY DEF SaverMoves, Archive!Writing

\* append_answer_csv: the body is kept as pending
LEMMA AnswerKeeps ==
    ASSUME ArchiveInv, NEW s \in Savers, Archive!AppendAnswer(s)
    PROVE  ArchiveInv'
<1> DEFINE new == [run |-> saver[s].run, cap |-> saver[s].cap, status |-> "ai_pending"]
<1>0. /\ saver[s].pc = "answer" /\ saver' = [saver EXCEPT ![s].pc = "review"]
      /\ answers' = IF Archive!Key(s) \in Archive!Ids(answers) THEN answers ELSE answers \cup {new}
      /\ UNCHANGED <<refs, products, counted, job, torn>>
  BY DEF Archive!AppendAnswer, Archive!Move
<1>1. saver[s] # Archive!Idle
  BY <1>0 DEF Archive!Idle
<1>2. Busy(s) /\ Archive!Key(s) \in ArchiveKeys /\ DOMAIN saver = Savers
  BY <1>1, BusyKnown
<1>3. saver'[s] = [saver[s] EXCEPT !.pc = "review"]
  BY <1>0, <1>2
<1>4. /\ saver'[s] \in [pc : {"answer", "review", "status", "products"}, cap : Captures,
                        run : Nat, verdict : Verdicts]
      /\ saver'[s].run = saver[s].run /\ saver'[s].cap = saver[s].cap
      /\ saver'[s].pc = "review"
  BY <1>2, <1>3 DEF Busy
<1>5. SaverMoves(s)
  BY <1>0, <1>2, <1>4 DEF SaverMoves
<1>6. new \in [run : Nat, cap : Captures, status : Statuses]
  BY <1>2 DEF Busy, Statuses
<1>7. answers' \subseteq answers \cup {new}
  BY <1>0
<1>8. ArchiveTyped'
  BY <1>0, <1>5, <1>6, <1>7 DEF ArchiveInv, ArchiveTyped, SaverMoves
<1>9. Archive!Ids(answers') \subseteq Archive!Ids(answers) \cup {Archive!Key(s)}
  BY <1>7 DEF Archive!Ids, Archive!Key
<1>10. OneCapture'
  <2>1. UNCHANGED <<refs, products, job>>
    BY <1>0
  <2>2. ArchiveKeys' \subseteq ArchiveKeys
    BY <1>1, <1>5, <1>9, <2>1, MovesKeepKeys DEF Archive!Ids
  <2>3. QED
    BY <1>0, <2>2, KeysStay DEF ArchiveInv
<1>11. AnswersOnce'
  <2>1. ASSUME NEW x \in answers, x.run = saver[s].run PROVE Archive!Key(s) \in Archive!Ids(answers)
    <3>1. [run |-> x.run, cap |-> x.cap] \in Archive!Ids(answers)
      BY DEF Archive!Ids
    <3>2. [run |-> x.run, cap |-> x.cap] \in ArchiveKeys
      BY <3>1 DEF ArchiveKeys
    <3>3. x.cap = saver[s].cap
      BY <1>2, <2>1, <3>2 DEF ArchiveInv, OneCapture, Archive!Key
    <3>4. QED
      BY <2>1, <3>1, <3>3 DEF Archive!Key
  <2>2. CASE Archive!Key(s) \in Archive!Ids(answers)
    BY <1>0, <2>2 DEF ArchiveInv, AnswersOnce
  <2>3. CASE Archive!Key(s) \notin Archive!Ids(answers)
    BY <1>7, <2>1, <2>3 DEF ArchiveInv, AnswersOnce
  <2>4. QED
    BY <2>2, <2>3
<1>12. Archive!OneSourcedRun'
  BY <1>0 DEF ArchiveInv, Archive!OneSourcedRun
<1>13. VerdictsTrue'
  <2>1. saver'[s].verdict = saver[s].verdict
    BY <1>2, <1>3 DEF Busy
  <2>2. QED
    BY <1>0, <1>1, <1>4, <1>5, <2>1 DEF ArchiveInv, VerdictsTrue, SaverMoves, Archive!Truth
<1>14. VerifiedHasProducts'
  <2>1. \A q : Archive!Writing(q) => Archive!Writing(q)'
    BY <1>0, <1>5, NotWriting
  <2>2. new.status = "ai_pending"
    OBVIOUS
  <2>3. QED
    BY <1>0, <1>7, <2>1, <2>2 DEF ArchiveInv, VerifiedHasProducts
<1>15. QED
  BY <1>8, <1>10, <1>11, <1>12, <1>13, <1>14 DEF ArchiveInv

\* review_products_with_ai
LEMMA ReviewedKeeps ==
    ASSUME ArchiveInv, NEW s \in Savers, Archive!Review(s)
    PROVE  ArchiveInv'
<1>0. /\ saver[s].pc = "review" /\ UNCHANGED <<refs, answers, products, counted, job, torn>>
      /\ \/ saver' = [saver EXCEPT ![s].pc = "status", ![s].verdict = Archive!Truth(saver[s].cap)]
         \/ saver' = [saver EXCEPT ![s].pc = "status"]
  BY DEF Archive!Review, Archive!Move
<1>1. saver[s] # Archive!Idle
  BY <1>0 DEF Archive!Idle
<1>2. Busy(s) /\ Archive!Key(s) \in ArchiveKeys /\ DOMAIN saver = Savers
  BY <1>1, BusyKnown
<1>3. Archive!Truth(saver[s].cap) \in Verdicts
  BY DEF Archive!Truth, Verdicts
<1>4. /\ saver'[s] \in [pc : {"answer", "review", "status", "products"}, cap : Captures,
                        run : Nat, verdict : Verdicts]
      /\ saver'[s].run = saver[s].run /\ saver'[s].cap = saver[s].cap
      /\ saver'[s].pc = "status"
      /\ saver'[s].verdict = saver[s].verdict \/ saver'[s].verdict = Archive!Truth(saver[s].cap)
  BY <1>0, <1>2, <1>3 DEF Busy
<1>5. SaverMoves(s)
  BY <1>0, <1>2, <1>4 DEF SaverMoves
<1>6. ArchiveTyped'
  BY <1>0, <1>5 DEF ArchiveInv, ArchiveTyped, SaverMoves
<1>7. OneCapture'
  <2>1. Archive!Ids(answers)' \subseteq Archive!Ids(answers) \cup {Archive!Key(s)}
    BY <1>0 DEF Archive!Ids
  <2>2. UNCHANGED <<refs, products, job>>
    BY <1>0
  <2>3. ArchiveKeys' \subseteq ArchiveKeys
    BY <1>1, <1>5, <2>1, <2>2, MovesKeepKeys
  <2>4. QED
    BY <1>0, <2>3, KeysStay DEF ArchiveInv
<1>8. AnswersOnce' /\ Archive!OneSourcedRun'
  BY <1>0 DEF ArchiveInv, AnswersOnce, Archive!OneSourcedRun
<1>9. VerdictsTrue'
  BY <1>0, <1>1, <1>4, <1>5 DEF ArchiveInv, VerdictsTrue, SaverMoves, Archive!Truth
<1>10. VerifiedHasProducts'
  <2>1. \A q : Archive!Writing(q) => Archive!Writing(q)'
    BY <1>0, <1>5, NotWriting
  <2>2. QED
    BY <1>0, <2>1 DEF ArchiveInv, VerifiedHasProducts
<1>11. QED
  BY <1>6, <1>7, <1>8, <1>9, <1>10 DEF ArchiveInv

\* The answers of a run are those of its capture.
LEMMA SameCapture ==
    ASSUME ArchiveInv, NEW x \in answers, NEW k \in ArchiveKeys, x.run = k.run
    PROVE  x.cap = k.cap
<1>1. [run |-> x.run, cap |-> x.cap] \in ArchiveKeys
  BY DEF ArchiveKeys, Archive!Ids
<1>2. QED
  BY <1>1 DEF ArchiveInv, OneCapture

\* update_answer_review
LEMMA UpdateKeeps ==
    ASSUME ArchiveInv, NEW s \in Savers, Archive!UpdateReview(s)
    PROVE  ArchiveInv'
<1> DEFINE outcome == Archive!StatusOf(saver[s].verdict)
           marked(x) == IF [run |-> x.run, cap |-> x.cap] \in {Archive!Key(s)}
                        THEN [x EXCEPT !.status = outcome] ELSE x
<1>0. /\ saver[s].pc = "status" /\ UNCHANGED <<refs, products, counted, job, torn>>
      /\ answers' = answers \/ answers' = {marked(x) : x \in answers}
      /\ IF saver[s].verdict = "some" THEN saver' = [saver EXCEPT ![s].pc = "products"]
         ELSE saver' = [saver EXCEPT ![s] = Archive!Idle]
  BY DEF Archive!UpdateReview, Archive!Move, Archive!Ends, Archive!Mark
<1>1. saver[s] # Archive!Idle
  BY <1>0 DEF Archive!Idle
<1>2. Busy(s) /\ Archive!Key(s) \in ArchiveKeys /\ DOMAIN saver = Savers
  BY <1>1, BusyKnown
<1>3. saver'[s] = Archive!Idle
      \/ (saver[s].verdict = "some" /\ saver'[s] = [saver[s] EXCEPT !.pc = "products"])
  BY <1>0, <1>2
<1>4. \/ saver'[s] = Archive!Idle
      \/ /\ saver'[s] \in [pc : {"answer", "review", "status", "products"}, cap : Captures,
                           run : Nat, verdict : Verdicts]
         /\ saver'[s].run = saver[s].run /\ saver'[s].cap = saver[s].cap
         /\ saver'[s].pc = "products" /\ saver'[s].verdict = "some"
  BY <1>2, <1>3 DEF Busy
<1>5. SaverMoves(s)
  BY <1>0, <1>2, <1>4 DEF SaverMoves
<1>6. outcome \in Statuses
  BY DEF Archive!StatusOf, Statuses
<1>7. ASSUME NEW x \in answers
      PROVE  /\ marked(x) \in [run : Nat, cap : Captures, status : Statuses]
             /\ marked(x).run = x.run /\ marked(x).cap = x.cap
             /\ marked(x) = x \/ (x.run = saver[s].run /\ x.cap = saver[s].cap /\ marked(x).status = outcome)
  BY <1>6 DEF ArchiveInv, ArchiveTyped, Archive!Key
<1>8. answers' \subseteq [run : Nat, cap : Captures, status : Statuses]
  BY <1>0, <1>7 DEF ArchiveInv, ArchiveTyped
<1>9. ArchiveTyped'
  BY <1>0, <1>5, <1>8 DEF ArchiveInv, ArchiveTyped, SaverMoves
<1>10. OneCapture'
  <2>1. Archive!Ids(answers)' \subseteq Archive!Ids(answers) \cup {Archive!Key(s)}
    BY <1>0, <1>7 DEF Archive!Ids
  <2>2. UNCHANGED <<refs, products, job>>
    BY <1>0
  <2>3. ArchiveKeys' \subseteq ArchiveKeys
    BY <1>1, <1>5, <2>1, <2>2, MovesKeepKeys
  <2>4. QED
    BY <1>0, <2>3, KeysStay DEF ArchiveInv
<1>11. AnswersOnce'
  BY <1>0, <1>7 DEF ArchiveInv, AnswersOnce
<1>12. Archive!OneSourcedRun'
  BY <1>0 DEF ArchiveInv, Archive!OneSourcedRun
<1>13. VerdictsTrue'
  <2>1. saver'[s] # Archive!Idle =>
           saver'[s].verdict \in {"pending", Archive!Truth(saver'[s].cap)}
           /\ (saver'[s].pc = "products" => saver'[s].verdict = "some")
    BY <1>0, <1>1, <1>3, <1>4 DEF ArchiveInv, VerdictsTrue
  <2>2. Archive!Idle.pc = "idle"
    BY DEF Archive!Idle
  <2>3. QED
    BY <1>0, <1>4, <1>5, <2>1, <2>2 DEF ArchiveInv, VerdictsTrue, SaverMoves, Archive!Truth
<1>14. VerifiedHasProducts'
  <2>1. \A q : Archive!Writing(q) => Archive!Writing(q)'
    BY <1>0, <1>5, NotWriting
  <2>2. ASSUME NEW x \in answers, marked(x) # x, x.cap \in Recommends,
               marked(x).status = "ai_verified"
        PROVE  Archive!Writing(x.run)'
    <3>1. x.run = saver[s].run /\ x.cap = saver[s].cap /\ outcome = "ai_verified"
      BY <1>7, <2>2
    <3>2. saver[s].verdict # "pending"
      BY <3>1 DEF Archive!StatusOf
    <3>3. saver[s].verdict = "some"
      BY <1>1, <2>2, <3>1, <3>2 DEF ArchiveInv, VerdictsTrue, Archive!Truth
    <3>4. saver'[s].pc = "products" /\ saver'[s].run = x.run
      BY <1>0, <1>2, <3>1, <3>3 DEF Busy
    <3>5. QED
      BY <3>4 DEF Archive!Writing
  <2>3. ASSUME NEW y \in answers', y.cap \in Recommends, y.status = "ai_verified"
        PROVE  (\E p \in products' : p.run = y.run) \/ y.run \in torn' \/ Archive!Writing(y.run)'
    <3>1. CASE y \in answers
      BY <1>0, <2>1, <2>3, <3>1 DEF ArchiveInv, VerifiedHasProducts
    <3>2. ASSUME NEW x \in answers, y = marked(x), marked(x) # x
          PROVE  Archive!Writing(y.run)'
      BY <1>7, <2>2, <2>3, <3>2
    <3>3. QED
      BY <1>0, <3>1, <3>2
  <2>4. QED
    BY <2>3 DEF VerifiedHasProducts
<1>15. QED
  BY <1>9, <1>10, <1>11, <1>12, <1>13, <1>14 DEF ArchiveInv

\* What a crash, or products that are written or busy, leave behind.
LEMMA EndKeeps ==
    ASSUME ArchiveInv, NEW s \in Savers, saver[s] # Archive!Idle,
           saver' = [saver EXCEPT ![s] = Archive!Idle],
           UNCHANGED <<refs, answers, counted, job>>,
           \/ /\ products' = Archive!OtherRuns({saver[s].run}) \cup {Archive!Key(s)}
              /\ torn' = torn \ {saver[s].run}
           \/ /\ products' = products
              /\ torn' = IF saver[s].pc = "products" THEN torn \cup {saver[s].run} ELSE torn
    PROVE  ArchiveInv'
<1>2. Busy(s) /\ Archive!Key(s) \in ArchiveKeys /\ DOMAIN saver = Savers
  BY BusyKnown
<1>3. saver'[s] = Archive!Idle /\ \A t \in Savers \ {s} : saver'[t] = saver[t]
  BY <1>2
<1>4. DOMAIN saver' = Savers
  BY <1>2
<1>5. Archive!Key(s) \in [run : Nat, cap : Captures]
  BY <1>2 DEF Busy, Archive!Key
<1>6. products' \subseteq products \cup {Archive!Key(s)}
  BY DEF Archive!OtherRuns
<1>7. ArchiveTyped'
  BY <1>3, <1>4, <1>5, <1>6 DEF ArchiveInv, ArchiveTyped
<1>8. OneCapture'
  <2>1. {Archive!Key(t) : t \in {x \in Savers : saver[x] # Archive!Idle}}'
           \subseteq {Archive!Key(t) : t \in {x \in Savers : saver[x] # Archive!Idle}}
    BY <1>3 DEF Archive!Key
  <2>2. ArchiveKeys' \subseteq ArchiveKeys
    BY <1>2, <1>6, <2>1 DEF ArchiveKeys, Archive!Ids
  <2>3. QED
    BY <2>2, KeysStay DEF ArchiveInv
<1>9. AnswersOnce' /\ Archive!OneSourcedRun'
  BY DEF ArchiveInv, AnswersOnce, Archive!OneSourcedRun
<1>10. VerdictsTrue'
  <2>1. Archive!Idle.pc = "idle"
    BY DEF Archive!Idle
  <2>2. QED
    BY <1>3, <2>1 DEF ArchiveInv, VerdictsTrue, Archive!Truth
<1>11. VerifiedHasProducts'
  <2>1. ASSUME NEW x \in answers, x.cap \in Recommends, x.status = "ai_verified"
        PROVE  (\E p \in products' : p.run = x.run) \/ x.run \in torn' \/ Archive!Writing(x.run)'
    <3>1. (\E p \in products : p.run = x.run) \/ x.run \in torn \/ Archive!Writing(x.run)
      BY <2>1 DEF ArchiveInv, VerifiedHasProducts
    <3>2. CASE x.run = saver[s].run /\ Archive!Key(s) \in products'
      BY <3>2 DEF Archive!Key
    <3>3. CASE x.run = saver[s].run /\ products' = products
               /\ torn' = IF saver[s].pc = "products" THEN torn \cup {saver[s].run} ELSE torn
      <4>1. Archive!Writing(x.run) /\ ~ (saver[s].pc = "products") => Archive!Writing(x.run)'
        BY <1>3 DEF Archive!Writing
      <4>2. QED
        BY <3>1, <3>3, <4>1
    <3>4. CASE x.run # saver[s].run
      <4>1. Archive!Writing(x.run) => Archive!Writing(x.run)'
        BY <1>3, <3>4 DEF Archive!Writing
      <4>2. \A p \in products : p.run = x.run => p \in products'
        BY <3>4 DEF Archive!OtherRuns
      <4>3. x.run \in torn => x.run \in torn'
        BY <3>4
      <4>4. QED
        BY <3>1, <4>1, <4>2, <4>3
    <3>5. QED
      BY <3>2, <3>3, <3>4
  <2>2. QED
    BY <2>1 DEF VerifiedHasProducts
<1>12. QED
  BY <1>7, <1>8, <1>9, <1>10, <1>11 DEF ArchiveInv

\* The background review selects answers ...
LEMMA SelectKeeps == ArchiveInv /\ Archive!Select => ArchiveInv'
<1> SUFFICES ASSUME ArchiveInv, Archive!Select PROVE ArchiveInv'
  OBVIOUS
<1>1. PICK chosen, fails :
         /\ chosen \subseteq Archive!Ids(answers)
         /\ job' = [verdicts |-> [k \in chosen |->
                       IF k.cap \in fails THEN "pending" ELSE Archive!Truth(k.cap)]]
         /\ UNCHANGED <<refs, answers, products, counted, saver, torn, cuts>>
  <2>1. PICK chosen \in {Archive!Ids(answers), Archive!Ids({x \in answers : x.status = "ai_pending"})},
             fails \in SUBSET (Captures \ reviewed) :
         job' = [verdicts |-> [k \in chosen |->
                    IF k.cap \in fails THEN "pending" ELSE Archive!Truth(k.cap)]]
    BY DEF Archive!Select
  <2>2. Archive!Ids({x \in answers : x.status = "ai_pending"}) \subseteq Archive!Ids(answers)
    BY DEF Archive!Ids
  <2>3. UNCHANGED <<refs, answers, products, counted, saver, torn, cuts>>
    BY DEF Archive!Select
  <2>4. QED
    BY <2>1, <2>2, <2>3
<1>2. DOMAIN job'.verdicts = chosen
      /\ \A k \in chosen : job'.verdicts[k] \in {"pending", Archive!Truth(k.cap)}
  BY <1>1
<1>3. Archive!Ids(answers) \subseteq [run : Nat, cap : Captures]
  BY DEF ArchiveInv, ArchiveTyped, Archive!Ids
<1>4. ArchiveTyped'
  BY <1>1, <1>2, <1>3 DEF ArchiveInv, ArchiveTyped
<1>5. OneCapture'
  <2>1. \A t \in Savers : Archive!Key(t)' = Archive!Key(t)
    BY <1>1 DEF Archive!Key
  <2>2. ArchiveKeys' \subseteq ArchiveKeys
    BY <1>1, <1>2, <2>1 DEF ArchiveKeys, Archive!Ids
  <2>3. QED
    BY <1>1, <2>2, KeysStay DEF ArchiveInv
<1>6. AnswersOnce' /\ Archive!OneSourcedRun'
  BY <1>1 DEF ArchiveInv, AnswersOnce, Archive!OneSourcedRun
<1>7. VerdictsTrue'
  BY <1>1, <1>2 DEF ArchiveInv, VerdictsTrue, Archive!Truth
<1>8. VerifiedHasProducts'
  BY <1>1 DEF ArchiveInv, VerifiedHasProducts, Archive!Writing
<1>9. QED
  BY <1>4, <1>5, <1>6, <1>7, <1>8 DEF ArchiveInv

\* ... and commits its verdicts, the products before the answers.
LEMMA CommitKeeps == ArchiveInv /\ Archive!CommitReview => ArchiveInv'
<1> SUFFICES ASSUME ArchiveInv, Archive!CommitReview PROVE ArchiveInv'
  OBVIOUS
<1> DEFINE v == job.verdicts
           covered == {k.run : k \in DOMAIN v}
           some == {k \in DOMAIN v : v[k] = "some"}
           unsure == {k \in DOMAIN v : v[k] = "pending"}
           key(x) == [run |-> x.run, cap |-> x.cap]
           marked(x) == IF key(x) \in DOMAIN v
                        THEN [x EXCEPT !.status = Archive!StatusOf(v[key(x)])] ELSE x
<1>0. /\ products' = Archive!OtherRuns(covered) \cup some
      /\ \/ /\ answers' = {marked(x) : x \in answers} /\ torn' = torn \ covered
         \/ /\ answers' = answers /\ torn' = torn \cup {k.run : k \in unsure}
      /\ job' = [verdicts |-> <<>>]
      /\ UNCHANGED <<refs, counted, saver>>
  BY DEF Archive!CommitReview
<1>1. DOMAIN job'.verdicts = {}
  BY <1>0
<1>2. DOMAIN v \subseteq [run : Nat, cap : Captures] /\ DOMAIN v \subseteq ArchiveKeys
  BY DEF ArchiveInv, ArchiveTyped, ArchiveKeys
<1>3. products' \subseteq products \cup DOMAIN v
  BY <1>0 DEF Archive!OtherRuns
<1>4. ASSUME NEW x \in answers
      PROVE  /\ marked(x) \in [run : Nat, cap : Captures, status : Statuses]
             /\ marked(x).run = x.run /\ marked(x).cap = x.cap
             /\ key(x) \notin DOMAIN v => marked(x) = x
             /\ key(x) \in DOMAIN v => marked(x).status = Archive!StatusOf(v[key(x)])
  <2>1. \A w : Archive!StatusOf(w) \in Statuses
    BY DEF Archive!StatusOf, Statuses
  <2>2. QED
    BY <2>1 DEF ArchiveInv, ArchiveTyped
<1>15. ASSUME NEW y \in answers'
       PROVE  y \in [run : Nat, cap : Captures, status : Statuses]
  <2>1. CASE answers' = answers
    BY <2>1 DEF ArchiveInv, ArchiveTyped
  <2>2. CASE answers' # answers
    <3>1. PICK x \in answers : y = marked(x)
      BY <1>0, <2>2
    <3>2. QED
      BY <1>4, <3>1
  <2>3. QED
    BY <2>1, <2>2
<1>16. ASSUME NEW y \in answers'
       PROVE  \E x \in answers : y.run = x.run /\ y.cap = x.cap
  <2>1. CASE answers' = answers
    BY <2>1
  <2>2. CASE answers' # answers
    <3>1. PICK x \in answers : y = marked(x)
      BY <1>0, <2>2
    <3>2. y.run = x.run /\ y.cap = x.cap
      BY <1>4, <3>1
    <3>3. QED
      BY <3>2
  <2>3. QED
    BY <2>1, <2>2
<1>5. answers' \subseteq [run : Nat, cap : Captures, status : Statuses]
  BY <1>15
<1>6. ArchiveTyped'
  BY <1>0, <1>1, <1>2, <1>3, <1>5 DEF ArchiveInv, ArchiveTyped
<1>7. OneCapture'
  <2>1. \A t \in Savers : Archive!Key(t)' = Archive!Key(t)
    BY <1>0 DEF Archive!Key
  <2>2. Archive!Ids(answers)' \subseteq Archive!Ids(answers)
    <3>1. ASSUME NEW k \in Archive!Ids(answers)' PROVE k \in Archive!Ids(answers)
      <4>1. PICK y \in answers' : k = [run |-> y.run, cap |-> y.cap]
        BY <3>1 DEF Archive!Ids
      <4>2. PICK x \in answers : y.run = x.run /\ y.cap = x.cap
        BY <1>16
      <4>3. QED
        BY <4>1, <4>2 DEF Archive!Ids
    <3>2. QED
      BY <3>1
  <2>3. {Archive!Key(t) : t \in {x \in Savers : saver[x] # Archive!Idle}}'
           \subseteq {Archive!Key(t) : t \in {x \in Savers : saver[x] # Archive!Idle}}
    BY <1>0, <2>1
  <2>4. ArchiveKeys' \subseteq ArchiveKeys
    BY <1>0, <1>1, <1>3, <2>2, <2>3 DEF ArchiveKeys, Archive!Ids
  <2>5. QED
    BY <1>0, <2>4, KeysStay DEF ArchiveInv
<1>8. AnswersOnce'
  <2>1. CASE answers' = answers
    BY <2>1 DEF ArchiveInv, AnswersOnce
  <2>2. ASSUME answers' # answers, NEW y \in answers', NEW z \in answers', y.run = z.run
        PROVE  y = z
    <3>1. PICK a \in answers : y = marked(a)
      BY <1>0, <2>2
    <3>2. PICK b \in answers : z = marked(b)
      BY <1>0, <2>2
    <3>3. a.run = b.run
      BY <1>4, <2>2, <3>1, <3>2
    <3>4. a = b
      BY <3>3 DEF ArchiveInv, AnswersOnce
    <3>5. QED
      BY <3>1, <3>2, <3>4
  <2>3. QED
    BY <2>1, <2>2 DEF AnswersOnce
<1>9. Archive!OneSourcedRun'
  BY <1>0 DEF ArchiveInv, Archive!OneSourcedRun
<1>10. VerdictsTrue'
  BY <1>0, <1>1 DEF ArchiveInv, VerdictsTrue, Archive!Truth
<1>11. ASSUME NEW x \in answers, x.run \in covered
       PROVE  key(x) \in DOMAIN v
              /\ (x.cap \in Recommends => v[key(x)] \in {"some", "pending"})
              /\ (v[key(x)] = "some" => \E p \in products' : p.run = x.run)
              /\ (v[key(x)] = "pending" => x.run \in {k.run : k \in unsure})
  <2>1. PICK k \in DOMAIN v : k.run = x.run
    BY <1>11
  <2>2. x.cap = k.cap
    BY <1>2, <2>1, SameCapture
  <2>3. k = key(x)
    BY <1>2, <2>1, <2>2
  <2>4. v[k] \in {"pending", Archive!Truth(k.cap)}
    BY <2>1 DEF ArchiveInv, VerdictsTrue
  <2>5. QED
    BY <1>0, <2>1, <2>2, <2>3, <2>4 DEF Archive!Truth
<1>12. ASSUME NEW x \in answers, NEW y \in answers', y.run = x.run, y.cap = x.cap,
              y.cap \in Recommends, y.status = "ai_verified",
              y = x \/ (answers' = {marked(z) : z \in answers} /\ torn' = torn \ covered /\ y = marked(x))
       PROVE  (\E p \in products' : p.run = y.run) \/ y.run \in torn' \/ Archive!Writing(y.run)'
  <2>0. Archive!Writing(y.run)' = Archive!Writing(y.run)
    BY <1>0 DEF Archive!Writing
  <2>1. CASE x.run \notin covered
    <3>1. \A k \in DOMAIN v : k.run # x.run
      BY <2>1
    <3>2. key(x) \notin DOMAIN v
      BY <3>1
    <3>3. y = x
      BY <1>4, <1>12, <3>2
    <3>4. (\E p \in products : p.run = y.run) \/ y.run \in torn \/ Archive!Writing(y.run)
      BY <1>12, <3>3 DEF ArchiveInv, VerifiedHasProducts
    <3>5. \A p \in products : p.run = y.run => p \in products'
      BY <1>0, <2>1, <3>3 DEF Archive!OtherRuns
    <3>6. y.run \in torn => y.run \in torn'
      BY <1>0, <2>1, <3>3
    <3>7. QED
      BY <2>0, <3>4, <3>5, <3>6
  <2>2. CASE x.run \in covered
    <3>1. v[key(x)] \in {"some", "pending"}
      BY <1>11, <1>12, <2>2
    <3>2. CASE v[key(x)] = "some"
      BY <1>11, <1>12, <2>2, <3>2
    <3>3. CASE v[key(x)] = "pending" /\ answers' = {marked(z) : z \in answers} /\ y = marked(x)
      <4>1. y.status = Archive!StatusOf("pending")
        BY <1>4, <1>11, <2>2, <3>3
      <4>2. QED
        BY <1>12, <4>1 DEF Archive!StatusOf
    <3>4. CASE v[key(x)] = "pending" /\ torn' = torn \cup {k.run : k \in unsure}
      BY <1>11, <1>12, <2>2, <3>4
    <3>5. CASE v[key(x)] = "pending" /\ answers' = {marked(z) : z \in answers} /\ y = x
      <4>1. PICK z \in answers : y = marked(z)
        BY <3>5
      <4>2. z = x
        BY <1>4, <1>12, <4>1 DEF ArchiveInv, AnswersOnce
      <4>3. QED
        BY <3>3, <3>5, <4>1, <4>2
    <3>6. QED
      BY <1>0, <1>12, <3>1, <3>2, <3>3, <3>4, <3>5
  <2>3. QED
    BY <2>1, <2>2
<1>13. VerifiedHasProducts'
  <2>1. ASSUME NEW y \in answers', y.cap \in Recommends, y.status = "ai_verified"
        PROVE  (\E p \in products' : p.run = y.run) \/ y.run \in torn' \/ Archive!Writing(y.run)'
    <3>1. CASE answers' = answers
      BY <1>12, <2>1, <3>1
    <3>2. CASE answers' = {marked(x) : x \in answers} /\ torn' = torn \ covered
      <4>1. PICK x \in answers : y = marked(x)
        BY <3>2
      <4>2. y.run = x.run /\ y.cap = x.cap
        BY <1>4, <4>1
      <4>3. QED
        BY <1>12, <2>1, <3>2, <4>1, <4>2
    <3>3. QED
      BY <1>0, <3>1, <3>2
  <2>2. QED
    BY <2>1 DEF VerifiedHasProducts
<1>14. QED
  BY <1>6, <1>7, <1>8, <1>9, <1>10, <1>13 DEF ArchiveInv

LEMMA ArchiveKeeps == ArchiveInv /\ Archive!Next => ArchiveInv'
<1> SUFFICES ASSUME ArchiveInv, Archive!Next PROVE ArchiveInv'
  OBVIOUS
<1>1. ASSUME NEW s \in Savers, NEW c \in Captures, NEW n \in 0..MaxRefs,
             Archive!AppendSources(s, c, n)
      PROVE  ArchiveInv'
  BY <1>1, SourcesKeep, CaptureAssumption DEF Archive!ArchiveAssumption
<1>2. ASSUME NEW s \in Savers, Archive!ReplaceProducts(s) PROVE ArchiveInv'
  <2>1. /\ saver[s].pc = "products" /\ saver' = [saver EXCEPT ![s] = Archive!Idle]
        /\ UNCHANGED <<refs, answers, counted, job>>
        /\ \/ /\ products' = Archive!OtherRuns({saver[s].run}) \cup {Archive!Key(s)}
              /\ torn' = torn \ {saver[s].run}
           \/ /\ products' = products /\ torn' = torn \cup {saver[s].run}
    BY <1>2 DEF Archive!ReplaceProducts, Archive!Ends
  <2>2. saver[s] # Archive!Idle
    BY <2>1 DEF Archive!Idle
  <2>3. QED
    BY <2>1, <2>2, EndKeeps
<1>3. ASSUME NEW s \in Savers, Archive!Crash(s) PROVE ArchiveInv'
  BY <1>3, EndKeeps DEF Archive!Crash, Archive!Ends
<1>4. ~Archive!Repair
  BY NothingShared DEF ArchiveInv, Archive!Repair
<1>5. QED
  BY <1>1, <1>2, <1>3, <1>4, AnswerKeeps, ReviewedKeeps, UpdateKeeps, SelectKeeps, CommitKeeps
     DEF Archive!Next

LEMMA ArchiveHeld == SuiteSpec => [](part # "legacy" => ArchiveInv)
<1>1. (part # "legacy" => ArchiveInv) /\ [SuiteNext]_suiteVars => (part # "legacy" => ArchiveInv)'
  <2> SUFFICES ASSUME part # "legacy" => ArchiveInv, [SuiteNext]_suiteVars, part' # "legacy"
               PROVE  ArchiveInv'
    OBVIOUS
  <2>1. CASE part = "archive" /\ Archive!Next
    BY <2>1, ArchiveKeeps
  <2>2. CASE UNCHANGED <<part, archiveVars>>
    <3>1. part # "legacy" /\ UNCHANGED <<refs, answers, products, counted, saver, job, torn>>
      BY <2>2 DEF archiveVars
    <3>2. ArchiveKeys' = ArchiveKeys
      BY <3>1 DEF ArchiveKeys, Archive!Ids, Archive!Key
    <3>3. QED
      BY <3>1, <3>2 DEF ArchiveInv, ArchiveTyped, OneCapture, AnswersOnce, Archive!OneSourcedRun,
         VerdictsTrue, VerifiedHasProducts, Archive!Truth, Archive!Writing
  <2>3. QED
    BY <2>1, <2>2, ArchiveSteps
<1>2. QED
  BY <1>1, ArchiveStart, PTL DEF SuiteSpec

\* The properties.
LEMMA SourcesApart == ArchiveInv => Archive!RunsNotShared
<1> SUFFICES ASSUME ArchiveInv PROVE Archive!RunsNotShared
  OBVIOUS
<1>1. Archive!Shared = {}
  BY NothingShared DEF ArchiveInv
<1>2. ASSUME NEW x \in refs, NEW y \in refs, x.run = y.run PROVE x = y
  <2>1. [run |-> x.run, cap |-> x.cap] \in ArchiveKeys /\ [run |-> y.run, cap |-> y.cap] \in ArchiveKeys
    BY DEF ArchiveKeys, Archive!Ids
  <2>2. x.cap = y.cap
    BY <1>2, <2>1 DEF ArchiveInv, OneCapture
  <2>3. QED
    BY <2>2 DEF ArchiveInv, Archive!OneSourcedRun
<1>3. QED
  BY <1>1, <1>2 DEF Archive!RunsNotShared

LEMMA ProductsShown == ArchiveInv => Archive!VerifiedIsShown
<1> SUFFICES ASSUME ArchiveInv, NEW x \in refs, x.cap \in Recommends, x.run \notin torn,
                    ~Archive!Writing(x.run), Archive!Shown(x.run) = "verified_no_products"
             PROVE  FALSE
  BY DEF Archive!VerifiedIsShown
<1>1. /\ ~\E p \in products : p.run = x.run
      /\ ~\A y \in answers : y.run # x.run
      /\ ~\E y \in answers : y.run = x.run /\ y.status = "ai_pending"
  BY DEF Archive!Shown
<1>2. PICK y \in answers : y.run = x.run
  BY <1>1
<1>3. y.status = "ai_verified"
  BY <1>1, <1>2 DEF ArchiveInv, ArchiveTyped, Statuses
<1>4. [run |-> x.run, cap |-> x.cap] \in ArchiveKeys
  BY DEF ArchiveKeys, Archive!Ids
<1>5. y.cap = x.cap
  BY <1>2, <1>4, SameCapture
<1>6. QED
  BY <1>1, <1>2, <1>3, <1>5 DEF ArchiveInv, VerifiedHasProducts

-----------------------------------------------------------------------------
(* The archive whose captures once shared a run, and its repair.            *)

Numbers == 1..LegacyRuns
Savings == [pc : {"answer", "review", "status", "products"}, cap : Captures,
            run : Numbers, verdict : Verdicts]

LegacyTyped ==
    /\ refs \subseteq [run : Numbers, cap : Captures, n : Nat]
    /\ answers \subseteq [run : Numbers, cap : Captures, status : Statuses]
    /\ products \subseteq [run : Numbers, cap : Captures]
    /\ counted \in Nat /\ counted <= LegacyRuns /\ cuts \in Nat
    /\ DOMAIN saver = LegacySavers
    /\ \A s \in LegacySavers : saver[s] = Legacy!Idle \/ saver[s] \in Savings
    /\ DOMAIN job.verdicts \subseteq [run : Numbers, cap : Captures]

\* A capture is archived once under a run, although the run may be another's too.
KeysOnce == \A x, y \in answers : x.run = y.run /\ x.cap = y.cap => x = y

LegacyInv == LegacyTyped /\ KeysOnce

LEMMA LegacyNumbers ==
    LegacyRuns \in Nat /\ LegacyRuns >= 1 /\ MaxRefs \in Nat /\ IsFiniteSet(Captures)
<1>1. \A S : Legacy!IsFiniteSet(S) = IsFiniteSet(S)
  BY DEF Legacy!IsFiniteSet, IsFiniteSet
<1>2. QED
  BY <1>1, CaptureAssumption DEF Legacy!ArchiveAssumption

LEMMA LegacyStart == SuiteInit => (part = "legacy" => LegacyInv)
<1> SUFFICES ASSUME SuiteInit, part = "legacy" PROVE LegacyInv
  OBVIOUS
<1>1. Legacy!Init
  BY DEF SuiteInit
<1>2. PICK kept \in Captures :
         /\ refs = {[run |-> 1, cap |-> c, n |-> 1] : c \in Captures}
         /\ answers = {Legacy!Old(c, "ai_verified") : c \in Captures}
         /\ products = {[run |-> 1, cap |-> kept]} \cap Legacy!Ids(refs)
         /\ counted = 1
  BY <1>1 DEF Legacy!Init
<1>3. saver = [s \in LegacySavers |-> Legacy!Idle] /\ job = [verdicts |-> <<>>] /\ cuts = 0
  BY <1>1 DEF Legacy!Init
<1>4. 1 \in Numbers
  BY LegacyNumbers DEF Numbers
<1>5. answers \subseteq [run : Numbers, cap : Captures, status : Statuses] /\ KeysOnce
  <2>1. \A x \in answers : x.run = 1 /\ x.cap \in Captures /\ x = Legacy!Old(x.cap, "ai_verified")
    BY <1>2 DEF Legacy!Old
  <2>2. \A c \in Captures :
           Legacy!Old(c, "ai_verified") \in [run : Numbers, cap : Captures, status : Statuses]
    BY <1>4 DEF Legacy!Old, Statuses
  <2>3. QED
    BY <2>1, <2>2 DEF KeysOnce
<1>6. refs \subseteq [run : Numbers, cap : Captures, n : Nat]
  BY <1>2, <1>4
<1>7. products \subseteq [run : Numbers, cap : Captures]
  BY <1>2, <1>4
<1>8. DOMAIN job.verdicts = {}
  BY <1>3
<1>9. QED
  BY <1>2, <1>3, <1>5, <1>6, <1>7, <1>8, LegacyNumbers DEF LegacyInv, LegacyTyped

\* The highest number is above every row's, and within the numbers.
LEMMA LegacyHighest ==
    ASSUME LegacyTyped
    PROVE  /\ Legacy!Highest \in Nat /\ Legacy!Highest <= LegacyRuns
           /\ \A x \in refs \cup answers \cup products : x.run <= Legacy!Highest
<1>1. PICK S : S = {counted} \cup {x.run : x \in refs \cup answers \cup products}
  OBVIOUS
<1>2. \A x \in refs \cup answers \cup products : x.run \in Numbers
  BY DEF LegacyTyped
<1>3. S \subseteq 0..LegacyRuns /\ counted \in S
  BY <1>1, <1>2, LegacyNumbers DEF LegacyTyped, Numbers
<1>4. IsFiniteSet(0..LegacyRuns)
  BY LegacyNumbers, FS_Interval
<1>5. IsFiniteSet(S)
  BY <1>3, <1>4, FS_Subset
<1>6. S \subseteq Nat /\ S # {}
  BY <1>3
<1>7. PICK m \in S : \A y \in S : y <= m
  BY <1>5, <1>6, Highest
<1>8. \A y \in S : y \in Int /\ y <= m
  BY <1>6, <1>7
<1>9. (CHOOSE x \in S : \A y \in S : x >= y) = m
  BY <1>8, HighestIs
<1>10. Legacy!Highest = m
  BY <1>1, <1>9 DEF Legacy!Highest, Legacy!Max
<1>11. \A x \in refs \cup answers \cup products : x.run \in S
  BY <1>1
<1>12. m \in Nat /\ m <= LegacyRuns
  BY <1>3, <1>7, LegacyNumbers
<1>13. \A x \in refs \cup answers \cup products : x.run <= m
  BY <1>7, <1>11
<1>14. QED
  BY <1>10, <1>12, <1>13

\* There are finitely many answers, and names of answers.
LEMMA NamesFinite == IsFiniteSet([run : Numbers, cap : Captures])
<1>1. PICK T : T = Numbers \X Captures
  OBVIOUS
<1>2. IsFiniteSet(T)
  <2>1. IsFiniteSet(Numbers)
    BY LegacyNumbers, FS_Interval DEF Numbers
  <2>2. QED
    BY <1>1, <2>1, LegacyNumbers, FS_Product
<1>3. PICK U : U = [run : Numbers, cap : Captures]
  OBVIOUS
<1>4. PICK g : g = [t \in T |-> [run |-> t[1], cap |-> t[2]]]
  OBVIOUS
<1>5. \A u \in U : \E t \in T : g[t] = u
  <2>1. ASSUME NEW u \in U PROVE \E t \in T : g[t] = u
    <3>1. u = [run |-> u.run, cap |-> u.cap] /\ u.run \in Numbers /\ u.cap \in Captures
      BY <1>3
    <3>2. <<u.run, u.cap>> \in T
      BY <1>1, <3>1
    <3>3. g[<<u.run, u.cap>>] = u
      BY <1>4, <3>1, <3>2
    <3>4. QED
      BY <3>2, <3>3
  <2>2. QED
    BY <2>1
<1>6. g \in [T -> U]
  BY <1>1, <1>3, <1>4
<1>7. g \in Surjection(T, U)
  BY <1>5, <1>6 DEF Surjection
<1>8. IsFiniteSet(U)
  BY <1>2, <1>7, FS_Surjection
<1>9. QED
  BY <1>3, <1>8

LEMMA AnswersFinite == LegacyTyped => IsFiniteSet(answers)
<1> SUFFICES ASSUME LegacyTyped PROVE IsFiniteSet(answers)
  OBVIOUS
<1>1. PICK K : K = [run : Numbers, cap : Captures]
  OBVIOUS
<1>2. PICK T : T = K \X Statuses
  OBVIOUS
<1>3. IsFiniteSet(T)
  <2>1. IsFiniteSet(Statuses)
    <3>1. IsFiniteSet({"ai_pending"}) /\ IsFiniteSet({"ai_verified"})
      BY FS_Singleton
    <3>2. IsFiniteSet({"ai_pending"} \cup {"ai_verified"})
      BY <3>1, FS_Union
    <3>3. Statuses = {"ai_pending"} \cup {"ai_verified"}
      BY DEF Statuses
    <3>4. QED
      BY <3>2, <3>3
  <2>2. IsFiniteSet(K)
    BY <1>1, NamesFinite
  <2>3. QED
    BY <1>2, <2>1, <2>2, FS_Product
<1>4. PICK U : U = [run : Numbers, cap : Captures, status : Statuses]
  OBVIOUS
<1>5. PICK g : g = [t \in T |-> [run |-> t[1].run, cap |-> t[1].cap, status |-> t[2]]]
  OBVIOUS
<1>6. \A u \in U : \E t \in T : g[t] = u
  <2>1. ASSUME NEW u \in U PROVE \E t \in T : g[t] = u
    <3>1. /\ u = [run |-> u.run, cap |-> u.cap, status |-> u.status]
          /\ u.run \in Numbers /\ u.cap \in Captures /\ u.status \in Statuses
      BY <1>4
    <3>2. PICK k \in K : k = [run |-> u.run, cap |-> u.cap]
      BY <1>1, <3>1
    <3>3. <<k, u.status>> \in T
      BY <1>2, <3>1
    <3>4. g[<<k, u.status>>] = [run |-> k.run, cap |-> k.cap, status |-> u.status]
      BY <1>5, <3>3
    <3>5. g[<<k, u.status>>] = u
      BY <3>1, <3>2, <3>4
    <3>6. QED
      BY <3>3, <3>5
  <2>2. QED
    BY <2>1
<1>7. g \in [T -> U]
  BY <1>1, <1>2, <1>4, <1>5
<1>8. g \in Surjection(T, U)
  BY <1>6, <1>7 DEF Surjection
<1>9. IsFiniteSet(U)
  BY <1>3, <1>8, FS_Surjection
<1>10. answers \in SUBSET U
  BY <1>4 DEF LegacyTyped
<1>11. QED
  BY <1>9, <1>10, FS_Subset

LEMMA LegacySavings ==
    ASSUME LegacyTyped, NEW s \in LegacySavers, saver[s] # Legacy!Idle
    PROVE  saver[s] \in Savings /\ saver[s].run \in Numbers /\ saver[s].cap \in Captures
BY DEF LegacyTyped, Savings

\* What a step does to the savers, as long as they stay within their type.
SavesOn(s) ==
    /\ DOMAIN saver' = LegacySavers
    /\ \A t \in LegacySavers \ {s} : saver'[t] = saver[t]
    /\ saver'[s] = Legacy!Idle \/ saver'[s] \in Savings

LEMMA LegacySources ==
    ASSUME LegacyInv, NEW s \in LegacySavers, NEW c \in Captures, NEW n \in 0..MaxRefs,
           Legacy!AppendSources(s, c, n)
    PROVE  LegacyInv'
<1> DEFINE At(r) == [pc |-> "answer", cap |-> c, run |-> r, verdict |-> "pending"]
<1>0. /\ UNCHANGED <<answers, products, reviewed, job, torn, cuts>>
      /\ n \in Nat /\ DOMAIN saver = LegacySavers /\ LegacyTyped
  BY LegacyNumbers DEF Legacy!AppendSources, LegacyInv, LegacyTyped
<1>1. PICK r \in Numbers :
         /\ saver' = [saver EXCEPT ![s] = At(r)]
         /\ refs' \subseteq refs \cup {[run |-> r, cap |-> c, n |-> n]}
         /\ counted' = counted \/ counted' = r
  <2>1. ASSUME NEW r \in Legacy!RunsOf(c), refs' = Legacy!Repaired(r, c, n)
        PROVE  /\ r \in Numbers
               /\ refs' \subseteq refs \cup {[run |-> r, cap |-> c, n |-> n]}
    <3>1. PICK a \in refs \cup answers : a.run = r
      BY <2>1 DEF Legacy!RunsOf
    <3>2. r \in Numbers
      BY <1>0, <3>1 DEF LegacyTyped
    <3>3. refs' = refs \/ refs' = (refs \ Legacy!Sources(r)) \cup {[run |-> r, cap |-> c, n |-> n]}
      BY <2>1 DEF Legacy!Repaired
    <3>4. QED
      BY <3>2, <3>3
  <2>2. CASE \E r \in Legacy!RunsOf(c) :
                refs' = Legacy!Repaired(r, c, n) /\ saver' = [saver EXCEPT ![s] = At(r)]
                /\ UNCHANGED counted
    BY <2>1, <2>2
  <2>3. CASE /\ Legacy!Highest < LegacyRuns /\ counted' = Legacy!Highest + 1
             /\ refs' = IF n = 0 THEN refs ELSE refs \cup {[run |-> Legacy!Highest + 1, cap |-> c, n |-> n]}
             /\ saver' = [saver EXCEPT ![s] = At(Legacy!Highest + 1)]
    <3>1. Legacy!Highest + 1 \in Numbers
      BY <1>0, <2>3, LegacyHighest, LegacyNumbers DEF Numbers
    <3>2. QED
      BY <2>3, <3>1
  <2>4. QED
    BY <2>2, <2>3 DEF Legacy!AppendSources
<1>2. saver'[s] \in Savings /\ (\A t \in LegacySavers \ {s} : saver'[t] = saver[t])
      /\ DOMAIN saver' = LegacySavers
  <2>1. At(r) \in Savings
    BY DEF Savings, Verdicts
  <2>2. QED
    BY <1>0, <1>1, <2>1
<1>3. counted' \in Nat /\ counted' <= LegacyRuns
  BY <1>0, <1>1, LegacyNumbers DEF LegacyTyped, Numbers
<1>4. refs' \subseteq [run : Numbers, cap : Captures, n : Nat]
  BY <1>0, <1>1 DEF LegacyTyped
<1>5. LegacyTyped'
  BY <1>0, <1>2, <1>3, <1>4 DEF LegacyTyped
<1>6. KeysOnce'
  BY <1>0 DEF LegacyInv, KeysOnce
<1>7. QED
  BY <1>5, <1>6 DEF LegacyInv

LEMMA LegacyMoves ==
    ASSUME LegacyInv, NEW s \in LegacySavers, SavesOn(s),
           UNCHANGED <<refs, counted, job>>,
           answers' \subseteq [run : Numbers, cap : Captures, status : Statuses],
           products' \subseteq [run : Numbers, cap : Captures],
           KeysOnce', cuts' = cuts \/ cuts' = cuts + 1
    PROVE  LegacyInv'
<1>1. cuts' \in Nat
  BY DEF LegacyInv, LegacyTyped
<1>2. \A t \in LegacySavers : saver'[t] = Legacy!Idle \/ saver'[t] \in Savings
  BY DEF SavesOn, LegacyInv, LegacyTyped
<1>3. LegacyTyped'
  BY <1>1, <1>2 DEF SavesOn, LegacyInv, LegacyTyped
<1>4. QED
  BY <1>3 DEF LegacyInv

LEMMA LegacyAnswer ==
    ASSUME LegacyInv, NEW s \in LegacySavers, Legacy!AppendAnswer(s)
    PROVE  LegacyInv'
<1> DEFINE new == [run |-> saver[s].run, cap |-> saver[s].cap, status |-> "ai_pending"]
<1>0. /\ saver[s].pc = "answer" /\ saver' = [saver EXCEPT ![s].pc = "review"]
      /\ answers' = IF Legacy!Key(s) \in Legacy!Ids(answers) THEN answers ELSE answers \cup {new}
      /\ UNCHANGED <<refs, products, counted, job, cuts>>
  BY DEF Legacy!AppendAnswer, Legacy!Move
<1>1. saver[s] # Legacy!Idle
  BY <1>0 DEF Legacy!Idle
<1>2. saver[s] \in Savings /\ DOMAIN saver = LegacySavers
      /\ saver[s].run \in Numbers /\ saver[s].cap \in Captures
  BY <1>1, LegacySavings DEF LegacyInv, LegacyTyped
<1>3. SavesOn(s)
  BY <1>0, <1>2 DEF SavesOn, Savings
<1>4. new \in [run : Numbers, cap : Captures, status : Statuses]
  BY <1>2 DEF Statuses
<1>5. answers' \subseteq [run : Numbers, cap : Captures, status : Statuses]
  BY <1>0, <1>4 DEF LegacyInv, LegacyTyped
<1>6. KeysOnce'
  <2>1. CASE answers' = answers
    BY <2>1 DEF LegacyInv, KeysOnce
  <2>2. CASE answers' = answers \cup {new} /\ Legacy!Key(s) \notin Legacy!Ids(answers)
    <3>1. \A x \in answers : ~ (x.run = saver[s].run /\ x.cap = saver[s].cap)
      BY <2>2 DEF Legacy!Key, Legacy!Ids
    <3>2. QED
      BY <2>2, <3>1 DEF LegacyInv, KeysOnce
  <2>3. QED
    BY <1>0, <2>1, <2>2
<1>7. products' \subseteq [run : Numbers, cap : Captures]
  BY <1>0 DEF LegacyInv, LegacyTyped
<1>8. QED
  BY <1>0, <1>3, <1>5, <1>6, <1>7, LegacyMoves

LEMMA LegacyReview ==
    ASSUME LegacyInv, NEW s \in LegacySavers, Legacy!Review(s)
    PROVE  LegacyInv'
<1>0. /\ saver[s].pc = "review" /\ UNCHANGED <<refs, answers, products, counted, job, cuts>>
      /\ \/ saver' = [saver EXCEPT ![s].pc = "status", ![s].verdict = Legacy!Truth(saver[s].cap)]
         \/ saver' = [saver EXCEPT ![s].pc = "status"]
  BY DEF Legacy!Review, Legacy!Move
<1>1. saver[s] # Legacy!Idle
  BY <1>0 DEF Legacy!Idle
<1>2. saver[s] \in Savings /\ DOMAIN saver = LegacySavers
  BY <1>1, LegacySavings DEF LegacyInv, LegacyTyped
<1>3. Legacy!Truth(saver[s].cap) \in Verdicts
  BY DEF Legacy!Truth, Verdicts
<1>4. SavesOn(s)
  BY <1>0, <1>2, <1>3 DEF SavesOn, Savings
<1>5. KeysOnce' /\ products' \subseteq [run : Numbers, cap : Captures]
      /\ answers' \subseteq [run : Numbers, cap : Captures, status : Statuses]
  BY <1>0 DEF LegacyInv, LegacyTyped, KeysOnce
<1>6. QED
  BY <1>0, <1>4, <1>5, LegacyMoves

\* Answers that keep their names.
Renamed(old, new) ==
    /\ new.run = old.run /\ new.cap = old.cap
    /\ new \in [run : Numbers, cap : Captures, status : Statuses]

LEMMA Remarked ==
    ASSUME LegacyInv, NEW F, answers' = {F[x] : x \in answers},
           \A x \in answers : Renamed(x, F[x])
    PROVE  KeysOnce' /\ answers' \subseteq [run : Numbers, cap : Captures, status : Statuses]
<1>1. ASSUME NEW y \in answers', NEW z \in answers', y.run = z.run, y.cap = z.cap PROVE y = z
  <2>1. PICK a \in answers : y = F[a]
    OBVIOUS
  <2>2. PICK b \in answers : z = F[b]
    OBVIOUS
  <2>3. a.run = b.run /\ a.cap = b.cap
    BY <1>1, <2>1, <2>2 DEF Renamed
  <2>4. a = b
    BY <2>3 DEF LegacyInv, KeysOnce
  <2>5. QED
    BY <2>1, <2>2, <2>4
<1>2. QED
  BY <1>1 DEF KeysOnce, Renamed

LEMMA LegacyUpdate ==
    ASSUME LegacyInv, NEW s \in LegacySavers, Legacy!UpdateReview(s)
    PROVE  LegacyInv'
<1> DEFINE outcome == Legacy!StatusOf(saver[s].verdict)
           marked(x) == IF [run |-> x.run, cap |-> x.cap] \in {Legacy!Key(s)}
                        THEN [x EXCEPT !.status = outcome] ELSE x
<1>0. /\ saver[s].pc = "status" /\ UNCHANGED <<refs, products, counted, job>>
      /\ answers' = answers \/ answers' = {marked(x) : x \in answers}
      /\ cuts' = cuts \/ cuts' = cuts + 1
      /\ saver' = [saver EXCEPT ![s].pc = "products"] \/ saver' = [saver EXCEPT ![s] = Legacy!Idle]
  BY DEF Legacy!UpdateReview, Legacy!Move, Legacy!Ends, Legacy!Mark
<1>1. saver[s] # Legacy!Idle
  BY <1>0 DEF Legacy!Idle
<1>2. saver[s] \in Savings /\ DOMAIN saver = LegacySavers
  BY <1>1, LegacySavings DEF LegacyInv, LegacyTyped
<1>3. SavesOn(s)
  BY <1>0, <1>2 DEF SavesOn, Savings
<1>4. PICK F : F = [x \in answers |-> marked(x)]
  OBVIOUS
<1>5. outcome \in Statuses
  BY DEF Legacy!StatusOf, Statuses
<1>6. \A x \in answers : Renamed(x, F[x])
  <2>1. ASSUME NEW x \in answers PROVE Renamed(x, marked(x))
    BY <1>5 DEF LegacyInv, LegacyTyped, Renamed
  <2>2. QED
    BY <1>4, <2>1
<1>7. KeysOnce' /\ answers' \subseteq [run : Numbers, cap : Captures, status : Statuses]
  <2>1. CASE answers' = answers
    BY <2>1 DEF LegacyInv, LegacyTyped, KeysOnce
  <2>2. CASE answers' = {marked(x) : x \in answers}
    <3>1. answers' = {F[x] : x \in answers}
      BY <1>4, <2>2
    <3>2. QED
      BY <1>6, <3>1, Remarked
  <2>3. QED
    BY <1>0, <2>1, <2>2
<1>8. products' \subseteq [run : Numbers, cap : Captures]
  BY <1>0 DEF LegacyInv, LegacyTyped
<1>9. QED
  BY <1>0, <1>3, <1>7, <1>8, LegacyMoves

LEMMA LegacyEnds ==
    ASSUME LegacyInv, NEW s \in LegacySavers, Legacy!ReplaceProducts(s) \/ Legacy!Crash(s)
    PROVE  LegacyInv'
<1>1. /\ saver' = [saver EXCEPT ![s] = Legacy!Idle] /\ UNCHANGED <<refs, answers, counted, job>>
      /\ cuts' = cuts \/ cuts' = cuts + 1
      /\ \/ products' = products
         \/ saver[s].pc = "products"
            /\ products' = Legacy!OtherRuns({saver[s].run}) \cup {Legacy!Key(s)}
  BY DEF Legacy!ReplaceProducts, Legacy!Crash, Legacy!Ends
<1>2. SavesOn(s)
  BY <1>1 DEF SavesOn, LegacyInv, LegacyTyped
<1>3. products' \subseteq [run : Numbers, cap : Captures]
  <2>1. CASE saver[s].pc = "products"
    <3>1. saver[s] # Legacy!Idle
      BY <2>1 DEF Legacy!Idle
    <3>2. Legacy!Key(s) \in [run : Numbers, cap : Captures]
      BY <3>1, LegacySavings DEF LegacyInv, Legacy!Key
    <3>3. QED
      BY <1>1, <3>2 DEF Legacy!OtherRuns, LegacyInv, LegacyTyped
  <2>2. QED
    BY <1>1, <2>1 DEF LegacyInv, LegacyTyped
<1>4. KeysOnce' /\ answers' \subseteq [run : Numbers, cap : Captures, status : Statuses]
  BY <1>1 DEF LegacyInv, LegacyTyped, KeysOnce
<1>5. QED
  BY <1>1, <1>2, <1>3, <1>4, LegacyMoves

LEMMA LegacySelect == LegacyInv /\ Legacy!Select => LegacyInv'
<1> SUFFICES ASSUME LegacyInv, Legacy!Select PROVE LegacyInv'
  OBVIOUS
<1>1. UNCHANGED <<refs, answers, products, counted, saver, torn, cuts>>
  BY DEF Legacy!Select
<1>2. DOMAIN job'.verdicts \subseteq Legacy!Ids(answers)
  <2>1. PICK chosen \in {Legacy!Ids(answers), Legacy!Ids({x \in answers : x.status = "ai_pending"})},
             fails \in SUBSET (Captures \ reviewed) :
         job' = [verdicts |-> [k \in chosen |->
                    IF k.cap \in fails THEN "pending" ELSE Legacy!Truth(k.cap)]]
    BY DEF Legacy!Select
  <2>2. Legacy!Ids({x \in answers : x.status = "ai_pending"}) \subseteq Legacy!Ids(answers)
    BY DEF Legacy!Ids
  <2>3. DOMAIN job'.verdicts = chosen
    BY <2>1
  <2>4. QED
    BY <2>1, <2>2, <2>3
<1>3. Legacy!Ids(answers) \subseteq [run : Numbers, cap : Captures]
  BY DEF LegacyInv, LegacyTyped, Legacy!Ids
<1>4. LegacyTyped'
  BY <1>1, <1>2, <1>3 DEF LegacyInv, LegacyTyped
<1>5. KeysOnce'
  BY <1>1 DEF LegacyInv, KeysOnce
<1>6. QED
  BY <1>4, <1>5 DEF LegacyInv

LEMMA LegacyCommit == LegacyInv /\ Legacy!CommitReview => LegacyInv'
<1> SUFFICES ASSUME LegacyInv, Legacy!CommitReview PROVE LegacyInv'
  OBVIOUS
<1> DEFINE v == job.verdicts
           covered == {k.run : k \in DOMAIN v}
           some == {k \in DOMAIN v : v[k] = "some"}
           key(x) == [run |-> x.run, cap |-> x.cap]
           marked(x) == IF key(x) \in DOMAIN v
                        THEN [x EXCEPT !.status = Legacy!StatusOf(v[key(x)])] ELSE x
<1>0. /\ products' = Legacy!OtherRuns(covered) \cup some
      /\ answers' = {marked(x) : x \in answers} \/ answers' = answers
      /\ cuts' = cuts \/ cuts' = cuts + 1
      /\ job' = [verdicts |-> <<>>]
      /\ UNCHANGED <<refs, counted, saver>>
  BY DEF Legacy!CommitReview
<1>1. DOMAIN job'.verdicts = {} /\ cuts' \in Nat
  BY <1>0 DEF LegacyInv, LegacyTyped
<1>2. products' \subseteq products \cup DOMAIN v
  BY <1>0 DEF Legacy!OtherRuns
<1>3. products' \subseteq [run : Numbers, cap : Captures]
  BY <1>2 DEF LegacyInv, LegacyTyped
<1>4. PICK F : F = [x \in answers |-> marked(x)]
  OBVIOUS
<1>5. \A x \in answers : Renamed(x, F[x])
  <2>1. ASSUME NEW x \in answers PROVE Renamed(x, marked(x))
    <3>1. Legacy!StatusOf(v[key(x)]) \in Statuses
      BY DEF Legacy!StatusOf, Statuses
    <3>2. x \in [run : Numbers, cap : Captures, status : Statuses]
      BY DEF LegacyInv, LegacyTyped
    <3>3. QED
      BY <3>1, <3>2 DEF Renamed
  <2>2. QED
    BY <1>4, <2>1
<1>6. KeysOnce' /\ answers' \subseteq [run : Numbers, cap : Captures, status : Statuses]
  <2>1. CASE answers' = answers
    BY <2>1 DEF LegacyInv, LegacyTyped, KeysOnce
  <2>2. CASE answers' = {marked(x) : x \in answers}
    <3>1. answers' = {F[x] : x \in answers}
      BY <1>4, <2>2
    <3>2. QED
      BY <1>5, <3>1, Remarked
  <2>3. QED
    BY <1>0, <2>1, <2>2
<1>7. LegacyTyped'
  BY <1>0, <1>1, <1>3, <1>6 DEF LegacyInv, LegacyTyped
<1>8. QED
  BY <1>6, <1>7 DEF LegacyInv

\* A run that is not shared has one answer.
LEMMA NotShared ==
    ASSUME LegacyTyped, NEW a \in answers, NEW b \in answers, a.run = b.run,
           a.run \notin Legacy!Shared
    PROVE  a = b
<1>1. PICK T : T = {x \in answers : x.run = a.run}
  OBVIOUS
<1>2. IsFiniteSet(T)
  BY <1>1, AnswersFinite, FS_Subset
<1>3. Cardinality(T) \in Nat
  BY <1>2, FS_CardinalityType
<1>4. a.run \in 1..LegacyRuns
  BY DEF LegacyTyped, Numbers
<1>5. ~ (Legacy!Cardinality(T) > 1)
  BY <1>1, <1>4 DEF Legacy!Shared
<1>6. Legacy!Cardinality(T) = Cardinality(T)
  BY DEF Legacy!Cardinality, Cardinality
<1>7. T # {}
  BY <1>1
<1>8. Cardinality(T) # 0
  BY <1>2, <1>7, FS_EmptySet
<1>9. Cardinality(T) = 1
  BY <1>3, <1>5, <1>6, <1>8
<1>10. \E x : T = {x}
  BY <1>2, <1>9, FS_Singleton
<1>11. QED
  BY <1>1, <1>10

LEMMA OneEach ==
    ASSUME NEW A, \A x, y \in A : x.run = y.run => x = y
    PROVE  \A r : ~ (Cardinality({x \in A : x.run = r}) > 1)
<1> SUFFICES ASSUME NEW r PROVE ~(Cardinality({x \in A : x.run = r}) > 1)
  OBVIOUS
<1> DEFINE T == {x \in A : x.run = r}
<1>1. CASE T = {}
  BY <1>1, FS_EmptySet
<1>2. CASE T # {}
  <2>1. PICK a \in T : TRUE
    BY <1>2
  <2>2. T = {a}
    BY <2>1
  <2>3. Cardinality(T) = 1
    BY <2>2, FS_Singleton
  <2>4. QED
    BY <2>3
<1>3. QED
  BY <1>1, <1>2

\* What the repair decides: which answers move, and to which numbers.
Renumbering(kept, map) ==
    /\ \A a \in answers :
          a.run \in Legacy!Shared /\ [run |-> a.run, cap |-> a.cap] \notin DOMAIN map
             => a.cap = kept[a.run]
    /\ DOMAIN map \subseteq [run : Numbers, cap : Captures]
    /\ \A k, m \in DOMAIN map : map[k] = map[m] => k = m
    /\ \A k \in DOMAIN map : map[k] \in Numbers /\ map[k] > Legacy!Highest

LEMMA RepairNumbers ==
    ASSUME LegacyInv, Legacy!Repair
    PROVE  \E kept, map :
              /\ Renumbering(kept, map)
              /\ refs' = Legacy!Renumber(refs, map)
              /\ \/ /\ products' = Legacy!Renumber(products, map)
                    /\ answers' = {IF [run |-> x.run, cap |-> x.cap] \in products' THEN x
                                   ELSE [x EXCEPT !.status = "ai_pending"]
                                   : x \in Legacy!Renumber(answers, map)}
                    /\ counted' \in Nat /\ counted' <= LegacyRuns /\ cuts' = cuts
                 \/ cuts' = cuts + 1 /\ UNCHANGED <<answers, products, counted>>
              /\ UNCHANGED <<saver, job>>
<1>1. PICK kept \in [Legacy!Shared -> Captures] :
        LET moved == {k \in Legacy!Ids(answers) : k.run \in Legacy!Shared /\ k.cap # kept[k.run]}
            last == Legacy!Highest + Legacy!Cardinality(moved)
        IN /\ last <= LegacyRuns
           /\ \E map \in [moved -> (Legacy!Highest + 1)..last] :
                 /\ Legacy!Fresh(map, last)
                 /\ refs' = Legacy!Renumber(refs, map)
                 /\ \/ /\ products' = Legacy!Renumber(products, map)
                       /\ answers' = {IF [run |-> x.run, cap |-> x.cap] \in products' THEN x
                                      ELSE [x EXCEPT !.status = "ai_pending"]
                                      : x \in Legacy!Renumber(answers, map)}
                       /\ counted' = last /\ torn' = {} /\ UNCHANGED cuts
                    \/ /\ cuts < MaxCuts /\ cuts' = cuts + 1
                       /\ UNCHANGED <<answers, products, counted, torn>>
           /\ UNCHANGED <<reviewed, saver, job>>
  BY DEF Legacy!Repair
<1>2. PICK moved : moved = {k \in Legacy!Ids(answers) : k.run \in Legacy!Shared /\ k.cap # kept[k.run]}
  OBVIOUS
<1>3. moved \subseteq [run : Numbers, cap : Captures]
  BY <1>2 DEF LegacyInv, LegacyTyped, Legacy!Ids
<1>4. Cardinality(moved) \in Nat
  <2>1. moved \in SUBSET [run : Numbers, cap : Captures]
    BY <1>3
  <2>2. IsFiniteSet(moved)
    BY <2>1, NamesFinite, FS_Subset
  <2>3. QED
    BY <2>2, FS_CardinalityType
<1>5. PICK last : last = Legacy!Highest + Legacy!Cardinality(moved)
  OBVIOUS
<1>6. Legacy!Cardinality(moved) = Cardinality(moved)
  BY DEF Legacy!Cardinality, Cardinality
<1>7. last \in Nat /\ Legacy!Highest \in Nat
  BY <1>4, <1>5, <1>6, LegacyHighest DEF LegacyInv
<1>8. /\ last <= LegacyRuns
      /\ \E map \in [moved -> (Legacy!Highest + 1)..last] :
            /\ Legacy!Fresh(map, last)
            /\ refs' = Legacy!Renumber(refs, map)
            /\ \/ /\ products' = Legacy!Renumber(products, map)
                  /\ answers' = {IF [run |-> x.run, cap |-> x.cap] \in products' THEN x
                                 ELSE [x EXCEPT !.status = "ai_pending"]
                                 : x \in Legacy!Renumber(answers, map)}
                  /\ counted' = last /\ torn' = {} /\ UNCHANGED cuts
               \/ /\ cuts < MaxCuts /\ cuts' = cuts + 1
                  /\ UNCHANGED <<answers, products, counted, torn>>
      /\ UNCHANGED <<reviewed, saver, job>>
  BY <1>1, <1>2, <1>5
<1>9. PICK map \in [moved -> (Legacy!Highest + 1)..last] :
         /\ Legacy!Fresh(map, last)
         /\ refs' = Legacy!Renumber(refs, map)
         /\ \/ /\ products' = Legacy!Renumber(products, map)
               /\ answers' = {IF [run |-> x.run, cap |-> x.cap] \in products' THEN x
                              ELSE [x EXCEPT !.status = "ai_pending"]
                              : x \in Legacy!Renumber(answers, map)}
               /\ counted' = last /\ torn' = {} /\ UNCHANGED cuts
            \/ /\ cuts < MaxCuts /\ cuts' = cuts + 1
               /\ UNCHANGED <<answers, products, counted, torn>>
  BY <1>8
<1>10. Renumbering(kept, map)
  <2>1. \A k, m \in DOMAIN map : map[k] = map[m] => k = m
    BY <1>9 DEF Legacy!Fresh
  <2>2. ASSUME NEW k \in DOMAIN map PROVE map[k] \in Numbers /\ map[k] > Legacy!Highest
    <3>1. map[k] \in (Legacy!Highest + 1)..last
      BY <1>9
    <3>2. QED
      BY <1>7, <1>8, <3>1, LegacyNumbers DEF Numbers
  <2>3. ASSUME NEW a \in answers, a.run \in Legacy!Shared,
               [run |-> a.run, cap |-> a.cap] \notin DOMAIN map
        PROVE  a.cap = kept[a.run]
    <3>1. [run |-> a.run, cap |-> a.cap] \in Legacy!Ids(answers)
      BY DEF Legacy!Ids
    <3>2. QED
      BY <1>2, <2>3, <3>1
  <2>4. QED
    BY <1>3, <2>1, <2>2, <2>3 DEF Renumbering
<1>11. counted' = last => counted' \in Nat /\ counted' <= LegacyRuns
  BY <1>7, <1>8
<1>12. QED
  BY <1>8, <1>9, <1>10, <1>11

\* The new number of a row is one of the numbers.
LEMMA RenumberedRun ==
    ASSUME NEW kept, NEW map, Renumbering(kept, map), NEW k, k.run \in Numbers
    PROVE  Legacy!Numbered(k, map) \in Numbers
BY DEF Renumbering, Legacy!Numbered

\* Two answers never come to one number.
LEMMA RenumberedApart ==
    ASSUME LegacyInv, NEW kept, NEW map, Renumbering(kept, map),
           NEW a \in answers, NEW b \in answers,
           Legacy!Numbered([run |-> a.run, cap |-> a.cap], map)
              = Legacy!Numbered([run |-> b.run, cap |-> b.cap], map)
    PROVE  a = b
<1>1. PICK k : k = [run |-> a.run, cap |-> a.cap]
  OBVIOUS
<1>2. PICK m : m = [run |-> b.run, cap |-> b.cap]
  OBVIOUS
<1>3. a.run <= Legacy!Highest /\ b.run <= Legacy!Highest /\ Legacy!Highest \in Nat
      /\ a.run \in Nat /\ b.run \in Nat
  BY LegacyHighest DEF LegacyInv, LegacyTyped, Numbers
<1>4. CASE k \in DOMAIN map /\ m \in DOMAIN map
  <2>1. map[k] = map[m]
    BY <1>1, <1>2, <1>4 DEF Legacy!Numbered
  <2>2. k = m
    BY <1>4, <2>1 DEF Renumbering
  <2>3. a.run = b.run /\ a.cap = b.cap
    BY <1>1, <1>2, <2>2
  <2>4. QED
    BY <2>3 DEF LegacyInv, KeysOnce
<1>5. CASE k \in DOMAIN map /\ m \notin DOMAIN map
  <2>1. map[k] = b.run
    BY <1>1, <1>2, <1>5 DEF Legacy!Numbered
  <2>2. map[k] > Legacy!Highest /\ map[k] \in Nat
    BY <1>5 DEF Renumbering, Numbers
  <2>3. QED
    BY <1>3, <2>1, <2>2
<1>6. CASE k \notin DOMAIN map /\ m \in DOMAIN map
  <2>1. map[m] = a.run
    BY <1>1, <1>2, <1>6 DEF Legacy!Numbered
  <2>2. map[m] > Legacy!Highest /\ map[m] \in Nat
    BY <1>6 DEF Renumbering, Numbers
  <2>3. QED
    BY <1>3, <2>1, <2>2
<1>7. CASE k \notin DOMAIN map /\ m \notin DOMAIN map
  <2>1. a.run = b.run
    BY <1>1, <1>2, <1>7 DEF Legacy!Numbered
  <2>2. CASE a.run \in Legacy!Shared
    <3>1. a.cap = kept[a.run] /\ b.cap = kept[b.run]
      BY <1>1, <1>2, <1>7, <2>1, <2>2 DEF Renumbering
    <3>2. QED
      BY <2>1, <3>1 DEF LegacyInv, KeysOnce
  <2>3. CASE a.run \notin Legacy!Shared
    BY <2>1, <2>3, NotShared DEF LegacyInv
  <2>4. QED
    BY <2>2, <2>3
<1>8. QED
  BY <1>4, <1>5, <1>6, <1>7

\* What a finished repair leaves.
Separated ==
    /\ AnswersOnce'
    /\ {x.cap : x \in answers} = {x.cap : x \in answers'}

LEMMA RepairKeeps ==
    ASSUME LegacyInv, Legacy!Repair
    PROVE  LegacyInv' /\ (cuts' = cuts => Separated)
<1>1. PICK kept, map :
         /\ Renumbering(kept, map)
         /\ refs' = Legacy!Renumber(refs, map)
         /\ \/ /\ products' = Legacy!Renumber(products, map)
               /\ answers' = {IF [run |-> x.run, cap |-> x.cap] \in products' THEN x
                              ELSE [x EXCEPT !.status = "ai_pending"]
                              : x \in Legacy!Renumber(answers, map)}
               /\ counted' \in Nat /\ counted' <= LegacyRuns /\ cuts' = cuts
            \/ cuts' = cuts + 1 /\ UNCHANGED <<answers, products, counted>>
         /\ UNCHANGED <<saver, job>>
  BY RepairNumbers
<1>2. refs' \subseteq [run : Numbers, cap : Captures, n : Nat]
  <2>1. ASSUME NEW y \in refs' PROVE y \in [run : Numbers, cap : Captures, n : Nat]
    <3>1. PICK x \in refs : y = [x EXCEPT !.run = Legacy!Numbered([run |-> x.run, cap |-> x.cap], map)]
      BY <1>1 DEF Legacy!Renumber
    <3>2. x \in [run : Numbers, cap : Captures, n : Nat]
      BY DEF LegacyInv, LegacyTyped
    <3>3. Legacy!Numbered([run |-> x.run, cap |-> x.cap], map) \in Numbers
      BY <1>1, <3>2, RenumberedRun
    <3>4. QED
      BY <3>1, <3>2, <3>3
  <2>2. QED
    BY <2>1
<1>3. CASE cuts' = cuts + 1 /\ UNCHANGED <<answers, products, counted>>
  <2>1. cuts' \in Nat /\ cuts' # cuts
    BY <1>3 DEF LegacyInv, LegacyTyped
  <2>2. LegacyTyped'
    BY <1>1, <1>2, <1>3, <2>1 DEF LegacyInv, LegacyTyped
  <2>3. KeysOnce'
    BY <1>3 DEF LegacyInv, KeysOnce
  <2>4. QED
    BY <2>1, <2>2, <2>3 DEF LegacyInv
<1>4. CASE /\ products' = Legacy!Renumber(products, map)
           /\ answers' = {IF [run |-> x.run, cap |-> x.cap] \in products' THEN x
                          ELSE [x EXCEPT !.status = "ai_pending"]
                          : x \in Legacy!Renumber(answers, map)}
           /\ counted' \in Nat /\ counted' <= LegacyRuns /\ cuts' = cuts
  <2> DEFINE renumbered(x) == Legacy!Numbered([run |-> x.run, cap |-> x.cap], map)
             moved(x) == [x EXCEPT !.run = renumbered(x)]
             marked(x) == IF [run |-> x.run, cap |-> x.cap] \in products' THEN x
                          ELSE [x EXCEPT !.status = "ai_pending"]
  <2>1. products' \subseteq [run : Numbers, cap : Captures]
    <3>1. ASSUME NEW y \in products' PROVE y \in [run : Numbers, cap : Captures]
      <4>1. PICK x \in products : y = moved(x)
        BY <1>4, <3>1 DEF Legacy!Renumber
      <4>2. x \in [run : Numbers, cap : Captures]
        BY DEF LegacyInv, LegacyTyped
      <4>3. renumbered(x) \in Numbers
        BY <1>1, <4>2, RenumberedRun
      <4>4. QED
        BY <4>1, <4>2, <4>3
    <3>2. QED
      BY <3>1
  <2>2. PICK F : F = [x \in answers |-> marked(moved(x))]
    OBVIOUS
  <2>3. answers' = {F[x] : x \in answers}
    BY <1>4, <2>2 DEF Legacy!Renumber
  <2>4. ASSUME NEW x \in answers
        PROVE  /\ F[x] \in [run : Numbers, cap : Captures, status : Statuses]
               /\ F[x].run = renumbered(x) /\ F[x].cap = x.cap
    <3>1. x \in [run : Numbers, cap : Captures, status : Statuses]
      BY DEF LegacyInv, LegacyTyped
    <3>2. renumbered(x) \in Numbers
      BY <1>1, <3>1, RenumberedRun
    <3>3. PICK y : y = moved(x)
      OBVIOUS
    <3>4. y \in [run : Numbers, cap : Captures, status : Statuses]
          /\ y.run = renumbered(x) /\ y.cap = x.cap
      BY <3>1, <3>2, <3>3
    <3>5. F[x] = y \/ F[x] = [y EXCEPT !.status = "ai_pending"]
      BY <2>2, <3>3
    <3>6. "ai_pending" \in Statuses
      BY DEF Statuses
    <3>7. QED
      BY <3>4, <3>5, <3>6
  <2>5. answers' \subseteq [run : Numbers, cap : Captures, status : Statuses]
    BY <2>3, <2>4
  <2>6. AnswersOnce'
    <3>1. ASSUME NEW y \in answers', NEW z \in answers', y.run = z.run PROVE y = z
      <4>1. PICK a \in answers : y = F[a]
        BY <2>3
      <4>2. PICK b \in answers : z = F[b]
        BY <2>3
      <4>3. renumbered(a) = renumbered(b)
        BY <2>4, <3>1, <4>1, <4>2
      <4>4. a = b
        BY <1>1, <4>3, RenumberedApart
      <4>5. QED
        BY <4>1, <4>2, <4>4
    <3>2. QED
      BY <3>1 DEF AnswersOnce
  <2>7. {x.cap : x \in answers} = {x.cap : x \in answers'}
    <3>1. ASSUME NEW x \in answers PROVE \E y \in answers' : y.cap = x.cap
      <4>1. F[x] \in answers' /\ F[x].cap = x.cap
        BY <2>3, <2>4
      <4>2. QED
        BY <4>1
    <3>2. ASSUME NEW y \in answers' PROVE \E x \in answers : y.cap = x.cap
      <4>1. PICK x \in answers : y = F[x]
        BY <2>3
      <4>2. QED
        BY <2>4, <4>1
    <3>3. QED
      BY <3>1, <3>2
  <2>8. KeysOnce'
    BY <2>6 DEF AnswersOnce, KeysOnce
  <2>9. cuts' \in Nat
    BY <1>4 DEF LegacyInv, LegacyTyped
  <2>10. LegacyTyped'
    BY <1>1, <1>2, <1>4, <2>1, <2>5, <2>9 DEF LegacyInv, LegacyTyped
  <2>11. QED
    BY <2>6, <2>7, <2>8, <2>10 DEF LegacyInv, Separated
<1>5. QED
  BY <1>1, <1>3, <1>4

LEMMA LegacyKeeps == LegacyInv /\ Legacy!Next => LegacyInv'
<1> SUFFICES ASSUME LegacyInv, Legacy!Next PROVE LegacyInv'
  OBVIOUS
<1>1. ASSUME NEW s \in LegacySavers, NEW c \in Captures, NEW n \in 0..MaxRefs,
             Legacy!AppendSources(s, c, n)
      PROVE  LegacyInv'
  BY <1>1, LegacySources
<1>2. QED
  BY <1>1, LegacyAnswer, LegacyReview, LegacyUpdate, LegacyEnds, LegacySelect, LegacyCommit,
     RepairKeeps DEF Legacy!Next

LEMMA LegacyHeld == SuiteSpec => [](part = "legacy" => LegacyInv)
<1>1. (part = "legacy" => LegacyInv) /\ [SuiteNext]_suiteVars => (part = "legacy" => LegacyInv)'
  <2> SUFFICES ASSUME part = "legacy" => LegacyInv, [SuiteNext]_suiteVars, part' = "legacy"
               PROVE  LegacyInv'
    OBVIOUS
  <2>1. CASE part = "legacy" /\ Legacy!Next
    BY <2>1, LegacyKeeps
  <2>2. CASE UNCHANGED <<part, archiveVars>>
    <3>1. part = "legacy" /\ UNCHANGED <<refs, answers, products, counted, saver, job, cuts>>
      BY <2>2 DEF archiveVars
    <3>2. QED
      BY <3>1 DEF LegacyInv, LegacyTyped, KeysOnce
  <2>3. QED
    BY <2>1, <2>2, ArchiveSteps
<1>2. QED
  BY <1>1, LegacyStart, PTL DEF SuiteSpec

\* The repair is of no use to an archive where nothing is shared, and separates
\* the captures of one where something is.
LEMMA RepairsSeparate ==
    ASSUME part = "legacy" => LegacyInv, part # "legacy" => AnswersOnce,
           Legacy!Repair, cuts' = cuts
    PROVE  Legacy!Shared' = {} /\ {x.cap : x \in answers} = {x.cap : x \in answers'}
<1>1. part = "legacy"
  <2> SUFFICES ASSUME part # "legacy" PROVE FALSE
    OBVIOUS
  <2>1. \A r : ~ (Cardinality({x \in answers : x.run = r}) > 1)
    BY OneEach DEF AnswersOnce
  <2>2. Legacy!Shared = {}
    BY <2>1 DEF Legacy!Shared, Legacy!Cardinality, Cardinality
  <2>3. QED
    BY <2>2 DEF Legacy!Repair
<1>2. Separated
  BY <1>1, RepairKeeps
<1>3. \A x, y \in answers' : x.run = y.run => x = y
  BY <1>2 DEF Separated, AnswersOnce
<1>4. \A r : ~ (Cardinality({x \in answers' : x.run = r}) > 1)
  BY <1>3, OneEach
<1>5. Legacy!Shared' = {}
  BY <1>4 DEF Legacy!Shared, Legacy!Cardinality, Cardinality
<1>6. QED
  BY <1>2, <1>5 DEF Separated

-----------------------------------------------------------------------------
(* The bodies of sources and their labels.                                  *)

\* A table of bodies, an index, and an index in memory for each worker.
IndexesTyped ==
    /\ body \in [Urls -> {"none", "ok", "failed"}]
    /\ DOMAIN book = Urls
    /\ DOMAIN mine = Workers /\ \A w \in Workers : DOMAIN mine[w] = Urls

ContentInv == IndexesTyped /\ Content!LabelsBacked

LEMMA ContentSteps ==
    [SuiteNext]_suiteVars =>
        \/ part = "content" /\ part' = "content" /\ Content!Next
        \/ UNCHANGED <<part, contentVars>>
BY DEF SuiteNext, suiteVars, DatabaseStep, LockStep, ArchiveStep, LegacyStep,
       ContentStep, EditStep, VisitStep, SessionsStep, QuotaStep, ReviewsStep,
       OnlyBase, OnlyLock, OnlyArchive, OnlyContent, OnlyReport, OnlyPeople, OnlyReview

LEMMA ContentStart == SuiteInit => ContentInv
<1> SUFFICES ASSUME SuiteInit PROVE ContentInv
  OBVIOUS
<1>1. Content!Init
  BY DEF SuiteInit
<1>2. body = [u \in Urls |-> "none"] /\ book = [u \in Urls |-> Content!NoEntry]
      /\ mine = [w \in Workers |-> book] /\ Content!NoEntry.status = "none"
  BY <1>1 DEF Content!Init, Content!NoEntry
<1>3. QED
  BY <1>2 DEF ContentInv, IndexesTyped, Content!LabelsBacked

\* A step changes one of the indexes in memory, publishes one, or archives a body.
LEMMA ContentKeeps == ContentInv /\ Content!Next => ContentInv'
<1> SUFFICES ASSUME ContentInv, Content!Next PROVE ContentInv'
  OBVIOUS
<1> USE DEF ContentInv, IndexesTyped, Content!LabelsBacked
<1>1. ASSUME NEW w \in Workers, Content!CreateLock(w) PROVE ContentInv'
  BY <1>1 DEF Content!CreateLock, Content!Go
<1>2. ASSUME NEW w \in Workers, Content!StartPass(w) PROVE ContentInv'
  <2>1. UNCHANGED body /\ mine' = [mine EXCEPT ![w] = Content!Relabelled(w)]
        /\ (book' = book \/ book' = mine'[w])
    BY <1>2 DEF Content!StartPass
  <2>2. DOMAIN Content!Relabelled(w) = Urls
    BY DEF Content!Relabelled
  <2>3. \A u \in Urls : Content!Relabelled(w)[u].status = "ok" => mine[w][u].status = "ok"
    BY DEF Content!Relabelled, Content!Labelled
  <2>4. QED
    BY <2>1, <2>2, <2>3
<1>3. ASSUME NEW w \in Workers, NEW u \in Urls, NEW ok \in BOOLEAN, Content!Complete(w, u, ok)
      PROVE ContentInv'
  <2>1. /\ body' = [body EXCEPT ![u] = Content!Row(u, ok)]
        /\ mine' = [mine EXCEPT ![w] = [mine[w] EXCEPT ![u] = Content!Entry(w, u, ok)]]
        /\ book' = book \/ book' = mine'[w]
    BY <1>3 DEF Content!Complete
  <2>2. /\ Content!Row(u, ok) \in {"ok", "failed"}
        /\ body[u] = "ok" => Content!Row(u, ok) = "ok"
        /\ Content!Entry(w, u, ok).status = "ok" => Content!Row(u, ok) = "ok"
    BY DEF Content!Row, Content!Entry, Content!Labelled, Content!Archived
  <2>3. \A x \in Urls : body[x] = "ok" => body'[x] = "ok"
    BY <2>1, <2>2
  <2>4. QED
    BY <2>1, <2>2, <2>3
<1>4. ASSUME NEW w \in Workers, Content!EndPass(w) PROVE ContentInv'
  BY <1>4 DEF Content!EndPass
<1>5. ASSUME NEW w \in Workers, Content!RefreshAll(w) PROVE ContentInv'
  <2>1. PICK fresh : /\ fresh = [u \in Urls |->
                          IF mine[w][u].status = "ok" \/ (u \in known /\ body[u] = "ok")
                          THEN Content!Labelled(vocab) ELSE mine[w][u]]
                     /\ mine' = [mine EXCEPT ![w] = fresh] /\ book' = fresh /\ UNCHANGED body
    BY <1>5 DEF Content!RefreshAll
  <2>2. \A u \in Urls : fresh[u].status = "ok" => body[u] = "ok"
    BY <2>1
  <2>3. QED
    BY <2>1, <2>2
<1>6. CASE UNCHANGED <<body, book, mine>>
  BY <1>6
<1>7. QED
  BY <1>1, <1>2, <1>3, <1>4, <1>5, <1>6 DEF Content!Next, Content!Arrive, Content!Rename,
     Content!Elapse, Content!LookAtLock, Content!UnlinkLock, Content!Replaced, Content!Crash

\* A fetch never takes an archived body away.
LEMMA BodiesKept == ContentInv /\ Content!Next => \A u \in Urls : body[u] = "ok" => body'[u] = "ok"
<1> SUFFICES ASSUME ContentInv, Content!Next PROVE \A u \in Urls : body[u] = "ok" => body'[u] = "ok"
  OBVIOUS
<1>1. ASSUME NEW w \in Workers, NEW u \in Urls, NEW ok \in BOOLEAN, Content!Complete(w, u, ok)
      PROVE \A x \in Urls : body[x] = "ok" => body'[x] = "ok"
  BY <1>1 DEF Content!Complete, Content!Row, Content!Archived, ContentInv, IndexesTyped
<1>2. CASE UNCHANGED body
  BY <1>2
<1>3. QED
  BY <1>1, <1>2 DEF Content!Next, Content!Arrive, Content!Rename, Content!Elapse,
     Content!LookAtLock, Content!UnlinkLock, Content!CreateLock, Content!Replaced, Content!Crash,
     Content!StartPass, Content!EndPass, Content!RefreshAll

LEMMA ContentHeld == SuiteSpec => []ContentInv
<1>1. ContentInv /\ [SuiteNext]_suiteVars => ContentInv'
  <2> SUFFICES ASSUME ContentInv, [SuiteNext]_suiteVars PROVE ContentInv'
    OBVIOUS
  <2>1. CASE Content!Next
    BY <2>1, ContentKeeps
  <2>2. CASE UNCHANGED contentVars
    BY <2>2 DEF ContentInv, IndexesTyped, Content!LabelsBacked, contentVars
  <2>3. QED
    BY <2>1, <2>2, ContentSteps
<1>2. QED
  BY <1>1, ContentStart, PTL DEF SuiteSpec

-----------------------------------------------------------------------------
(* The review of products.                                                  *)

\* What is known was paid for, and so was every run that was verified by the
\* model or for nothing.
ReviewInv ==
    /\ DOMAIN review = Rows /\ DOMAIN tries = Rows /\ DOMAIN cool = Rows
    /\ \A r \in Rows : review[r] \in {"pending", "reused", "paid"}
    /\ \A r \in Rows : review[r] # "pending" => AnswerOf[r] \in paid
    /\ knowledge \subseteq paid
    /\ Reviews!VerifiedIsClean

LEMMA ReviewSteps ==
    [SuiteNext]_suiteVars =>
        \/ part = "review" /\ part' = "review" /\ Reviews!Next
        \/ UNCHANGED <<part, reviewVars>>
BY DEF SuiteNext, suiteVars, DatabaseStep, LockStep, ArchiveStep, LegacyStep,
       ContentStep, EditStep, VisitStep, SessionsStep, QuotaStep, ReviewsStep,
       OnlyBase, OnlyLock, OnlyArchive, OnlyContent, OnlyReport, OnlyPeople, OnlyReview

LEMMA ReviewStart == SuiteInit => ReviewInv
BY DEF SuiteInit, Reviews!Init, ReviewInv, Reviews!VerifiedIsClean, Reviews!Pending

\* A run is verified with an answer that was paid for, or reset.
LEMMA VerifyKeeps ==
    ASSUME ReviewInv, NEW r, NEW method, Reviews!Verify(r, method),
           method \in {"pending", "reused", "paid"},
           paid \subseteq paid', method # "pending" => AnswerOf[r] \in paid',
           knowledge' = knowledge
    PROVE  ReviewInv'
BY DEF ReviewInv, Reviews!Verify, Reviews!VerifiedIsClean, Reviews!Pending

\* Only runs that are pending are deferred.
LEMMA DeferKeeps ==
    ASSUME ReviewInv, NEW S, Reviews!Defer(S), UNCHANGED <<paid, knowledge>>
    PROVE  ReviewInv'
BY DEF ReviewInv, Reviews!Defer, Reviews!VerifiedIsClean, Reviews!Pending

LEMMA KnownIsPaid == ReviewInv => Reviews!Verified \subseteq paid
BY DEF ReviewInv, Reviews!Verified

LEMMA ReviewKeeps == ReviewInv /\ Reviews!Next => ReviewInv'
<1> SUFFICES ASSUME ReviewInv, Reviews!Next PROVE ReviewInv'
  OBVIOUS
<1>1. CASE Reviews!Reuse
  <2>1. PICK r \in Rows : AnswerOf[r] \in knowledge /\ Reviews!Verify(r, "reused")
    BY <1>1 DEF Reviews!Reuse
  <2>2. UNCHANGED <<paid, knowledge>>
    BY <1>1 DEF Reviews!Reuse, Reviews!process
  <2>3. AnswerOf[r] \in paid
    BY <2>1 DEF ReviewInv
  <2>4. QED
    BY <2>1, <2>2, <2>3, VerifyKeeps
<1>2. CASE Reviews!Apply
  <2>1. UNCHANGED knowledge
    BY <1>2 DEF Reviews!Apply
  <2>2. CASE Head(left) \in results
    <3>1. Reviews!Verify(Head(left), "paid") /\ paid' = paid \cup {AnswerOf[Head(left)]}
      BY <1>2, <2>2 DEF Reviews!Apply
    <3>2. QED
      BY <2>1, <3>1, VerifyKeeps
  <2>3. CASE Head(left) \notin results
    <3>1. Reviews!Defer({Head(left)}) /\ UNCHANGED paid
      BY <1>2, <2>3 DEF Reviews!Apply
    <3>2. QED
      BY <2>1, <3>1, DeferKeeps
  <2>4. QED
    BY <2>2, <2>3
<1>3. CASE Reviews!ApplyFails
  <2>1. Reviews!Defer(Reviews!Range(batch)) /\ UNCHANGED <<paid, knowledge>>
    BY <1>3 DEF Reviews!ApplyFails
  <2>2. QED
    BY <2>1, DeferKeeps
<1>4. ASSUME NEW r \in Rows, Reviews!Reset(r) PROVE ReviewInv'
  <2>1. Reviews!Verify(r, "pending") /\ UNCHANGED <<paid, knowledge>>
    BY <1>4 DEF Reviews!Reset, Reviews!process
  <2>2. QED
    BY <2>1, VerifyKeeps
<1>5. ASSUME NEW r \in Rows, Reviews!Cooled(r) PROVE ReviewInv'
  BY <1>5 DEF Reviews!Cooled, Reviews!process, ReviewInv, Reviews!VerifiedIsClean,
     Reviews!Pending
<1>6. CASE UNCHANGED <<review, tries, cool, paid>>
           /\ (knowledge' = knowledge \/ knowledge' = Reviews!Verified \/ knowledge' = {})
  BY <1>6, KnownIsPaid DEF ReviewInv, Reviews!VerifiedIsClean, Reviews!Pending
<1>7. Reviews!Start \/ Reviews!Reserve \/ Reviews!Pause \/ Reviews!Pass \/ Reviews!Call
      \/ Reviews!Outage \/ Reviews!Crash \/ Reviews!Tick \/ Reviews!ProviderBack
      => UNCHANGED <<review, tries, cool, paid>>
         /\ (knowledge' = knowledge \/ knowledge' = Reviews!Verified \/ knowledge' = {})
  BY DEF Reviews!Start, Reviews!Reserve, Reviews!Pause, Reviews!Pass, Reviews!Call,
     Reviews!Outage, Reviews!Crash, Reviews!Tick, Reviews!ProviderBack, Reviews!rows,
     Reviews!process
<1>8. QED
  BY <1>1, <1>2, <1>3, <1>4, <1>5, <1>6, <1>7 DEF Reviews!Next, Reviews!Work

LEMMA ReviewHeld == SuiteSpec => []ReviewInv
<1>1. ReviewInv /\ [SuiteNext]_suiteVars => ReviewInv'
  <2> SUFFICES ASSUME ReviewInv, [SuiteNext]_suiteVars PROVE ReviewInv'
    OBVIOUS
  <2>1. CASE Reviews!Next
    BY <2>1, ReviewKeeps
  <2>2. CASE UNCHANGED reviewVars
    BY <2>2 DEF ReviewInv, Reviews!VerifiedIsClean, Reviews!Pending, reviewVars
  <2>3. QED
    BY <2>1, <2>2, ReviewSteps
<1>2. QED
  BY <1>1, ReviewStart, PTL DEF SuiteSpec

-----------------------------------------------------------------------------
(* The paid calls of an hour.                                               *)

\* Every call was reserved before it was made, and no hour has more
\* reservations than the limit.
CallsInv ==
    /\ calls \in [Reviews!Ages -> Nat] /\ made \in [Reviews!Ages -> Nat]
    /\ \A a \in Reviews!Ages : made[a] <= calls[a]
    /\ at = "call" => made[0] < calls[0]
    /\ Reviews!Made(calls) <= HourlyCalls

LEMMA HourNumbers ==
    /\ HourlyCalls \in Nat \ {0} /\ Hour \in Nat \ {0}
    /\ 0 \in Reviews!Ages /\ Reviews!Ages \subseteq Nat /\ IsFiniteSet(Reviews!Ages)
<1>1. HourlyCalls \in Nat \ {0} /\ Hour \in Nat \ {0}
  BY RowsAssumption DEF Reviews!ReviewAssumption
<1>2. IsFiniteSet(0..(Hour - 1))
  BY <1>1, FS_Interval
<1>3. QED
  BY <1>1, <1>2 DEF Reviews!Ages

LEMMA CallsFinite ==
    ASSUME NEW f \in [Reviews!Ages -> Nat] PROVE IsFiniteSet(Reviews!CallsOf(f))
<1>1. ASSUME NEW a \in Reviews!Ages PROVE IsFiniteSet({a} \X (1..f[a]))
  <2>1. f[a] \in Nat
    OBVIOUS
  <2>2. IsFiniteSet({a})
    BY FS_Singleton
  <2>4. IsFiniteSet(1..f[a])
    BY <2>1, FS_Interval
  <2>3. QED
    BY <2>2, <2>4, FS_Product
<1>2. PICK F : F = {{a} \X (1..f[a]) : a \in Reviews!Ages}
  OBVIOUS
<1>3. IsFiniteSet(F)
  <2>1. PICK g : g = [a \in Reviews!Ages |-> {a} \X (1..f[a])]
    OBVIOUS
  <2>2. F = {g[a] : a \in Reviews!Ages}
    BY <1>2, <2>1
  <2>3. g \in Surjection(Reviews!Ages, F)
    BY <2>1, <2>2 DEF Surjection
  <2>4. QED
    BY <2>3, HourNumbers, FS_Surjection
<1>4. \A T \in F : IsFiniteSet(T)
  BY <1>1, <1>2
<1>5. IsFiniteSet(UNION F)
  BY <1>3, <1>4, FS_UNION
<1>6. QED
  BY <1>2, <1>5 DEF Reviews!CallsOf

LEMMA MadeIs ==
    ASSUME NEW f \in [Reviews!Ages -> Nat]
    PROVE  Reviews!Made(f) = Cardinality(Reviews!CallsOf(f)) /\ Reviews!Made(f) \in Nat
<1>1. Reviews!Made(f) = Cardinality(Reviews!CallsOf(f))
  BY DEF Reviews!Made, Reviews!Cardinality, Cardinality
<1>2. QED
  BY <1>1, CallsFinite, FS_CardinalityType

\* Fewer entries at every age are fewer in all.
LEMMA MadeFewer ==
    ASSUME NEW f \in [Reviews!Ages -> Nat], NEW g \in [Reviews!Ages -> Nat],
           \A a \in Reviews!Ages : f[a] <= g[a]
    PROVE  Reviews!Made(f) <= Reviews!Made(g)
<1>1. ASSUME NEW a \in Reviews!Ages PROVE 1..f[a] \subseteq 1..g[a]
  <2>1. f[a] \in Nat /\ g[a] \in Nat /\ f[a] <= g[a]
    OBVIOUS
  <2>2. QED
    BY <2>1
<1>2. Reviews!CallsOf(f) \subseteq Reviews!CallsOf(g)
  BY <1>1 DEF Reviews!CallsOf
<1>3. QED
  BY <1>2, MadeIs, CallsFinite, FS_Subset

\* One more entry of age 0 is one more.
LEMMA MadeOneMore ==
    ASSUME NEW f \in [Reviews!Ages -> Nat], NEW g, g = [f EXCEPT ![0] = f[0] + 1]
    PROVE  g \in [Reviews!Ages -> Nat] /\ Reviews!Made(g) = Reviews!Made(f) + 1
<1>1. f[0] \in Nat
  BY HourNumbers
<1>2. g \in [Reviews!Ages -> Nat] /\ g[0] = f[0] + 1
      /\ \A a \in Reviews!Ages : a # 0 => g[a] = f[a]
  BY <1>1, HourNumbers
<1>3. 1..g[0] = (1..f[0]) \cup {f[0] + 1} /\ f[0] + 1 \notin 1..f[0]
  BY <1>1, <1>2
<1>4. PICK new : new = <<0, f[0] + 1>>
  OBVIOUS
<1>5. ASSUME NEW x PROVE x \in Reviews!CallsOf(g) <=> x \in Reviews!CallsOf(f) \/ x = new
  <2>1. x \in Reviews!CallsOf(g) <=> \E a \in Reviews!Ages : x \in {a} \X (1..g[a])
    BY DEF Reviews!CallsOf
  <2>2. x \in Reviews!CallsOf(f) <=> \E a \in Reviews!Ages : x \in {a} \X (1..f[a])
    BY DEF Reviews!CallsOf
  <2>3. x \in {0} \X (1..g[0]) <=> x \in {0} \X (1..f[0]) \/ x = new
    BY <1>3, <1>4
  <2>4. \A a \in Reviews!Ages : a # 0 => (x \in {a} \X (1..g[a]) <=> x \in {a} \X (1..f[a]))
    BY <1>2
  <2>5. QED
    BY <2>1, <2>2, <2>3, <2>4, HourNumbers
<1>6. new \notin Reviews!CallsOf(f)
  BY <1>3, <1>4 DEF Reviews!CallsOf
<1>7. Reviews!CallsOf(g) = Reviews!CallsOf(f) \cup {new}
  BY <1>5
<1>8. Cardinality(Reviews!CallsOf(g)) = Cardinality(Reviews!CallsOf(f)) + 1
  BY <1>6, <1>7, CallsFinite, FS_AddElement
<1>9. QED
  BY <1>2, <1>8, MadeIs

\* The entries grow older, and those of an hour ago are gone.
LEMMA MadeOlder ==
    ASSUME NEW f \in [Reviews!Ages -> Nat]
    PROVE  /\ Reviews!Older(f) \in [Reviews!Ages -> Nat]
           /\ Reviews!Made(Reviews!Older(f)) <= Reviews!Made(f)
<1>1. PICK g : g = Reviews!Older(f)
  OBVIOUS
<1>2. ASSUME NEW a \in Reviews!Ages
      PROVE  /\ a = 0 => g[a] = 0
             /\ a # 0 => a - 1 \in Reviews!Ages /\ g[a] = f[a - 1] /\ g[a] \in Nat
  <2>1. a # 0 => a - 1 \in Reviews!Ages
    BY HourNumbers DEF Reviews!Ages
  <2>2. QED
    BY <1>1, <2>1 DEF Reviews!Older
<1>3. g \in [Reviews!Ages -> Nat]
  BY <1>1, <1>2 DEF Reviews!Older
<1>4. PICK S, T : S = Reviews!CallsOf(g) /\ T = Reviews!CallsOf(f)
  OBVIOUS
<1>5. ASSUME NEW x \in S
      PROVE  <<x[1] - 1, x[2]>> \in T /\ x = <<x[1], x[2]>> /\ x[1] \in Nat
  <2>1. PICK a \in Reviews!Ages : x \in {a} \X (1..g[a])
    BY <1>4 DEF Reviews!CallsOf
  <2>2. x[1] = a /\ x[2] \in 1..g[a] /\ x = <<x[1], x[2]>>
    BY <2>1
  <2>3. a # 0
    BY <1>2, <2>2
  <2>4. a - 1 \in Reviews!Ages /\ x[2] \in 1..f[a - 1]
    BY <1>2, <2>2, <2>3
  <2>5. PICK b \in Reviews!Ages : b = a - 1 /\ x[2] \in 1..f[b]
    BY <2>4
  <2>6. <<b, x[2]>> \in T
    BY <1>4, <2>5 DEF Reviews!CallsOf
  <2>7. QED
    BY <2>2, <2>5, <2>6, HourNumbers
<1>6. PICK h : h = [x \in S |-> <<x[1] - 1, x[2]>>]
  OBVIOUS
<1>7. h \in [S -> T]
  BY <1>5, <1>6
<1>8. ASSUME NEW x \in S, NEW y \in S, h[x] = h[y] PROVE x = y
  <2>1. x[1] - 1 = y[1] - 1 /\ x[2] = y[2]
    BY <1>6, <1>8
  <2>2. x[1] \in Nat /\ y[1] \in Nat /\ x = <<x[1], x[2]>> /\ y = <<y[1], y[2]>>
    BY <1>5
  <2>3. x[1] = y[1]
    BY <2>1, <2>2
  <2>4. QED
    BY <2>1, <2>2, <2>3
<1>9. h \in Injection(S, T)
  BY <1>7, <1>8 DEF Injection, IsInjective
<1>10. Cardinality(S) <= Cardinality(T)
  BY <1>4, <1>9, CallsFinite, FS_Injection
<1>11. QED
  BY <1>1, <1>3, <1>4, <1>10, MadeIs

LEMMA CallsStart == SuiteInit => CallsInv
<1> SUFFICES ASSUME SuiteInit PROVE CallsInv
  OBVIOUS
<1>1. calls = Reviews!None /\ made = Reviews!None /\ at = "off"
  BY DEF SuiteInit, Reviews!Init
<1>2. calls \in [Reviews!Ages -> Nat] /\ made = calls /\ \A a \in Reviews!Ages : calls[a] = 0
  BY <1>1 DEF Reviews!None
<1>3. Reviews!CallsOf(calls) = {}
  BY <1>2 DEF Reviews!CallsOf
<1>4. Reviews!Made(calls) = 0
  BY <1>2, <1>3, MadeIs, FS_EmptySet
<1>5. QED
  BY <1>1, <1>2, <1>4, HourNumbers DEF CallsInv

LEMMA CallsKeep == CallsInv /\ Reviews!Next => CallsInv'
<1> SUFFICES ASSUME CallsInv, Reviews!Next PROVE CallsInv'
  OBVIOUS
<1>1. Reviews!Ages' = Reviews!Ages
  BY DEF Reviews!Ages
<1>2. \A f : Reviews!Made(f)' = Reviews!Made(f')
  OBVIOUS
<1>3. 0 \in Reviews!Ages /\ made[0] \in Nat /\ calls[0] \in Nat
  BY HourNumbers DEF CallsInv
<1>4. CASE Reviews!Reserve
  <2>1. /\ Reviews!Made(calls) < HourlyCalls /\ calls' = [calls EXCEPT ![0] = calls[0] + 1]
        /\ UNCHANGED made
    BY <1>4 DEF Reviews!Reserve, Reviews!ReserveSlot
  <2>2. calls' \in [Reviews!Ages -> Nat] /\ Reviews!Made(calls') = Reviews!Made(calls) + 1
    BY <2>1, MadeOneMore DEF CallsInv
  <2>3. Reviews!Made(calls) \in Nat
    BY MadeIs DEF CallsInv
  <2>4. \A a \in Reviews!Ages : calls[a] \in Nat /\ made[a] \in Nat
    BY DEF CallsInv
  <2>5. calls'[0] = calls[0] + 1 /\ \A a \in Reviews!Ages : a # 0 => calls'[a] = calls[a]
    BY <1>3, <2>1 DEF CallsInv
  <2>6. \A a \in Reviews!Ages : made'[a] <= calls'[a]
    BY <2>1, <2>4, <2>5 DEF CallsInv
  <2>7. made'[0] < calls'[0]
    BY <1>3, <2>1, <2>5 DEF CallsInv
  <2>8. QED
    BY <1>1, <2>1, <2>2, <2>3, <2>6, <2>7, HourNumbers DEF CallsInv
<1>5. CASE at = "call" /\ at' # "call" /\ UNCHANGED calls /\ made' = [made EXCEPT ![0] = made[0] + 1]
  <2>1. made' \in [Reviews!Ages -> Nat] /\ made'[0] = made[0] + 1
        /\ \A a \in Reviews!Ages : a # 0 => made'[a] = made[a]
    BY <1>3, <1>5 DEF CallsInv
  <2>2. made'[0] <= calls[0]
    BY <1>3, <1>5, <2>1 DEF CallsInv
  <2>3. \A a \in Reviews!Ages : made'[a] <= calls'[a]
    BY <1>5, <2>1, <2>2 DEF CallsInv
  <2>4. QED
    BY <1>1, <1>5, <2>1, <2>3 DEF CallsInv
<1>6. CASE Reviews!Tick
  <2>1. at # "call" /\ UNCHANGED at /\ calls' = Reviews!Older(calls) /\ made' = Reviews!Older(made)
    BY <1>6 DEF Reviews!Tick, Reviews!process
  <2>2. /\ calls' \in [Reviews!Ages -> Nat] /\ made' \in [Reviews!Ages -> Nat]
        /\ Reviews!Made(calls') <= Reviews!Made(calls)
    BY <2>1, MadeOlder DEF CallsInv
  <2>3. \A a \in Reviews!Ages : made'[a] <= calls'[a]
    <3>1. ASSUME NEW a \in Reviews!Ages PROVE made'[a] <= calls'[a]
      <4>1. a # 0 => a - 1 \in Reviews!Ages
        BY HourNumbers DEF Reviews!Ages
      <4>2. CASE a = 0
        BY <2>1, <4>2 DEF Reviews!Older
      <4>3. CASE a # 0
        BY <2>1, <4>1, <4>3 DEF Reviews!Older, CallsInv
      <4>4. QED
        BY <4>2, <4>3
    <3>2. QED
      BY <3>1
  <2>4. Reviews!Made(calls) \in Nat /\ Reviews!Made(calls') \in Nat
    BY <2>2, MadeIs DEF CallsInv
  <2>5. Reviews!Made(calls') <= HourlyCalls
    BY <2>2, <2>4, HourNumbers DEF CallsInv
  <2>6. QED
    BY <1>1, <2>1, <2>2, <2>3, <2>5 DEF CallsInv
<1>7. CASE UNCHANGED <<calls, made>> /\ (at' = at \/ at' # "call")
  BY <1>1, <1>7 DEF CallsInv
<1>8. Reviews!Call \/ Reviews!Outage =>
         at = "call" /\ at' # "call" /\ UNCHANGED calls /\ made' = [made EXCEPT ![0] = made[0] + 1]
  BY DEF Reviews!Call, Reviews!Outage
<1>9. CASE Reviews!ApplyFails
  <2>1. CASE at = "call"
    BY <1>5, <1>9, <2>1 DEF Reviews!ApplyFails
  <2>2. CASE at # "call"
    BY <1>7, <1>9, <2>2 DEF Reviews!ApplyFails
  <2>3. QED
    BY <2>1, <2>2
<1>10. Reviews!Start \/ Reviews!Reuse \/ Reviews!Apply \/ Reviews!Pause \/ Reviews!Pass \/ Reviews!Crash
       \/ Reviews!ProviderBack \/ (\E r \in Rows : Reviews!Reset(r) \/ Reviews!Cooled(r))
       => UNCHANGED <<calls, made>> /\ (at' = at \/ at' # "call")
  BY DEF Reviews!Start, Reviews!Reuse, Reviews!Apply, Reviews!Pause, Reviews!Pass, Reviews!Crash,
     Reviews!ProviderBack, Reviews!Reset, Reviews!Cooled, Reviews!process
<1>11. QED
  BY <1>4, <1>5, <1>6, <1>7, <1>8, <1>9, <1>10 DEF Reviews!Next, Reviews!Work

LEMMA CallsHeld == SuiteSpec => []CallsInv
<1>1. CallsInv /\ [SuiteNext]_suiteVars => CallsInv'
  <2> SUFFICES ASSUME CallsInv, [SuiteNext]_suiteVars PROVE CallsInv'
    OBVIOUS
  <2>1. CASE Reviews!Next
    BY <2>1, CallsKeep
  <2>2. CASE UNCHANGED reviewVars
    <3>1. UNCHANGED <<calls, made, at>> /\ Reviews!Ages' = Reviews!Ages
      BY <2>2 DEF reviewVars, Reviews!Ages
    <3>2. QED
      BY <3>1 DEF CallsInv
  <2>3. QED
    BY <2>1, <2>2, ReviewSteps
<1>2. QED
  BY <1>1, CallsStart, PTL DEF SuiteSpec

LEMMA HourFollows == CallsInv => Reviews!HourlyLimit
<1> SUFFICES ASSUME CallsInv PROVE Reviews!HourlyLimit
  OBVIOUS
<1>1. Reviews!Made(made) <= Reviews!Made(calls)
  BY MadeFewer DEF CallsInv
<1>2. Reviews!Made(made) \in Nat /\ Reviews!Made(calls) \in Nat
  BY MadeIs DEF CallsInv
<1>3. QED
  BY <1>1, <1>2, HourNumbers DEF CallsInv, Reviews!HourlyLimit

-----------------------------------------------------------------------------
(* A report.  Both instances of ReportEdit take steps of this one.          *)

Either == INSTANCE ReportEdit WITH
    Pages <- EditPages \cup VisitPages, MaxNow <- EditNow + VisitNow,
    MaxEdits <- MaxEdits + VisitEdits

Records == [Rounds -> {Either!NoRecord} \cup [round : Rounds, text : Texts]]
Snapshots == [brand : Brands, policy : {0, Either!Legacy, Either!Current}, records : Records]
AuditRows == [before : Snapshots, after : Snapshots, epoch : Nat]
OwnRounds(records) == \A q \in Rounds : records[q] # Either!NoRecord => records[q].round = q

ReportTyped ==
    /\ brand \in Brands /\ policy \in {Either!Legacy, Either!Current}
    /\ result \in Records /\ audits \in Seq(AuditRows) /\ epoch \in Nat
    /\ DOMAIN page = IF part = "visit" THEN VisitPages ELSE EditPages
    /\ DOMAIN visit = IF part = "visit" THEN Visitors ELSE {}
    /\ \A p \in DOMAIN page : page[p].kind = "editor" => page[p].records \in Records

\* The audits follow each other as long as no evidence was deleted or collected.
HistoryChained ==
    /\ \A i \in 1..Len(audits) : audits[i].epoch <= epoch
    /\ \A i \in 1..Len(audits) - 1 : audits[i].epoch = audits[i + 1].epoch =>
          /\ audits[i].after.records = audits[i + 1].before.records
          /\ audits[i].after.brand = audits[i + 1].before.brand
    /\ audits # <<>> /\ audits[Len(audits)].epoch = epoch =>
          /\ audits[Len(audits)].after.records = result
          /\ audits[Len(audits)].after.brand = brand

\* The first audit holds what a revert restores; an audit without a policy is
\* older than any edit of this program, and the policy is the report's still.
FirstIsOrigin ==
    audits # <<>> =>
        /\ origin \in Snapshots
        /\ audits[1].before.brand = origin.brand /\ audits[1].before.records = origin.records
        /\ origin.policy = IF audits[1].before.policy = 0 THEN policy ELSE audits[1].before.policy
        /\ OwnRounds(origin.records)

\* A finished report has every round, and without edits each under its request.
FinishedWhole ==
    /\ status = "completed" => Either!Stored = Rounds
    /\ audits = <<>> => OwnRounds(result)
    /\ \A v \in DOMAIN visit : visit[v] # Either!Closed =>
          (visit[v].status = "completed" /\ ~visit[v].edited => visit[v].whole)

ReportInv == ReportTyped /\ HistoryChained /\ FirstIsOrigin /\ FinishedWhole

ReportSteps ==
    \/ Either!Revert \/ Either!DeleteResults \/ Either!Collect \/ Either!Finish \/ Either!Delete
    \/ \E p \in DOMAIN page : Either!OpenEditor(p) \/ Either!Edit(p)
    \/ \E v \in DOMAIN visit : Either!Visit(v) \/ Either!Answer(v)
    \/ /\ UNCHANGED <<brand, policy, result, audits, page, visit, origin, epoch>>
       /\ status' = status \/ status' = "running"

LEMMA ReportNumbers ==
    /\ Rounds = 1..Cardinality(Rounds) /\ Cardinality(Rounds) \in Nat
    /\ {EditNow, VisitNow, MaxEdits, VisitEdits, MaxEpoch} \subseteq Nat /\ Texts # {}
    /\ Either!EditRounds = Rounds
<1>1. IsFiniteSet(Rounds) /\ Rounds = 1..Cardinality(Rounds) /\ Texts # {}
      /\ {EditNow, VisitNow, MaxEdits, VisitEdits, MaxEpoch} \subseteq Nat
  BY EditAssumption DEF Edit!ReportAssumption, Visit!ReportAssumption, Edit!IsFiniteSet,
     IsFiniteSet, Edit!Cardinality, Cardinality
<1>2. Cardinality(Rounds) \in Nat
  BY <1>1, FS_CardinalityType
<1>3. Either!EditRounds = Rounds
  BY <1>1 DEF Either!EditRounds, Either!Cardinality, Cardinality
<1>4. QED
  BY <1>1, <1>2, <1>3

LEMMA ReportStart == SuiteInit => (part \in {"edit", "visit"} => ReportInv)
<1> SUFFICES ASSUME SuiteInit, part \in {"edit", "visit"} PROVE ReportInv
  OBVIOUS
<1>1. /\ status = "completed" /\ policy = Either!Legacy /\ epoch = 0
      /\ result = [q \in Rounds |-> [round |-> q, text |-> CHOOSE t \in Texts : TRUE]]
      /\ page = [p \in IF part = "visit" THEN VisitPages ELSE EditPages |-> Either!Closed]
      /\ visit = [v \in IF part = "visit" THEN Visitors ELSE {} |-> Either!Closed]
      /\ \E first, last \in Brands :
           LET old == [brand |-> first, policy |-> Either!Legacy, records |-> result]
           IN  /\ brand = last
               /\ audits = IF first = last THEN <<>>
                           ELSE <<[before |-> [old EXCEPT !.policy = 0],
                                   after |-> [old EXCEPT !.policy = 0, !.brand = last],
                                   epoch |-> 0]>>
               /\ origin = IF first = last THEN Either!Closed ELSE old
  <2>1. CASE part = "visit"
    BY <2>1 DEF SuiteInit, Visit!Init, Visit!Closed, Either!Closed, Visit!Legacy, Either!Legacy
  <2>2. CASE part = "edit"
    BY <2>2 DEF SuiteInit, Edit!Init, Edit!Closed, Either!Closed, Edit!Legacy, Either!Legacy
  <2>3. QED
    BY <2>1, <2>2
<1>2. PICK any \in Texts : result = [q \in Rounds |-> [round |-> q, text |-> any]]
  <2>1. (CHOOSE t \in Texts : TRUE) \in Texts
    BY ReportNumbers
  <2>2. QED
    BY <1>1, <2>1
<1>3. result \in Records /\ OwnRounds(result) /\ Either!Stored = Rounds
  <2>1. \A q \in Rounds : result[q] = [round |-> q, text |-> any]
    BY <1>2
  <2>2. result \in Records
    BY <1>1, <1>2 DEF Records
  <2>7. ASSUME NEW q \in Rounds PROVE result[q].round = q
    <3>1. result[q] = [round |-> q, text |-> any]
      BY <2>1
    <3>2. [round |-> q, text |-> any].round = q
      OBVIOUS
    <3>3. QED
      BY <3>1, <3>2
  <2>3. OwnRounds(result)
    BY <2>7 DEF OwnRounds
  <2>4. \A q \in Rounds : q # 0
    BY ReportNumbers
  <2>8. Either!NoRecord.round = 0
    BY DEF Either!NoRecord
  <2>5. Either!Stored = Rounds
    BY <2>7, <2>4, <2>8 DEF Either!Stored
  <2>6. QED
    BY <2>2, <2>3, <2>5
<1>4. PICK first \in Brands, last \in Brands :
         LET old == [brand |-> first, policy |-> Either!Legacy, records |-> result]
         IN  /\ brand = last
             /\ audits = IF first = last THEN <<>>
                         ELSE <<[before |-> [old EXCEPT !.policy = 0],
                                 after |-> [old EXCEPT !.policy = 0, !.brand = last],
                                 epoch |-> 0]>>
             /\ origin = IF first = last THEN Either!Closed ELSE old
  BY <1>1
<1>5. PICK old \in Snapshots, b \in Snapshots, a \in Snapshots :
         /\ old = [brand |-> first, policy |-> Either!Legacy, records |-> result]
         /\ b = [brand |-> first, policy |-> 0, records |-> result]
         /\ a = [brand |-> last, policy |-> 0, records |-> result]
  <2>1. /\ [brand |-> first, policy |-> Either!Legacy, records |-> result] \in Snapshots
        /\ [brand |-> first, policy |-> 0, records |-> result] \in Snapshots
        /\ [brand |-> last, policy |-> 0, records |-> result] \in Snapshots
    BY <1>3 DEF Snapshots
  <2>2. QED
    BY <2>1
<1>6. [old EXCEPT !.policy = 0] = b /\ [b EXCEPT !.brand = last] = a
  BY <1>5
<1>7. CASE first = last
  <2>1. audits = <<>>
    BY <1>4, <1>7
  <2>2. ReportTyped
    BY <1>1, <1>3, <1>4, <2>1 DEF ReportTyped, Either!Closed
  <2>3. HistoryChained /\ FirstIsOrigin
    BY <2>1 DEF HistoryChained, FirstIsOrigin
  <2>4. FinishedWhole
    BY <1>1, <1>3 DEF FinishedWhole
  <2>5. QED
    BY <2>2, <2>3, <2>4 DEF ReportInv
<1>8. CASE first # last
  <2>1. audits = <<[before |-> b, after |-> a, epoch |-> 0]>> /\ origin = old /\ brand = last
    <3>1. audits = <<[before |-> [old EXCEPT !.policy = 0],
                      after |-> [[old EXCEPT !.policy = 0] EXCEPT !.brand = last],
                      epoch |-> 0]>> /\ origin = old /\ brand = last
      BY <1>4, <1>5, <1>8
    <3>2. QED
      BY <1>6, <3>1
  <2>2. [before |-> b, after |-> a, epoch |-> 0] \in AuditRows
    BY DEF AuditRows
  <2>3. audits \in Seq(AuditRows) /\ Len(audits) = 1 /\ audits[1].before = b /\ audits[1].after = a
        /\ audits[1].epoch = 0
    BY <2>1, <2>2
  <2>10. a.records = result /\ a.brand = brand /\ b.brand = old.brand /\ b.records = old.records
        /\ b.policy = 0 /\ old.policy = policy /\ old.records = result
    BY <1>1, <1>5, <2>1
  <2>4. ReportTyped
    BY <1>1, <1>3, <1>4, <2>3 DEF ReportTyped, Either!Closed
  <2>11. \A i \in 1..Len(audits) : audits[i].epoch <= epoch
    BY <1>1, <2>3
  <2>12. audits[Len(audits)].after = a
    BY <2>3
  <2>13. Len(audits) - 1 = 0
    BY <2>3
  <2>14. ASSUME NEW i \in 1..Len(audits) - 1 PROVE FALSE
    BY <2>3, <2>13
  <2>15. audits[Len(audits)].after.records = result /\ audits[Len(audits)].after.brand = brand
    BY <2>10, <2>12
  <2>5. HistoryChained
    BY <2>11, <2>14, <2>15 DEF HistoryChained
  <2>6. FirstIsOrigin
    BY <1>3, <2>1, <2>3, <2>10 DEF FirstIsOrigin
  <2>7. audits # <<>>
    BY <2>1
  <2>8. FinishedWhole
    BY <1>1, <1>3, <2>7 DEF FinishedWhole
  <2>9. QED
    BY <2>4, <2>5, <2>6, <2>8 DEF ReportInv
<1>9. QED
  BY <1>7, <1>8

\* Taking the version of the report changes nothing else of an audit.
LEMMA StampedIs ==
    ASSUME ReportInv
    PROVE  /\ Either!Stamped(audits) \in Seq(AuditRows)
           /\ Len(Either!Stamped(audits)) = Len(audits)
           /\ \A i \in 1..Len(audits) :
                 /\ Either!Stamped(audits)[i].epoch = audits[i].epoch
                 /\ Either!Stamped(audits)[i].before.brand = audits[i].before.brand
                 /\ Either!Stamped(audits)[i].before.records = audits[i].before.records
                 /\ Either!Stamped(audits)[i].after.brand = audits[i].after.brand
                 /\ Either!Stamped(audits)[i].after.records = audits[i].after.records
                 /\ Either!Stamped(audits)[i].before.policy =
                      IF audits[i].before.policy = 0 THEN policy ELSE audits[i].before.policy
<1> DEFINE stamp(s) == [s EXCEPT !.policy = IF @ = 0 THEN policy ELSE @]
<1>1. policy \in {Either!Legacy, Either!Current} /\ audits \in Seq(AuditRows)
  BY DEF ReportInv, ReportTyped
<1>2. \A s \in Snapshots :
         /\ stamp(s) \in Snapshots /\ stamp(s).brand = s.brand /\ stamp(s).records = s.records
         /\ stamp(s).policy = IF s.policy = 0 THEN policy ELSE s.policy
  BY <1>1 DEF Snapshots
<1>3. Either!Stamped(audits) =
         [i \in 1..Len(audits) |-> [audits[i] EXCEPT !.before = stamp(@), !.after = stamp(@)]]
  BY <1>1 DEF Either!Stamped
<1>4. ASSUME NEW i \in 1..Len(audits)
      PROVE  /\ Either!Stamped(audits)[i] \in AuditRows
             /\ Either!Stamped(audits)[i].epoch = audits[i].epoch
             /\ Either!Stamped(audits)[i].before = stamp(audits[i].before)
             /\ Either!Stamped(audits)[i].after = stamp(audits[i].after)
             /\ audits[i].before \in Snapshots /\ audits[i].after \in Snapshots
  <2>1. audits[i] \in AuditRows
    BY <1>1
  <2>2. audits[i].before \in Snapshots /\ audits[i].after \in Snapshots
    BY <2>1 DEF AuditRows
  <2>3. Either!Stamped(audits)[i] = [audits[i] EXCEPT !.before = stamp(@), !.after = stamp(@)]
    BY <1>3
  <2> HIDE DEF stamp
  <2>4. QED
    BY <1>2, <2>1, <2>2, <2>3 DEF AuditRows
<1>5. Either!Stamped(audits) \in Seq(AuditRows) /\ Len(Either!Stamped(audits)) = Len(audits)
  <2>1. Len(audits) \in Nat
    BY <1>1
  <2>2. DOMAIN Either!Stamped(audits) = 1..Len(audits)
    BY <1>3
  <2>3. Either!Stamped(audits) = [i \in 1..Len(audits) |-> Either!Stamped(audits)[i]]
    BY <1>3
  <2>4. Either!Stamped(audits) \in [1..Len(audits) -> AuditRows]
    BY <1>4, <2>3
  <2>5. Either!Stamped(audits) \in Seq(AuditRows)
    BY <2>1, <2>4, SeqDef
  <2>6. QED
    BY <2>1, <2>2, <2>5
<1>6. QED
  BY <1>2, <1>4, <1>5

\* Steps of the two instances.
LEMMA EditIsReport == ReportInv /\ part = "edit" /\ Edit!Next => ReportSteps
<1> SUFFICES ASSUME ReportInv, part = "edit", Edit!Next PROVE ReportSteps
  OBVIOUS
<1>1. DOMAIN page = EditPages /\ DOMAIN visit = {}
  BY DEF ReportInv, ReportTyped
<1>2. Edit!Revert => Either!Revert
  BY DEF Edit!Revert, Either!Revert, Edit!SameRequests, Either!SameRequests, Edit!Stored,
     Either!Stored, Edit!NoRecord, Either!NoRecord, Edit!Closed, Either!Closed
<1>3. Edit!DeleteResults => Either!DeleteResults
  BY DEF Edit!DeleteResults, Either!DeleteResults, Edit!Reopen, Either!Reopen, Edit!Stored,
     Either!Stored, Edit!NoRecord, Either!NoRecord
<1>4. Edit!Collect => Either!Collect
  BY DEF Edit!Collect, Either!Collect, Edit!Stored, Either!Stored, Edit!NoRecord, Either!NoRecord,
     Edit!Covered, Either!Covered
<1>5. Edit!Finish => Either!Finish
  BY DEF Edit!Finish, Either!Finish, Edit!Stored, Either!Stored, Edit!NoRecord, Either!NoRecord
<1>6. Edit!Delete => Either!Delete
  BY DEF Edit!Delete, Either!Delete, Edit!NoRecord, Either!NoRecord
<1>7. ASSUME NEW p \in EditPages, Edit!OpenEditor(p) PROVE Either!OpenEditor(p)
  BY <1>7 DEF Edit!OpenEditor, Either!OpenEditor, Edit!task, Either!task
<1>8. ASSUME NEW p \in EditPages, Edit!Edit(p) PROVE Either!Edit(p)
  <2>1. Len(audits) < MaxEdits + VisitEdits
    <3>1. Len(audits) < MaxEdits
      BY <1>8 DEF Edit!Edit
    <3>2. Len(audits) \in Nat
      BY DEF ReportInv, ReportTyped
    <3>3. MaxEdits \in Nat /\ VisitEdits \in Nat
      BY ReportNumbers
    <3>4. QED
      BY <3>1, <3>2, <3>3
  <2>2. QED
    BY <1>8, <2>1 DEF Edit!Edit, Either!Edit, Edit!Stored, Either!Stored, Edit!NoRecord,
       Either!NoRecord, Edit!EditRounds, Either!EditRounds, Edit!Current, Either!Current,
       Edit!Stamped, Either!Stamped, Edit!Audit, Either!Audit, Edit!Snapshot, Either!Snapshot,
       Edit!Closed, Either!Closed, Edit!Cardinality, Either!Cardinality
<1>9. Edit!Resume \/ Edit!Share \/ Edit!Unshare \/ Edit!Tick =>
         /\ UNCHANGED <<brand, policy, result, audits, page, visit, origin, epoch>>
         /\ status' = status \/ status' = "running"
  BY DEF Edit!Resume, Edit!Share, Edit!Unshare, Edit!Tick, Edit!task
<1>10. CASE Edit!Resume \/ Edit!Share \/ Edit!Unshare \/ Edit!Tick
  BY <1>9, <1>10 DEF ReportSteps
<1>11. QED
  BY <1>1, <1>2, <1>3, <1>4, <1>5, <1>6, <1>7, <1>8, <1>10 DEF Edit!Next, ReportSteps

LEMMA VisitIsReport == ReportInv /\ part = "visit" /\ Visit!Next => ReportSteps
<1> SUFFICES ASSUME ReportInv, part = "visit", Visit!Next PROVE ReportSteps
  OBVIOUS
<1>1. DOMAIN page = VisitPages /\ DOMAIN visit = Visitors
  BY DEF ReportInv, ReportTyped
<1>2. Visit!Revert => Either!Revert
  BY DEF Visit!Revert, Either!Revert, Visit!SameRequests, Either!SameRequests, Visit!Stored,
     Either!Stored, Visit!NoRecord, Either!NoRecord, Visit!Closed, Either!Closed
<1>3. Visit!DeleteResults => Either!DeleteResults
  BY DEF Visit!DeleteResults, Either!DeleteResults, Visit!Reopen, Either!Reopen, Visit!Stored,
     Either!Stored, Visit!NoRecord, Either!NoRecord
<1>4. Visit!Collect => Either!Collect
  BY DEF Visit!Collect, Either!Collect, Visit!Stored, Either!Stored, Visit!NoRecord, Either!NoRecord,
     Visit!Covered, Either!Covered
<1>5. Visit!Finish => Either!Finish
  BY DEF Visit!Finish, Either!Finish, Visit!Stored, Either!Stored, Visit!NoRecord, Either!NoRecord
<1>6. Visit!Delete => Either!Delete
  BY DEF Visit!Delete, Either!Delete, Visit!NoRecord, Either!NoRecord
<1>7. ASSUME NEW p \in VisitPages, Visit!OpenEditor(p) PROVE Either!OpenEditor(p)
  BY <1>7 DEF Visit!OpenEditor, Either!OpenEditor, Visit!task, Either!task
<1>8. ASSUME NEW p \in VisitPages, Visit!Edit(p) PROVE Either!Edit(p)
  <2>1. Len(audits) < MaxEdits + VisitEdits
    <3>1. Len(audits) < VisitEdits
      BY <1>8 DEF Visit!Edit
    <3>2. Len(audits) \in Nat
      BY DEF ReportInv, ReportTyped
    <3>3. MaxEdits \in Nat /\ VisitEdits \in Nat
      BY ReportNumbers
    <3>4. QED
      BY <3>1, <3>2, <3>3
  <2>2. QED
    BY <1>8, <2>1 DEF Visit!Edit, Either!Edit, Visit!Stored, Either!Stored, Visit!NoRecord,
       Either!NoRecord, Visit!EditRounds, Either!EditRounds, Visit!Current, Either!Current,
       Visit!Stamped, Either!Stamped, Visit!Audit, Either!Audit, Visit!Snapshot, Either!Snapshot,
       Visit!Closed, Either!Closed, Visit!Cardinality, Either!Cardinality
<1>9. Visit!Resume \/ Visit!Share \/ Visit!Unshare \/ Visit!Tick =>
         /\ UNCHANGED <<brand, policy, result, audits, page, visit, origin, epoch>>
         /\ status' = status \/ status' = "running"
  BY DEF Visit!Resume, Visit!Share, Visit!Unshare, Visit!Tick, Visit!task
<1>10. CASE Visit!Resume \/ Visit!Share \/ Visit!Unshare \/ Visit!Tick
  BY <1>9, <1>10 DEF ReportSteps
<1>12. ASSUME NEW v \in Visitors, Visit!Visit(v) \/ Visit!Answer(v)
       PROVE  Either!Visit(v) \/ Either!Answer(v)
  <2>1. CASE Visit!Visit(v)
    BY <2>1 DEF Visit!Visit, Either!Visit, Visit!Closed, Either!Closed, Visit!Whole, Either!Whole,
       Visit!Covered, Either!Covered, Visit!NoRecord, Either!NoRecord, Visit!task, Either!task
  <2>2. CASE Visit!Answer(v)
    BY <2>2 DEF Visit!Answer, Either!Answer, Visit!Closed, Either!Closed, Visit!task, Either!task
  <2>3. QED
    BY <1>12, <2>1, <2>2
<1>11. QED
  BY <1>1, <1>2, <1>3, <1>4, <1>5, <1>6, <1>7, <1>8, <1>10, <1>12 DEF Visit!Next, ReportSteps

LEMMA ReportStepsOnly ==
    [SuiteNext]_suiteVars =>
        \/ part = "edit" /\ part' = "edit" /\ Edit!Next
        \/ part = "visit" /\ part' = "visit" /\ Visit!Next
        \/ UNCHANGED <<part, reportVars>>
BY DEF SuiteNext, suiteVars, DatabaseStep, LockStep, ArchiveStep, LegacyStep,
       ContentStep, EditStep, VisitStep, SessionsStep, QuotaStep, ReviewsStep,
       OnlyBase, OnlyLock, OnlyArchive, OnlyContent, OnlyReport, OnlyPeople, OnlyReview

\* An edit from a page that may be out of date.
LEMMA EditKeeps ==
    ASSUME ReportInv, UNCHANGED part, NEW p \in DOMAIN page, Either!Edit(p) PROVE ReportInv'
<1> DEFINE n == Len(audits)
<1>1. PICK q \in Either!Stored, round \in Rounds, any \in Texts, name \in Brands :
         /\ result' = [page[p].records EXCEPT ![q] = [round |-> round, text |-> any]]
         /\ brand' = name /\ policy' = Either!Current
         /\ audits' = Append(Either!Stamped(audits),
                Either!Audit(page[p].records,
                    [brand |-> name, policy |-> Either!Current, records |-> result']))
  BY ReportNumbers DEF Either!Edit
<1>2. /\ page[p].kind = "editor" /\ status = "completed"
      /\ {x \in Rounds : page[p].records[x] # Either!NoRecord} = Either!Stored
      /\ origin' = IF audits = <<>> THEN Either!Snapshot ELSE origin
      /\ page' = [page EXCEPT ![p] = Either!Closed] /\ UNCHANGED <<status, visit, epoch>>
  BY DEF Either!Edit
<1>3. page[p].records \in Records /\ q \in Rounds
  BY <1>2 DEF ReportInv, ReportTyped, Either!Stored
<1>4. [round |-> round, text |-> any] \in [round : Rounds, text : Texts]
  OBVIOUS
<1>5. result' \in Records
  BY <1>1, <1>3, <1>4 DEF Records
<1>6. Either!Stored' = Either!Stored
  <2>1. 0 \notin Rounds /\ Either!NoRecord.round = 0
    BY ReportNumbers DEF Either!NoRecord
  <2>2. result'[q].round = round
    BY <1>1, <1>3 DEF Records
  <2>3. result'[q] # Either!NoRecord
    BY <2>1, <2>2
  <2>4. \A x \in Rounds : x # q => result'[x] = page[p].records[x]
    BY <1>1, <1>3 DEF Records
  <2>5. \A x \in Rounds : result'[x] # Either!NoRecord <=> page[p].records[x] # Either!NoRecord
    BY <1>2, <2>3, <2>4
  <2>6. Either!Stored' = {x \in Rounds : result'[x] # Either!NoRecord}
    BY DEF Either!Stored, Either!NoRecord
  <2>7. QED
    BY <1>2, <2>5, <2>6
<1>7. PICK b \in Snapshots, a \in Snapshots, new \in AuditRows :
         /\ b = Either!Snapshot /\ b.brand = brand /\ b.policy = policy /\ b.records = result
         /\ a.brand = brand' /\ a.records = result'
         /\ new.before = b /\ new.after = a /\ new.epoch = epoch
         /\ audits' = Append(Either!Stamped(audits), new)
  <2>1. Either!Snapshot = [brand |-> brand, policy |-> policy, records |-> result]
    BY DEF Either!Snapshot
  <2>2. Either!Snapshot \in Snapshots
    BY <2>1 DEF Snapshots, ReportInv, ReportTyped
  <2>3. PICK a \in Snapshots : a = [brand |-> name, policy |-> Either!Current, records |-> result']
    BY <1>5 DEF Snapshots
  <2>4. PICK b \in Snapshots : b = [brand |-> brand, policy |-> policy, records |-> result]
                               /\ b = Either!Snapshot
    BY <2>1, <2>2
  <2>5. [before |-> b, after |-> a, epoch |-> epoch] \in AuditRows
    BY DEF AuditRows, ReportInv, ReportTyped
  <2>6. audits' = Append(Either!Stamped(audits), [before |-> b, after |-> a, epoch |-> epoch])
    BY <1>1, <2>3, <2>4 DEF Either!Audit
  <2>7. a.brand = brand' /\ a.records = result'
    BY <1>1, <2>3
  <2>8. b.brand = brand /\ b.policy = policy /\ b.records = result
    BY <2>4
  <2>9. PICK new \in AuditRows : new = [before |-> b, after |-> a, epoch |-> epoch]
    BY <2>5
  <2>10. new.before = b /\ new.after = a /\ new.epoch = epoch
    BY <2>9
  <2>11. QED
    BY <2>4, <2>6, <2>7, <2>8, <2>9, <2>10
<1>8. /\ audits \in Seq(AuditRows) /\ n \in Nat
      /\ audits' \in Seq(AuditRows) /\ Len(audits') = n + 1 /\ audits'[n + 1] = new
      /\ \A i \in 1..n : audits'[i] = Either!Stamped(audits)[i]
  BY <1>7, StampedIs DEF ReportInv, ReportTyped
<1>9. \A i \in 1..n :
         /\ audits'[i].epoch = audits[i].epoch
         /\ audits'[i].before.brand = audits[i].before.brand
         /\ audits'[i].before.records = audits[i].before.records
         /\ audits'[i].after.brand = audits[i].after.brand
         /\ audits'[i].after.records = audits[i].after.records
         /\ audits'[i].before.policy =
               IF audits[i].before.policy = 0 THEN policy ELSE audits[i].before.policy
  BY <1>8, StampedIs
<1> HIDE DEF n
<1>10. n = Len(audits)
  BY DEF n
<1>11. audits' # <<>>
  BY <1>8
<1>12. ReportTyped'
  <2>1. Either!Closed.kind = "none"
    BY DEF Either!Closed
  <2>2. DOMAIN page' = DOMAIN page
    BY <1>2
  <2>3. \A x \in DOMAIN page' : page'[x].kind = "editor" => page'[x].records \in Records
    BY <1>2, <2>1, <2>2 DEF ReportInv, ReportTyped
  <2>4. QED
    BY <1>1, <1>2, <1>5, <1>8, <2>2, <2>3 DEF ReportInv, ReportTyped
<1>13. HistoryChained'
  <2>1. \A i \in 1..(n + 1) : audits'[i].epoch <= epoch'
    <3>1. \A i \in 1..n : audits'[i].epoch <= epoch'
      BY <1>2, <1>9, <1>10 DEF ReportInv, HistoryChained
    <3>2. audits'[n + 1].epoch <= epoch'
      BY <1>2, <1>7, <1>8 DEF ReportInv, ReportTyped
    <3>3. QED
      BY <1>8, <3>1, <3>2
  <2>2. ASSUME NEW i \in 1..n, audits'[i].epoch = audits'[i + 1].epoch
        PROVE  /\ audits'[i].after.records = audits'[i + 1].before.records
               /\ audits'[i].after.brand = audits'[i + 1].before.brand
    <3>1. CASE i = n
      <4>1. audits[n].epoch = epoch /\ audits # <<>>
        BY <1>2, <1>7, <1>8, <1>9, <1>10, <2>2, <3>1
      <4>2. audits[n].after.records = result /\ audits[n].after.brand = brand
        BY <1>10, <4>1 DEF ReportInv, HistoryChained
      <4>3. QED
        BY <1>7, <1>8, <1>9, <3>1, <4>2
    <3>2. CASE i # n
      <4>1. i \in 1..n - 1 /\ i \in 1..n /\ i + 1 \in 1..n
        BY <1>8, <3>2
      <4>2. audits[i].epoch = audits[i + 1].epoch
        BY <1>9, <2>2, <4>1
      <4>3. /\ audits[i].after.records = audits[i + 1].before.records
            /\ audits[i].after.brand = audits[i + 1].before.brand
        BY <1>10, <4>1, <4>2 DEF ReportInv, HistoryChained
      <4>4. QED
        BY <1>9, <4>1, <4>3
    <3>3. QED
      BY <3>1, <3>2
  <2>3. /\ audits'[n + 1].after.records = result'
        /\ audits'[n + 1].after.brand = brand'
    BY <1>7, <1>8
  <2>4. (n + 1) - 1 = n
    BY <1>8
  <2>5. QED
    BY <1>8, <2>1, <2>2, <2>3, <2>4 DEF HistoryChained
<1>14. policy \in {Either!Legacy, Either!Current} /\ policy # 0
  BY DEF ReportInv, ReportTyped, Either!Legacy, Either!Current
<1>15. FirstIsOrigin'
  <2>1. CASE audits = <<>>
    <3>1. n = 0 /\ audits'[1] = new /\ origin' = b
      BY <1>2, <1>7, <1>8, <1>10, <2>1
    <3>2. OwnRounds(result)
      BY <2>1 DEF ReportInv, FinishedWhole
    <3>3. QED
      BY <1>7, <1>14, <3>1, <3>2 DEF FirstIsOrigin
  <2>2. CASE audits # <<>>
    <3>1. 1 \in 1..n /\ origin' = origin
      BY <1>2, <1>8, <1>10, <2>2
    <3>2. /\ origin \in Snapshots
          /\ audits[1].before.brand = origin.brand /\ audits[1].before.records = origin.records
          /\ origin.policy = IF audits[1].before.policy = 0 THEN policy ELSE audits[1].before.policy
          /\ OwnRounds(origin.records)
      BY <2>2 DEF ReportInv, FirstIsOrigin
    <3>3. audits'[1].before.policy = origin.policy /\ origin.policy # 0
      BY <1>9, <1>14, <3>1, <3>2
    <3>4. audits'[1].before.brand = origin.brand /\ audits'[1].before.records = origin.records
      BY <1>9, <3>1, <3>2
    <3>5. QED
      BY <3>1, <3>2, <3>3, <3>4 DEF FirstIsOrigin
  <2>3. QED
    BY <2>1, <2>2
<1>16. FinishedWhole'
  <2>1. Either!Closed' = Either!Closed
    BY DEF Either!Closed
  <2>2. QED
    BY <1>2, <1>6, <1>11, <2>1 DEF ReportInv, FinishedWhole
<1>17. QED
  BY <1>12, <1>13, <1>15, <1>16 DEF ReportInv

\* What a revert leaves is the report before its first edit.
LEMMA RevertIs ==
    ASSUME ReportInv, Either!Revert
    PROVE  /\ brand' = origin.brand /\ policy' = origin.policy /\ result' = origin.records
           /\ origin \in Snapshots /\ OwnRounds(result') /\ Either!Stored' = Either!Stored
<1>1. /\ status = "completed" /\ audits # <<>>
      /\ Either!SameRequests(audits[1].before.records)
      /\ brand' = audits[1].before.brand
      /\ policy' = IF audits[1].before.policy = 0 THEN policy ELSE audits[1].before.policy
      /\ result' = [q \in Rounds |->
            IF q \in Either!Stored THEN audits[1].before.records[q] ELSE Either!NoRecord]
  BY DEF Either!Revert
<1>2. /\ origin \in Snapshots
      /\ audits[1].before.brand = origin.brand /\ audits[1].before.records = origin.records
      /\ origin.policy = IF audits[1].before.policy = 0 THEN policy ELSE audits[1].before.policy
      /\ OwnRounds(origin.records)
  BY <1>1 DEF ReportInv, FirstIsOrigin
<1>3. origin.records \in Records
  BY <1>2 DEF Snapshots
<1>4. {q \in Rounds : origin.records[q] # Either!NoRecord} = Either!Stored
  BY <1>1, <1>2 DEF Either!SameRequests
<1>5. \A q \in Rounds : result'[q] = origin.records[q]
  BY <1>1, <1>2, <1>4
<1>6. DOMAIN result' = Rounds /\ DOMAIN origin.records = Rounds
  BY <1>1, <1>3 DEF Records
<1>7. result' = origin.records
  <2>1. result' = [q \in Rounds |-> result'[q]]
    BY <1>1
  <2>2. origin.records = [q \in Rounds |-> origin.records[q]]
    BY <1>3 DEF Records
  <2>3. QED
    BY <1>5, <2>1, <2>2
<1>8. Either!Stored' = {q \in Rounds : result'[q] # Either!NoRecord}
  BY DEF Either!Stored, Either!NoRecord
<1>9. QED
  BY <1>1, <1>2, <1>4, <1>7, <1>8

LEMMA RevertKeeps == ReportInv /\ UNCHANGED part /\ Either!Revert => ReportInv'
<1> SUFFICES ASSUME ReportInv, UNCHANGED part, Either!Revert PROVE ReportInv'
  OBVIOUS
<1>1. /\ brand' = origin.brand /\ policy' = origin.policy /\ result' = origin.records
      /\ origin \in Snapshots /\ OwnRounds(result') /\ Either!Stored' = Either!Stored
  BY RevertIs
<1>2. audits' = <<>> /\ UNCHANGED <<status, page, visit, epoch>> /\ status = "completed"
  BY DEF Either!Revert
<1>3. policy' \in {Either!Legacy, Either!Current}
  <2>1. audits # <<>> /\ policy' = IF audits[1].before.policy = 0 THEN policy ELSE audits[1].before.policy
    BY DEF Either!Revert
  <2>2. audits \in Seq(AuditRows) /\ policy \in {Either!Legacy, Either!Current}
    BY DEF ReportInv, ReportTyped
  <2>3. audits[1] \in AuditRows
    BY <2>1, <2>2
  <2>4. audits[1].before \in Snapshots
    BY <2>3 DEF AuditRows
  <2>5. audits[1].before.policy \in {0, Either!Legacy, Either!Current}
    BY <2>4 DEF Snapshots
  <2>6. QED
    BY <2>1, <2>2, <2>5
<1>4. brand' \in Brands /\ result' \in Records
  BY <1>1 DEF Snapshots
<1>5. audits' \in Seq(AuditRows)
  BY <1>2
<1>6. ReportTyped'
  BY <1>2, <1>3, <1>4, <1>5 DEF ReportInv, ReportTyped
<1>7. HistoryChained' /\ FirstIsOrigin'
  BY <1>2 DEF HistoryChained, FirstIsOrigin
<1>8. FinishedWhole'
  <2>1. Either!Closed' = Either!Closed
    BY DEF Either!Closed
  <2>2. QED
    BY <1>1, <1>2, <2>1 DEF ReportInv, FinishedWhole
<1>9. QED
  BY <1>6, <1>7, <1>8 DEF ReportInv

\* Evidence that is deleted or collected begins another epoch.
LEMMA EvidenceKeeps ==
    ASSUME ReportInv, UNCHANGED part, status' # "completed", result' \in Records, epoch' = epoch + 1,
           OwnRounds(result) => OwnRounds(result'),
           UNCHANGED <<brand, policy, audits, page, visit, origin>>
    PROVE  ReportInv'
<1>1. ReportTyped'
  BY DEF ReportInv, ReportTyped
<1>2. audits \in Seq(AuditRows) /\ epoch \in Nat
  BY DEF ReportInv, ReportTyped
<1>3. \A i \in 1..Len(audits) : audits[i].epoch <= epoch /\ audits[i].epoch \in Nat
  <2>1. \A i \in 1..Len(audits) : audits[i] \in AuditRows
    BY <1>2
  <2>2. \A i \in 1..Len(audits) : audits[i].epoch \in Nat
    BY <2>1 DEF AuditRows
  <2>3. QED
    BY <2>2 DEF ReportInv, HistoryChained
<1>4. \A i \in 1..Len(audits) : audits[i].epoch <= epoch + 1 /\ audits[i].epoch # epoch + 1
  BY <1>2, <1>3
<1>5. audits # <<>> => Len(audits) \in 1..Len(audits)
  BY <1>2
<1>6. HistoryChained'
  <2>1. \A i \in 1..Len(audits') : audits'[i].epoch <= epoch'
    BY <1>4
  <2>2. \A i \in 1..Len(audits') - 1 : audits'[i].epoch = audits'[i + 1].epoch =>
          /\ audits'[i].after.records = audits'[i + 1].before.records
          /\ audits'[i].after.brand = audits'[i + 1].before.brand
    BY DEF ReportInv, HistoryChained
  <2>3. ~(audits' # <<>> /\ audits'[Len(audits')].epoch = epoch')
    BY <1>4, <1>5
  <2>4. QED
    BY <2>1, <2>2, <2>3 DEF HistoryChained
<1>7. FirstIsOrigin'
  BY DEF ReportInv, FirstIsOrigin
<1>8. FinishedWhole'
  <2>1. Either!Closed' = Either!Closed
    BY DEF Either!Closed
  <2>2. QED
    BY <2>1 DEF ReportInv, FinishedWhole
<1>9. QED
  BY <1>1, <1>6, <1>7, <1>8 DEF ReportInv

LEMMA DeleteResultsKeeps == ReportInv /\ UNCHANGED part /\ Either!DeleteResults => ReportInv'
<1> SUFFICES ASSUME ReportInv, UNCHANGED part, Either!DeleteResults PROVE ReportInv'
  OBVIOUS
<1>1. PICK gone \in {Either!Stored} \cup {{q} : q \in Either!Stored} :
         /\ result' = [q \in Rounds |-> IF q \in gone THEN Either!NoRecord ELSE result[q]]
         /\ status' = "paused"
  BY DEF Either!DeleteResults, Either!Reopen
<1>2. epoch' = epoch + 1 /\ UNCHANGED <<brand, policy, audits, page, visit, origin>>
  BY DEF Either!DeleteResults
<1>3. result \in Records
  BY DEF ReportInv, ReportTyped
<1>4. result' \in Records
  BY <1>1, <1>3 DEF Records
<1>5. \A q \in Rounds : result'[q] # Either!NoRecord => result'[q] = result[q]
  BY <1>1
<1>6. OwnRounds(result) => OwnRounds(result')
  BY <1>5 DEF OwnRounds
<1>7. QED
  BY <1>1, <1>2, <1>4, <1>6, EvidenceKeeps

LEMMA CollectKeeps == ReportInv /\ UNCHANGED part /\ Either!Collect => ReportInv'
<1> SUFFICES ASSUME ReportInv, UNCHANGED part, Either!Collect PROVE ReportInv'
  OBVIOUS
<1>1. PICK q \in Rounds, any \in Texts : result' = [result EXCEPT ![q] = [round |-> q, text |-> any]]
  BY DEF Either!Collect
<1>2. epoch' = epoch + 1 /\ UNCHANGED <<brand, policy, audits, page, visit, origin>>
      /\ status' = status /\ status = "running"
  BY DEF Either!Collect
<1>3. result \in Records
  BY DEF ReportInv, ReportTyped
<1>4. [round |-> q, text |-> any] \in [round : Rounds, text : Texts]
  OBVIOUS
<1>5. result' \in Records
  BY <1>1, <1>3, <1>4 DEF Records
<1>6. ASSUME NEW x \in Rounds, OwnRounds(result), result'[x] # Either!NoRecord
      PROVE  result'[x].round = x
  <2>1. CASE x = q
    <3>1. result'[x] = [round |-> q, text |-> any]
      BY <1>1, <1>3, <2>1 DEF Records
    <3>2. [round |-> q, text |-> any].round = q
      OBVIOUS
    <3>3. QED
      BY <2>1, <3>1, <3>2
  <2>2. CASE x # q
    <3>1. result'[x] = result[x]
      BY <1>1, <1>3, <2>2 DEF Records
    <3>2. QED
      BY <1>6, <3>1 DEF OwnRounds
  <2>3. QED
    BY <2>1, <2>2
<1>7. OwnRounds(result) => OwnRounds(result')
  BY <1>6 DEF OwnRounds, Either!NoRecord
<1>8. QED
  BY <1>2, <1>5, <1>7, EvidenceKeeps

LEMMA DeleteKeeps == ReportInv /\ UNCHANGED part /\ Either!Delete => ReportInv'
<1> SUFFICES ASSUME ReportInv, UNCHANGED part, Either!Delete PROVE ReportInv'
  OBVIOUS
<1>1. /\ status' = "deleted" /\ audits' = <<>> /\ result' = [q \in Rounds |-> Either!NoRecord]
      /\ UNCHANGED <<brand, policy, page, visit, origin, epoch>>
  BY DEF Either!Delete
<1>2. result' \in Records /\ audits' \in Seq(AuditRows)
  BY <1>1 DEF Records
<1>3. ReportTyped'
  BY <1>1, <1>2 DEF ReportInv, ReportTyped
<1>4. HistoryChained' /\ FirstIsOrigin'
  BY <1>1 DEF HistoryChained, FirstIsOrigin
<1>5. OwnRounds(result')
  BY <1>1 DEF OwnRounds
<1>6. FinishedWhole'
  <2>1. Either!Closed' = Either!Closed
    BY DEF Either!Closed
  <2>2. QED
    BY <1>1, <1>5, <2>1 DEF ReportInv, FinishedWhole
<1>7. QED
  BY <1>3, <1>4, <1>6 DEF ReportInv

LEMMA VisitKeeps ==
    ASSUME ReportInv, UNCHANGED part, NEW v \in DOMAIN visit, Either!Visit(v) \/ Either!Answer(v)
    PROVE  ReportInv'
<1>1. UNCHANGED <<status, brand, policy, result, audits, page, origin, epoch>>
  BY DEF Either!Visit, Either!Answer, Either!task
<1>2. PICK shown : visit' = [visit EXCEPT ![v] = shown]
         /\ (shown # Either!Closed => /\ shown.status = status /\ shown.whole = Either!Whole(result)
                                      /\ shown.edited = (audits # <<>>))
  <2>1. CASE Either!Visit(v)
    <3>1. PICK shown : shown = [kind |-> "visit", status |-> status, whole |-> Either!Whole(result),
                                edited |-> audits # <<>>]
      OBVIOUS
    <3>2. visit' = [visit EXCEPT ![v] = shown]
      BY <2>1, <3>1 DEF Either!Visit
    <3>3. shown.status = status /\ shown.whole = Either!Whole(result) /\ shown.edited = (audits # <<>>)
      BY <3>1
    <3>4. QED
      BY <3>2, <3>3
  <2>2. CASE Either!Answer(v)
    BY <2>2 DEF Either!Answer
  <2>3. QED
    BY <2>1, <2>2
<1>3. status = "completed" /\ audits = <<>> => Either!Whole(result)
  <2> SUFFICES ASSUME status = "completed", audits = <<>> PROVE Either!Whole(result)
    OBVIOUS
  <2>1. Either!Stored = Rounds /\ OwnRounds(result)
    BY DEF ReportInv, FinishedWhole
  <2>2. \A q \in Rounds : result[q] # Either!NoRecord /\ result[q].round = q
    BY <2>1 DEF OwnRounds, Either!Stored
  <2>3. QED
    BY <2>2 DEF Either!Whole, Either!Covered
<1>4. ReportTyped'
  BY <1>1, <1>2 DEF ReportInv, ReportTyped
<1>5. HistoryChained' /\ FirstIsOrigin'
  BY <1>1 DEF ReportInv, HistoryChained, FirstIsOrigin
<1>6. FinishedWhole'
  <2>1. Either!Closed' = Either!Closed /\ Either!Stored' = Either!Stored
    BY <1>1 DEF Either!Closed, Either!Stored, Either!NoRecord
  <2>2. \A w \in DOMAIN visit' : visit'[w] # Either!Closed =>
          (visit'[w].status = "completed" /\ ~visit'[w].edited => visit'[w].whole)
    BY <1>2, <1>3 DEF ReportInv, FinishedWhole
  <2>3. QED
    BY <1>1, <2>1, <2>2 DEF ReportInv, FinishedWhole
<1>7. QED
  BY <1>4, <1>5, <1>6 DEF ReportInv

LEMMA ReportKeeps == ReportInv /\ UNCHANGED part /\ ReportSteps => ReportInv'
<1> SUFFICES ASSUME ReportInv, UNCHANGED part, ReportSteps PROVE ReportInv'
  OBVIOUS
<1>1. CASE /\ UNCHANGED <<brand, policy, result, audits, page, visit, origin, epoch>>
           /\ \/ status' = status \/ status' = "running"
              \/ status' = "completed" /\ Either!Stored = Rounds
  <2>1. Either!Closed' = Either!Closed /\ Either!Stored' = Either!Stored
    BY <1>1 DEF Either!Closed, Either!Stored, Either!NoRecord
  <2>2. ReportTyped' /\ HistoryChained' /\ FirstIsOrigin'
    BY <1>1 DEF ReportInv, ReportTyped, HistoryChained, FirstIsOrigin
  <2>3. FinishedWhole'
    BY <1>1, <2>1 DEF ReportInv, FinishedWhole
  <2>4. QED
    BY <2>2, <2>3 DEF ReportInv
<1>2. CASE Either!Finish
  BY <1>1, <1>2 DEF Either!Finish
<1>3. ASSUME NEW p \in DOMAIN page, Either!OpenEditor(p) PROVE ReportInv'
  <2>1. /\ UNCHANGED <<status, brand, policy, result, audits, visit, origin, epoch>>
        /\ page' = [page EXCEPT ![p] = [kind |-> "editor", records |-> result]]
    BY <1>3 DEF Either!OpenEditor, Either!task
  <2>2. \A x \in DOMAIN page' : page'[x].kind = "editor" => page'[x].records \in Records
    BY <2>1 DEF ReportInv, ReportTyped
  <2>3. ReportTyped' /\ HistoryChained' /\ FirstIsOrigin'
    BY <2>1, <2>2 DEF ReportInv, ReportTyped, HistoryChained, FirstIsOrigin
  <2>4. FinishedWhole'
    <3>1. Either!Closed' = Either!Closed /\ Either!Stored' = Either!Stored
      BY <2>1 DEF Either!Closed, Either!Stored, Either!NoRecord
    <3>2. QED
      BY <2>1, <3>1 DEF ReportInv, FinishedWhole
  <2>5. QED
    BY <2>3, <2>4 DEF ReportInv
<1>4. QED
  BY <1>1, <1>2, <1>3, EditKeeps, RevertKeeps, DeleteResultsKeeps, CollectKeeps, DeleteKeeps,
     VisitKeeps DEF ReportSteps

LEMMA ReportHeld == SuiteSpec => [](part \in {"edit", "visit"} => ReportInv)
<1>1. (part \in {"edit", "visit"} => ReportInv) /\ [SuiteNext]_suiteVars
         => (part \in {"edit", "visit"} => ReportInv)'
  <2> SUFFICES ASSUME part \in {"edit", "visit"} => ReportInv, [SuiteNext]_suiteVars,
                      part' \in {"edit", "visit"}
               PROVE  ReportInv'
    OBVIOUS
  <2>1. CASE part = "edit" /\ part' = "edit" /\ Edit!Next
    BY <2>1, EditIsReport, ReportKeeps
  <2>2. CASE part = "visit" /\ part' = "visit" /\ Visit!Next
    BY <2>2, VisitIsReport, ReportKeeps
  <2>3. CASE UNCHANGED <<part, reportVars>>
    <3>1. ReportInv /\ UNCHANGED part
          /\ UNCHANGED <<status, brand, policy, result, audits, page, visit, origin, epoch>>
      BY <2>3 DEF reportVars
    <3>2. QED
      BY <3>1, ReportKeeps DEF ReportSteps
  <2>4. QED
    BY <2>1, <2>2, <2>3, ReportStepsOnly
<1>2. QED
  BY <1>1, ReportStart, PTL DEF SuiteSpec

\* The properties.
LEMMA AuditsFollow == ReportInv => Edit!AuditsChain
<1> SUFFICES ASSUME ReportInv PROVE Edit!AuditsChain
  OBVIOUS
<1>1. QED
  BY DEF Edit!AuditsChain, ReportInv, HistoryChained

\* A revert by either instance restores the origin.
LEMMA RevertsRestore ==
    ReportInv /\ Edit!Revert => Edit!Snapshot' = origin
<1> SUFFICES ASSUME ReportInv, Edit!Revert PROVE Edit!Snapshot' = origin
  OBVIOUS
<1>1. Either!Revert
  BY DEF Edit!Revert, Either!Revert, Edit!SameRequests, Either!SameRequests, Edit!Stored,
     Either!Stored, Edit!NoRecord, Either!NoRecord, Edit!Closed, Either!Closed
<1>2. /\ brand' = origin.brand /\ policy' = origin.policy /\ result' = origin.records
      /\ origin \in Snapshots
  BY <1>1, RevertIs
<1>3. Edit!Snapshot' = [brand |-> brand', policy |-> policy', records |-> result']
  BY DEF Edit!Snapshot
<1>4. QED
  BY <1>2, <1>3 DEF Snapshots

LEMMA VisitsWhole ==
    ASSUME ReportInv, part = "visit", NEW v \in Visitors PROVE Visit!SeesWhole(v)
<1>1. v \in DOMAIN visit
  BY DEF ReportInv, ReportTyped
<1>2. Visit!Answer(v) /\ Visit!Shows(v) => visit[v] # Either!Closed /\ visit[v].status = "completed"
  BY DEF Visit!Answer, Visit!Shows, Visit!Closed, Either!Closed
<1>3. QED
  BY <1>1, <1>2 DEF ReportInv, FinishedWhole, Visit!SeesWhole

-----------------------------------------------------------------------------
(* Accounts. Both instances of Accounts take steps of this one.             *)

Anyone == INSTANCE Accounts WITH
    Forms <- Forms \cup OneForm, Servers <- {"s1"}, MaxTasks <- SessionTasks + QuotaTasks,
    Limits <- SessionLimits \cup QuotaLimits, writes <- updates

AccountRows == [active : BOOLEAN, expires : Nat, limit : Nat \ {0}, version : Nat,
                resetDay : Nat, baseline : Nat]

PeopleTyped ==
    /\ account \in [People -> AccountRows]
    /\ diagnosis \in [People -> [Anyone!Days -> Nat]] /\ day \in Anyone!Days
    /\ spent \in [People -> Nat] /\ refund \in [People -> Nat] /\ ceiling \in [People -> Nat \ {0}]
    /\ DOMAIN cookie = Browsers /\ cut \subseteq Browsers
    /\ \A b \in Browsers : cookie[b] # Anyone!NoCookie =>
          cookie[b] \in [owner : People, version : Nat, until : Nat]
    /\ DOMAIN form = IF part = "quota" THEN OneForm ELSE Forms
    /\ \A f \in DOMAIN form : form[f] # Anyone!Free => form[f] \in [who : People, row : AccountRows]
    /\ DOMAIN desk = {"s1"}
    /\ desk["s1"] # Anyone!Free =>
          desk["s1"] \in [who : People, row : AccountRows, granted : BOOLEAN]

\* What was created today, counted from the last reset of today; nothing of a
\* later day is there.
TodayCounted ==
    /\ \A a \in People :
          /\ Anyone!Today(a) + refund[a] =
                spent[a] + (IF account[a].resetDay = day THEN account[a].baseline ELSE 0)
          /\ account[a].resetDay <= day /\ account[a].limit <= ceiling[a]
    /\ \A a \in People, d \in Anyone!Days : d > day => diagnosis[a][d] = 0

\* The request at the desk has a slot: the row it read is still the account's, or
\* the counting began anew after it was read.
DeskHasSlot ==
    desk["s1"] # Anyone!Free =>
        LET a == desk["s1"].who
        IN  /\ \/ spent[a] <= refund[a]
               \/ /\ desk["s1"].row.limit <= ceiling[a]
                  /\ desk["s1"].row.resetDay = account[a].resetDay
                  /\ desk["s1"].row.baseline = account[a].baseline
            /\ desk["s1"].granted => spent[a] < ceiling[a] + refund[a]

\* A session of a cut browser has an older version than its account.
CutIsOlder ==
    \A b \in Browsers : cookie[b] # Anyone!NoCookie =>
        /\ cookie[b].version <= account[cookie[b].owner].version
        /\ b \in cut => cookie[b].version < account[cookie[b].owner].version

PeopleInv == PeopleTyped /\ TodayCounted /\ DeskHasSlot /\ CutIsOlder /\ Anyone!QuotaHeld

PeopleSteps ==
    \/ Anyone!Midnight
    \/ \E b \in Browsers, a \in People : Anyone!Login(b, a)
    \/ \E b \in Browsers : Anyone!Logout(b)
    \/ \E f \in DOMAIN form, a \in People : Anyone!ReadAccount(f, a)
    \/ \E f \in DOMAIN form : Anyone!WriteAccount(f)
    \/ \E a \in People : Anyone!ResetQuota(a)
    \/ Anyone!CountTasks("s1") \/ Anyone!CreateDiagnosis("s1") \/ Anyone!Refuse("s1")
    \/ \E b \in Browsers : Anyone!Ask("s1", b)
    \/ \E a \in People, d \in Anyone!Days : Anyone!DeleteDiagnosis(a, d)

LEMMA PeopleNumbers ==
    /\ SessionLimits \cup QuotaLimits \subseteq Nat \ {0}
    /\ {SessionTasks, QuotaTasks, MaxDay, MaxWrites} \subseteq Nat /\ MaxDay > 0
BY PeopleAssumption DEF Sessions!AccountAssumption, Quota!AccountAssumption

LEMMA PeopleStart == SuiteInit => (part \in {"sessions", "quota"} => PeopleInv)
<1> SUFFICES ASSUME SuiteInit, part \in {"sessions", "quota"} PROVE PeopleInv
  OBVIOUS
<1>1. PICK L \in {SessionLimits, QuotaLimits} :
      /\ account \in [People -> [active : {TRUE}, expires : {Anyone!Never}, limit : L,
                               version : {1}, resetDay : {0}, baseline : {0}]]
      /\ diagnosis = [a \in People |-> [d \in Anyone!Days |-> 0]]
      /\ cookie = [b \in Browsers |-> Anyone!NoCookie]
      /\ form = [f \in IF part = "quota" THEN OneForm ELSE Forms |-> Anyone!Free]
      /\ desk = [s \in {"s1"} |-> Anyone!Free]
      /\ day = 1 /\ cut = {}
      /\ spent = [a \in People |-> 0] /\ refund = [a \in People |-> 0]
      /\ ceiling = [a \in People |-> account[a].limit]
  <2>1. CASE part = "quota"
    <3>1. Quota!Init
      BY <2>1 DEF SuiteInit
    <3>2. QED
      BY <2>1, <3>1 DEF Quota!Init, Quota!Never, Anyone!Never, Quota!Days, Anyone!Days,
         Quota!NoCookie, Anyone!NoCookie, Quota!Free, Anyone!Free
  <2>2. CASE part # "quota"
    <3>1. Sessions!Init
      BY <2>2 DEF SuiteInit
    <3>2. QED
      BY <2>2, <3>1 DEF Sessions!Init, Sessions!Never, Anyone!Never, Sessions!Days, Anyone!Days,
         Sessions!NoCookie, Anyone!NoCookie, Sessions!Free, Anyone!Free
  <2>3. QED
    BY <2>1, <2>2
<1>2. L \subseteq Nat \ {0} /\ Anyone!Never \in Nat /\ 1 \in Anyone!Days
  BY PeopleNumbers DEF Anyone!Never, Anyone!Days
<1>3. ASSUME NEW x \in [active : {TRUE}, expires : {Anyone!Never}, limit : L,
                               version : {1}, resetDay : {0}, baseline : {0}]
      PROVE  x \in AccountRows
  <2>4. /\ x.active = TRUE /\ x.expires = Anyone!Never /\ x.limit \in L /\ x.version = 1
        /\ x.resetDay = 0 /\ x.baseline = 0
    OBVIOUS
  <2>1. /\ x.active \in BOOLEAN /\ x.expires \in Nat /\ x.limit \in Nat \ {0} /\ x.version \in Nat
        /\ x.resetDay \in Nat /\ x.baseline \in Nat
    <3>1. x.active \in BOOLEAN
      BY <2>4
    <3>2. x.expires \in Nat
      BY <1>2, <2>4
    <3>3. x.limit \in Nat \ {0}
      BY <1>2, <2>4
    <3>4. x.version \in Nat /\ x.resetDay \in Nat /\ x.baseline \in Nat
      BY <2>4
    <3>5. QED
      BY <3>1, <3>2, <3>3, <3>4
  <2>2. x = [active |-> x.active, expires |-> x.expires, limit |-> x.limit, version |-> x.version,
             resetDay |-> x.resetDay, baseline |-> x.baseline]
    OBVIOUS
  <2>3. QED
    BY <2>1, <2>2 DEF AccountRows
<1>4. account \in [People -> AccountRows]
  BY <1>1, <1>3
<1>5. \A a \in People : /\ account[a].resetDay = 0 /\ account[a].limit \in Nat \ {0}
                        /\ ceiling[a] = account[a].limit
  BY <1>1, <1>2
<1>6. ceiling \in [People -> Nat \ {0}]
  BY <1>1, <1>5
<1>7. PeopleTyped
  BY <1>1, <1>2, <1>4, <1>6 DEF PeopleTyped
<1>8. \A a \in People : Anyone!Today(a) = 0 /\ spent[a] = 0 /\ refund[a] = 0
  BY <1>1, <1>2 DEF Anyone!Today
<1>9. TodayCounted
  BY <1>1, <1>5, <1>8 DEF TodayCounted
<1>10. DeskHasSlot /\ CutIsOlder
  BY <1>1 DEF DeskHasSlot, CutIsOlder
<1>11. Anyone!QuotaHeld
  BY <1>5, <1>8 DEF Anyone!QuotaHeld
<1>12. QED
  BY <1>7, <1>9, <1>10, <1>11 DEF PeopleInv

LEMMA HigherOfTwo ==
    ASSUME NEW x \in Int, NEW y \in Int
    PROVE  Anyone!Max({x, y}) = IF x < y THEN y ELSE x
<1>1. CASE x < y
  BY <1>1, HighestIs DEF Anyone!Max
<1>2. CASE ~ (x < y)
  BY <1>2, HighestIs DEF Anyone!Max
<1>3. QED
  BY <1>1, <1>2

\* Steps of the two instances.
LEMMA SessionsIsPeople == PeopleInv /\ part = "sessions" /\ Sessions!Next => PeopleSteps
<1> SUFFICES ASSUME PeopleInv, part = "sessions", Sessions!Next PROVE PeopleSteps
  OBVIOUS
<1>1. DOMAIN form = Forms
  BY DEF PeopleInv, PeopleTyped
<1>2. Sessions!Midnight => Anyone!Midnight
  BY DEF Sessions!Midnight, Anyone!Midnight
<1>3. ASSUME NEW b \in Browsers, NEW a \in People, Sessions!Login(b, a) PROVE Anyone!Login(b, a)
  BY <1>3 DEF Sessions!Login, Anyone!Login, Sessions!CanLogin, Anyone!CanLogin, Sessions!NoCookie,
     Anyone!NoCookie, Sessions!books, Anyone!books
<1>4. ASSUME NEW b \in Browsers, Sessions!Logout(b) PROVE Anyone!Logout(b)
  BY <1>4 DEF Sessions!Logout, Anyone!Logout, Sessions!NoCookie, Anyone!NoCookie, Sessions!books,
     Anyone!books
<1>5. ASSUME NEW f \in Forms, NEW a \in People, Sessions!ReadAccount(f, a)
      PROVE  Anyone!ReadAccount(f, a)
  BY <1>5 DEF Sessions!ReadAccount, Anyone!ReadAccount, Sessions!Free, Anyone!Free, Sessions!books,
     Anyone!books
<1>6. ASSUME NEW f \in Forms, Sessions!WriteAccount(f) PROVE Anyone!WriteAccount(f)
  <2>1. \A x : Sessions!Bodies(x) \subseteq Anyone!Bodies(x)
    BY DEF Sessions!Bodies, Anyone!Bodies, Sessions!LimitsChecked, Anyone!LimitsChecked,
       Sessions!Days, Anyone!Days, Sessions!Never, Anyone!Never
  <2>2. QED
    BY <1>6, <2>1 DEF Sessions!WriteAccount, Anyone!WriteAccount, Sessions!Free, Anyone!Free,
       Sessions!Spend, Anyone!Spend, Sessions!SessionChanged, Anyone!SessionChanged, Sessions!Max,
       Anyone!Max
<1>7. ASSUME NEW a \in People, Sessions!ResetQuota(a) PROVE Anyone!ResetQuota(a)
  BY <1>7 DEF Sessions!ResetQuota, Anyone!ResetQuota, Sessions!Spend, Anyone!Spend, Sessions!Today,
     Anyone!Today
<1>8. Sessions!CountTasks("s1") => Anyone!CountTasks("s1")
  BY DEF Sessions!CountTasks, Anyone!CountTasks, Sessions!Free, Anyone!Free, Sessions!Used,
     Anyone!Used, Sessions!Max, Anyone!Max, Sessions!Today, Anyone!Today, Sessions!books, Anyone!books
<1>9. Sessions!CreateDiagnosis("s1") => Anyone!CreateDiagnosis("s1")
  <2> SUFFICES ASSUME Sessions!CreateDiagnosis("s1") PROVE Anyone!CreateDiagnosis("s1")
    OBVIOUS
  <2>1. desk["s1"].who \in People
    BY DEF Sessions!CreateDiagnosis, Sessions!Free, Anyone!Free, PeopleInv, PeopleTyped
  <2>2. Anyone!Today(desk["s1"].who) \in Nat
    BY <2>1 DEF PeopleInv, PeopleTyped, Anyone!Today
  <2>3. Anyone!Today(desk["s1"].who) < SessionTasks
    BY DEF Sessions!CreateDiagnosis, Sessions!Today, Anyone!Today
  <2>4. Anyone!Today(desk["s1"].who) < SessionTasks + QuotaTasks
    BY <2>2, <2>3, PeopleNumbers
  <2>5. QED
    BY <2>4 DEF Sessions!CreateDiagnosis, Anyone!CreateDiagnosis, Sessions!Free, Anyone!Free
<1>10. Sessions!Refuse("s1") => Anyone!Refuse("s1")
  BY DEF Sessions!Refuse, Anyone!Refuse, Sessions!Free, Anyone!Free, Sessions!books, Anyone!books
<1>11. ASSUME NEW b \in Browsers, Sessions!Ask("s1", b) PROVE Anyone!Ask("s1", b)
  BY <1>11 DEF Sessions!Ask, Anyone!Ask, Sessions!Free, Anyone!Free, Sessions!Usable, Anyone!Usable,
     Sessions!CanLogin, Anyone!CanLogin, Sessions!NoCookie, Anyone!NoCookie, Sessions!books, Anyone!books
<1>12. ASSUME NEW a \in People, NEW d \in Sessions!Days, Sessions!DeleteDiagnosis(a, d)
       PROVE  d \in Anyone!Days /\ Anyone!DeleteDiagnosis(a, d)
  BY <1>12 DEF Sessions!DeleteDiagnosis, Anyone!DeleteDiagnosis, Sessions!Days, Anyone!Days,
     Sessions!Spend, Anyone!Spend
<1>13. QED
  BY <1>1, <1>2, <1>3, <1>4, <1>5, <1>6, <1>7, <1>8, <1>9, <1>10, <1>11, <1>12
     DEF Sessions!Next, PeopleSteps

LEMMA QuotaIsPeople == PeopleInv /\ part = "quota" /\ Quota!Next => PeopleSteps
<1> SUFFICES ASSUME PeopleInv, part = "quota", Quota!Next PROVE PeopleSteps
  OBVIOUS
<1>1. DOMAIN form = OneForm
  BY DEF PeopleInv, PeopleTyped
<1>2. Quota!Midnight => Anyone!Midnight
  BY DEF Quota!Midnight, Anyone!Midnight
<1>3. ASSUME NEW b \in Browsers, NEW a \in People, Quota!Login(b, a) PROVE Anyone!Login(b, a)
  BY <1>3 DEF Quota!Login, Anyone!Login, Quota!CanLogin, Anyone!CanLogin, Quota!NoCookie,
     Anyone!NoCookie, Quota!books, Anyone!books
<1>4. ASSUME NEW b \in Browsers, Quota!Logout(b) PROVE Anyone!Logout(b)
  BY <1>4 DEF Quota!Logout, Anyone!Logout, Quota!NoCookie, Anyone!NoCookie, Quota!books,
     Anyone!books
<1>5. ASSUME NEW f \in OneForm, NEW a \in People, Quota!ReadAccount(f, a)
      PROVE  Anyone!ReadAccount(f, a)
  BY <1>5 DEF Quota!ReadAccount, Anyone!ReadAccount, Quota!Free, Anyone!Free, Quota!books,
     Anyone!books
<1>6. ASSUME NEW f \in OneForm, Quota!WriteAccount(f) PROVE Anyone!WriteAccount(f)
  <2>1. \A x : Quota!Bodies(x) \subseteq Anyone!Bodies(x)
    BY DEF Quota!Bodies, Anyone!Bodies, Quota!LimitsChecked, Anyone!LimitsChecked,
       Quota!Days, Anyone!Days, Quota!Never, Anyone!Never
  <2>2. QED
    BY <1>6, <2>1 DEF Quota!WriteAccount, Anyone!WriteAccount, Quota!Free, Anyone!Free,
       Quota!Spend, Anyone!Spend, Quota!SessionChanged, Anyone!SessionChanged, Quota!Max,
       Anyone!Max
<1>7. ASSUME NEW a \in People, Quota!ResetQuota(a) PROVE Anyone!ResetQuota(a)
  BY <1>7 DEF Quota!ResetQuota, Anyone!ResetQuota, Quota!Spend, Anyone!Spend, Quota!Today,
     Anyone!Today
<1>8. Quota!CountTasks("s1") => Anyone!CountTasks("s1")
  BY DEF Quota!CountTasks, Anyone!CountTasks, Quota!Free, Anyone!Free, Quota!Used,
     Anyone!Used, Quota!Max, Anyone!Max, Quota!Today, Anyone!Today, Quota!books, Anyone!books
<1>9. Quota!CreateDiagnosis("s1") => Anyone!CreateDiagnosis("s1")
  <2> SUFFICES ASSUME Quota!CreateDiagnosis("s1") PROVE Anyone!CreateDiagnosis("s1")
    OBVIOUS
  <2>1. desk["s1"].who \in People
    BY DEF Quota!CreateDiagnosis, Quota!Free, Anyone!Free, PeopleInv, PeopleTyped
  <2>2. Anyone!Today(desk["s1"].who) \in Nat
    BY <2>1 DEF PeopleInv, PeopleTyped, Anyone!Today
  <2>3. Anyone!Today(desk["s1"].who) < QuotaTasks
    BY DEF Quota!CreateDiagnosis, Quota!Today, Anyone!Today
  <2>4. Anyone!Today(desk["s1"].who) < SessionTasks + QuotaTasks
    BY <2>2, <2>3, PeopleNumbers
  <2>5. QED
    BY <2>4 DEF Quota!CreateDiagnosis, Anyone!CreateDiagnosis, Quota!Free, Anyone!Free
<1>10. Quota!Refuse("s1") => Anyone!Refuse("s1")
  BY DEF Quota!Refuse, Anyone!Refuse, Quota!Free, Anyone!Free, Quota!books, Anyone!books
<1>11. ASSUME NEW b \in Browsers, Quota!Ask("s1", b) PROVE Anyone!Ask("s1", b)
  BY <1>11 DEF Quota!Ask, Anyone!Ask, Quota!Free, Anyone!Free, Quota!Usable, Anyone!Usable,
     Quota!CanLogin, Anyone!CanLogin, Quota!NoCookie, Anyone!NoCookie, Quota!books, Anyone!books
<1>12. ASSUME NEW a \in People, NEW d \in Quota!Days, Quota!DeleteDiagnosis(a, d)
       PROVE  d \in Anyone!Days /\ Anyone!DeleteDiagnosis(a, d)
  BY <1>12 DEF Quota!DeleteDiagnosis, Anyone!DeleteDiagnosis, Quota!Days, Anyone!Days,
     Quota!Spend, Anyone!Spend
<1>13. QED
  BY <1>1, <1>2, <1>3, <1>4, <1>5, <1>6, <1>7, <1>8, <1>9, <1>10, <1>11, <1>12
     DEF Quota!Next, PeopleSteps

LEMMA PeopleStepsOnly ==
    [SuiteNext]_suiteVars =>
        \/ part = "sessions" /\ part' = "sessions" /\ Sessions!Next
        \/ part = "quota" /\ part' = "quota" /\ Quota!Next
        \/ UNCHANGED <<part, peopleVars>>
BY DEF SuiteNext, suiteVars, DatabaseStep, LockStep, ArchiveStep, LegacyStep,
       ContentStep, EditStep, VisitStep, SessionsStep, QuotaStep, ReviewsStep,
       OnlyBase, OnlyLock, OnlyArchive, OnlyContent, OnlyReport, OnlyPeople, OnlyReview

\* The books of every account, as one step changes them.
LEMMA LoginKeeps ==
    ASSUME PeopleInv, UNCHANGED part, NEW b \in Browsers,
           \/ \E a \in People : Anyone!Login(b, a)
           \/ Anyone!Logout(b)
    PROVE  PeopleInv'
<1>1. UNCHANGED <<account, diagnosis, form, desk, day, spent, refund, ceiling>>
  BY DEF Anyone!Login, Anyone!Logout, Anyone!books
<1>2. PICK session :
         /\ cookie' = [cookie EXCEPT ![b] = session]
         /\ session # Anyone!NoCookie =>
               /\ session \in [owner : People, version : Nat, until : Nat]
               /\ session.version = account[session.owner].version
         /\ cut' \subseteq cut /\ (session # Anyone!NoCookie => b \notin cut')
  <2>1. ASSUME NEW a \in People, Anyone!Login(b, a)
        PROVE  LET session == [owner |-> a, version |-> account[a].version, until |-> account[a].expires]
               IN  /\ cookie' = [cookie EXCEPT ![b] = session]
                   /\ session \in [owner : People, version : Nat, until : Nat]
                   /\ session.version = account[session.owner].version
                   /\ cut' = cut \ {b}
    <3>1. account[a] \in AccountRows
      BY DEF PeopleInv, PeopleTyped
    <3>2. account[a].version \in Nat /\ account[a].expires \in Nat
      BY <3>1 DEF AccountRows
    <3>3. QED
      BY <2>1, <3>2 DEF Anyone!Login
  <2>2. CASE Anyone!Logout(b)
    BY <2>2 DEF Anyone!Logout
  <2>3. QED
    BY <2>1, <2>2
<1>3. \A x \in Browsers : x # b => cookie'[x] = cookie[x]
  BY <1>2 DEF PeopleInv, PeopleTyped
<1>4. cookie'[b] = session /\ DOMAIN cookie' = Browsers
  BY <1>2 DEF PeopleInv, PeopleTyped
<1>5. Anyone!NoCookie' = Anyone!NoCookie /\ Anyone!Free' = Anyone!Free /\ Anyone!Days' = Anyone!Days
  BY DEF Anyone!NoCookie, Anyone!Free, Anyone!Days
<1>6. PeopleTyped'
  <2>1. \A x \in Browsers : cookie'[x] # Anyone!NoCookie =>
          cookie'[x] \in [owner : People, version : Nat, until : Nat]
    BY <1>2, <1>3, <1>4 DEF PeopleInv, PeopleTyped
  <2>2. cut' \subseteq Browsers
    BY <1>2 DEF PeopleInv, PeopleTyped
  <2>3. QED
    BY <1>1, <1>4, <1>5, <2>1, <2>2 DEF PeopleInv, PeopleTyped
<1>7. CutIsOlder'
  <2>1. \A a \in People : account[a].version \in Nat
    BY DEF PeopleInv, PeopleTyped, AccountRows
  <2>2. CASE session = Anyone!NoCookie
    BY <1>1, <1>2, <1>3, <1>4, <1>5, <2>2 DEF PeopleInv, CutIsOlder
  <2>3. CASE session # Anyone!NoCookie
    <3>1. session.owner \in People /\ b \notin cut' /\ session.version = account[session.owner].version
      BY <1>2, <2>3
    <3>2. session.version <= account'[session.owner].version
      BY <1>1, <2>1, <3>1
    <3>3. QED
      BY <1>1, <1>2, <1>3, <1>4, <1>5, <3>1, <3>2 DEF PeopleInv, CutIsOlder
  <2>4. QED
    BY <2>2, <2>3
<1>8. TodayCounted' /\ DeskHasSlot' /\ Anyone!QuotaHeld'
  <2>1. \A a \in People : Anyone!Today(a)' = Anyone!Today(a)
    BY <1>1 DEF Anyone!Today
  <2>2. QED
    BY <1>1, <1>5, <2>1 DEF PeopleInv, TodayCounted, DeskHasSlot, Anyone!QuotaHeld
<1>9. QED
  BY <1>6, <1>7, <1>8 DEF PeopleInv

LEMMA ReadAccountKeeps ==
    ASSUME PeopleInv, UNCHANGED part, NEW f \in DOMAIN form, NEW a \in People,
           Anyone!ReadAccount(f, a)
    PROVE  PeopleInv'
<1>1. UNCHANGED <<account, diagnosis, cookie, desk, day, spent, refund, ceiling, cut>>
      /\ form' = [form EXCEPT ![f] = [who |-> a, row |-> account[a]]]
  BY DEF Anyone!ReadAccount, Anyone!books
<1>2. Anyone!NoCookie' = Anyone!NoCookie /\ Anyone!Free' = Anyone!Free /\ Anyone!Days' = Anyone!Days
  BY DEF Anyone!NoCookie, Anyone!Free, Anyone!Days
<1>3. [who |-> a, row |-> account[a]] \in [who : People, row : AccountRows]
  BY DEF PeopleInv, PeopleTyped
<1>4. PeopleTyped'
  <2>1. DOMAIN form' = DOMAIN form
    BY <1>1
  <2>2. \A x \in DOMAIN form' : form'[x] # Anyone!Free => form'[x] \in [who : People, row : AccountRows]
    BY <1>1, <1>3 DEF PeopleInv, PeopleTyped
  <2>3. QED
    BY <1>1, <1>2, <2>1, <2>2 DEF PeopleInv, PeopleTyped
<1>5. \A x \in People : Anyone!Today(x)' = Anyone!Today(x)
  BY <1>1 DEF Anyone!Today
<1>6. QED
  BY <1>1, <1>2, <1>4, <1>5 DEF PeopleInv, TodayCounted, DeskHasSlot, Anyone!QuotaHeld, CutIsOlder

\* A change of an account leaves what was counted, raises the highest limit of the
\* day with the limit, and the version with every cut.
LEMMA WriteAccountKeeps ==
    ASSUME PeopleInv, UNCHANGED part, NEW f \in DOMAIN form, Anyone!WriteAccount(f)
    PROVE  PeopleInv'
<1>1. form[f] \in [who : People, row : AccountRows]
  BY DEF PeopleInv, PeopleTyped, Anyone!WriteAccount
<1>2. PICK a \in People, old \in AccountRows : a = form[f].who /\ old = form[f].row
  BY <1>1
<1>3. PICK new \in Anyone!Bodies(old), secret \in BOOLEAN :
         /\ account' = [account EXCEPT ![a] =
                [account[a] EXCEPT !.active = new.active, !.limit = new.limit, !.expires = new.expires,
                    !.version = IF Anyone!SessionChanged(secret, new) THEN account[a].version + 1
                                ELSE account[a].version]]
         /\ cut' = IF secret \/ ~new.active THEN cut \cup {b \in Browsers : cookie[b].owner = a} ELSE cut
         /\ ceiling' = [ceiling EXCEPT ![a] = Anyone!Max({@, new.limit})]
  BY <1>2 DEF Anyone!WriteAccount
<1>4. form' = [form EXCEPT ![f] = Anyone!Free]
      /\ UNCHANGED <<diagnosis, cookie, desk, day, spent, refund>>
  BY DEF Anyone!WriteAccount
<1>5. new \in AccountRows
  <2>1. Anyone!Days \cup {Anyone!Never} \subseteq Nat
    BY PeopleNumbers DEF Anyone!Days, Anyone!Never
  <2>2. CASE new = old
    BY <2>2
  <2>3. ASSUME NEW x \in BOOLEAN, new = [old EXCEPT !.active = x] PROVE new \in AccountRows
    BY <2>3 DEF AccountRows
  <2>4. ASSUME NEW x \in Anyone!LimitsChecked, new = [old EXCEPT !.limit = x] PROVE new \in AccountRows
    <3>1. x \in Nat \ {0}
      BY PeopleNumbers DEF Anyone!LimitsChecked
    <3>2. QED
      BY <2>4, <3>1 DEF AccountRows
  <2>5. ASSUME NEW x \in Anyone!Days \cup {Anyone!Never}, new = [old EXCEPT !.expires = x]
        PROVE  new \in AccountRows
    BY <2>1, <2>5 DEF AccountRows
  <2>6. QED
    BY <2>2, <2>3, <2>4, <2>5 DEF Anyone!Bodies
<1>6. account[a] \in AccountRows /\ DOMAIN account = People
  BY DEF PeopleInv, PeopleTyped
<1>7. PICK was \in AccountRows : was = account[a]
  BY <1>6
<1>8. PICK is \in AccountRows :
         /\ account'[a] = is
         /\ is.limit = new.limit /\ is.resetDay = was.resetDay /\ is.baseline = was.baseline
         /\ is.version \in Nat /\ is.version >= was.version
         /\ (secret \/ ~new.active => is.version > was.version)
  <2>1. new.active \in BOOLEAN /\ new.limit \in Nat \ {0} /\ new.expires \in Nat /\ was.version \in Nat
    BY <1>5 DEF AccountRows
  <2>2. PICK next \in Nat : next = IF Anyone!SessionChanged(secret, new) THEN account[a].version + 1
                                  ELSE account[a].version
    BY <1>7, <2>1
  <2>3. account' = [account EXCEPT ![a] =
           [was EXCEPT !.active = new.active, !.limit = new.limit, !.expires = new.expires,
                       !.version = next]]
    BY <1>3, <1>7, <2>2
  <2>4. PICK is : is = [was EXCEPT !.active = new.active, !.limit = new.limit,
                                   !.expires = new.expires, !.version = next]
    OBVIOUS
  <2>5. /\ is \in AccountRows /\ is.limit = new.limit /\ is.version = next
        /\ is.resetDay = was.resetDay /\ is.baseline = was.baseline
    BY <2>1, <2>4 DEF AccountRows
  <2>6. next >= was.version
    BY <1>7, <2>1, <2>2
  <2>7. secret \/ ~new.active => next > was.version
    BY <1>7, <2>1, <2>2 DEF Anyone!SessionChanged
  <2>8. account'[a] = is
    BY <1>6, <2>3, <2>4
  <2>9. QED
    BY <2>5, <2>6, <2>7, <2>8
<1>9. new.limit \in Nat \ {0} /\ ceiling[a] \in Nat \ {0}
  BY <1>5 DEF AccountRows, PeopleInv, PeopleTyped
<1>10. PICK top \in Nat \ {0} : ceiling' = [ceiling EXCEPT ![a] = top] /\ top >= ceiling[a]
                               /\ top >= new.limit
  <2>1. Anyone!Max({ceiling[a], new.limit}) = IF ceiling[a] < new.limit THEN new.limit ELSE ceiling[a]
    BY <1>9, HigherOfTwo
  <2>2. PICK top : top = IF ceiling[a] < new.limit THEN new.limit ELSE ceiling[a]
    OBVIOUS
  <2>3. top \in Nat \ {0} /\ top >= ceiling[a] /\ top >= new.limit
    BY <1>9, <2>2
  <2>4. ceiling' = [ceiling EXCEPT ![a] = top]
    BY <1>3, <2>1, <2>2
  <2>5. QED
    BY <2>3, <2>4
<1>11. Anyone!NoCookie' = Anyone!NoCookie /\ Anyone!Free' = Anyone!Free /\ Anyone!Days' = Anyone!Days
  BY DEF Anyone!NoCookie, Anyone!Free, Anyone!Days
<1>12. /\ account' \in [People -> AccountRows] /\ ceiling' \in [People -> Nat \ {0}]
       /\ account'[a] = is /\ ceiling'[a] = top
       /\ \A x \in People : x # a => account'[x] = account[x] /\ ceiling'[x] = ceiling[x]
  <2>1. account' = [x \in People |-> account'[x]] /\ \A x \in People : x # a => account'[x] = account[x]
    BY <1>3, <1>6
  <2>2. \A x \in People : account'[x] \in AccountRows
    BY <1>8, <2>1 DEF PeopleInv, PeopleTyped
  <2>3. account' \in [People -> AccountRows]
    BY <2>1, <2>2
  <2>4. ceiling' \in [People -> Nat \ {0}] /\ ceiling'[a] = top
        /\ \A x \in People : x # a => ceiling'[x] = ceiling[x]
    BY <1>10 DEF PeopleInv, PeopleTyped
  <2>5. QED
    BY <1>8, <2>1, <2>3, <2>4
<1>13. PeopleTyped'
  <2>1. DOMAIN form' = DOMAIN form
    BY <1>4
  <2>2. \A x \in DOMAIN form' : form'[x] # Anyone!Free => form'[x] \in [who : People, row : AccountRows]
    BY <1>4 DEF PeopleInv, PeopleTyped
  <2>3. cut' \subseteq Browsers
    BY <1>3 DEF PeopleInv, PeopleTyped
  <2>4. QED
    BY <1>4, <1>11, <1>12, <2>1, <2>2, <2>3 DEF PeopleInv, PeopleTyped
<1>14. \A x \in People : /\ account'[x].resetDay = account[x].resetDay
                         /\ account'[x].baseline = account[x].baseline
                         /\ Anyone!Today(x)' = Anyone!Today(x)
  BY <1>4, <1>7, <1>8, <1>12 DEF Anyone!Today
<1>15. \A x \in People : /\ account'[x].limit <= ceiling'[x] /\ ceiling'[x] >= ceiling[x]
                         /\ ceiling[x] \in Nat /\ ceiling'[x] \in Nat
  <2>1. \A x \in People : ceiling[x] \in Nat /\ ceiling'[x] \in Nat
    BY <1>12 DEF PeopleInv, PeopleTyped
  <2>2. \A x \in People : x # a => account'[x].limit <= ceiling'[x] /\ ceiling'[x] >= ceiling[x]
    BY <1>12, <2>1 DEF PeopleInv, TodayCounted
  <2>3. account'[a].limit <= ceiling'[a] /\ ceiling'[a] >= ceiling[a]
    BY <1>8, <1>9, <1>10, <1>12
  <2>4. QED
    BY <2>1, <2>2, <2>3
<1>16. TodayCounted'
  BY <1>4, <1>11, <1>14, <1>15 DEF PeopleInv, TodayCounted
<1>17. Anyone!QuotaHeld'
  <2>1. ASSUME NEW x \in People PROVE spent'[x] <= ceiling'[x] + refund'[x]
    <3>1. spent[x] <= ceiling[x] + refund[x] /\ spent[x] \in Nat /\ refund[x] \in Nat
      BY DEF PeopleInv, PeopleTyped, Anyone!QuotaHeld
    <3>2. QED
      BY <1>4, <1>15, <3>1
  <2>2. QED
    BY <2>1 DEF Anyone!QuotaHeld
<1>18. DeskHasSlot'
  <2> SUFFICES ASSUME desk["s1"] # Anyone!Free PROVE DeskHasSlot'
    BY <1>4, <1>11 DEF DeskHasSlot
  <2>1. PICK x \in People, asked \in AccountRows : x = desk["s1"].who /\ asked = desk["s1"].row
    BY DEF PeopleInv, PeopleTyped
  <2>2. spent[x] \in Nat /\ refund[x] \in Nat /\ asked.limit \in Nat
    BY DEF PeopleInv, PeopleTyped, AccountRows
  <2>3. desk["s1"].granted => spent'[x] < ceiling'[x] + refund'[x]
    BY <1>4, <1>15, <2>1, <2>2 DEF PeopleInv, DeskHasSlot
  <2>4. \/ spent'[x] <= refund'[x]
        \/ /\ asked.limit <= ceiling'[x]
           /\ asked.resetDay = account'[x].resetDay
           /\ asked.baseline = account'[x].baseline
    BY <1>4, <1>14, <1>15, <2>1, <2>2 DEF PeopleInv, DeskHasSlot
  <2>5. QED
    BY <1>4, <1>11, <2>1, <2>3, <2>4 DEF DeskHasSlot
<1>19. CutIsOlder'
  <2> SUFFICES ASSUME NEW b \in Browsers, cookie[b] # Anyone!NoCookie
               PROVE  /\ cookie[b].version <= account'[cookie[b].owner].version
                      /\ b \in cut' => cookie[b].version < account'[cookie[b].owner].version
    BY <1>4, <1>11 DEF CutIsOlder
  <2>1. cookie[b].owner \in People /\ cookie[b].version \in Nat
    BY DEF PeopleInv, PeopleTyped
  <2>2. /\ cookie[b].version <= account[cookie[b].owner].version
        /\ b \in cut => cookie[b].version < account[cookie[b].owner].version
    BY DEF PeopleInv, CutIsOlder
  <2>3. CASE cookie[b].owner # a
    BY <1>3, <1>12, <2>1, <2>2, <2>3
  <2>4. CASE cookie[b].owner = a
    <3>1. was.version \in Nat /\ is.version \in Nat
      BY DEF AccountRows
    <3>2. cookie[b].version <= was.version /\ (b \in cut => cookie[b].version < was.version)
      BY <1>7, <2>2, <2>4
    <3>3. cookie[b].version <= is.version /\ (b \in cut' => cookie[b].version < is.version)
      BY <1>3, <1>8, <2>1, <3>1, <3>2
    <3>4. QED
      BY <1>12, <2>4, <3>3
  <2>5. QED
    BY <2>3, <2>4
<1>20. QED
  BY <1>13, <1>16, <1>17, <1>18, <1>19 DEF PeopleInv

\* The request at the desk.
LEMMA DeskKeeps ==
    ASSUME PeopleInv, UNCHANGED part, NEW asked, desk' = [desk EXCEPT !["s1"] = asked],
           UNCHANGED <<account, diagnosis, cookie, form, day, cut, spent, refund, ceiling>>,
           asked # Anyone!Free =>
               /\ asked \in [who : People, row : AccountRows, granted : BOOLEAN]
               /\ \/ spent[asked.who] <= refund[asked.who]
                  \/ /\ asked.row.limit <= ceiling[asked.who]
                     /\ asked.row.resetDay = account[asked.who].resetDay
                     /\ asked.row.baseline = account[asked.who].baseline
               /\ asked.granted => spent[asked.who] < ceiling[asked.who] + refund[asked.who]
    PROVE  PeopleInv'
<1>1. desk'["s1"] = asked /\ DOMAIN desk' = {"s1"}
  BY DEF PeopleInv, PeopleTyped
<1>2. Anyone!NoCookie' = Anyone!NoCookie /\ Anyone!Free' = Anyone!Free /\ Anyone!Days' = Anyone!Days
  BY DEF Anyone!NoCookie, Anyone!Free, Anyone!Days
<1>3. PeopleTyped'
  BY <1>1, <1>2 DEF PeopleInv, PeopleTyped
<1>4. \A x \in People : Anyone!Today(x)' = Anyone!Today(x)
  BY DEF Anyone!Today
<1>5. TodayCounted' /\ CutIsOlder' /\ Anyone!QuotaHeld'
  BY <1>2, <1>4 DEF PeopleInv, TodayCounted, CutIsOlder, Anyone!QuotaHeld
<1>6. DeskHasSlot'
  BY <1>1, <1>2 DEF DeskHasSlot
<1>7. QED
  BY <1>3, <1>5, <1>6 DEF PeopleInv

LEMMA AskKeeps ==
    ASSUME PeopleInv, UNCHANGED part, NEW b \in Browsers, Anyone!Ask("s1", b) PROVE PeopleInv'
<1>1. cookie[b].owner \in People
  BY DEF Anyone!Ask, Anyone!Usable, PeopleInv, PeopleTyped
<1>2. PICK a \in People, own \in AccountRows : a = cookie[b].owner /\ own = account[a]
  BY <1>1 DEF PeopleInv, PeopleTyped
<1>3. PICK asked \in [who : People, row : AccountRows, granted : BOOLEAN] :
         asked = [who |-> a, row |-> own, granted |-> FALSE]
  OBVIOUS
<1>4. desk' = [desk EXCEPT !["s1"] = asked]
      /\ UNCHANGED <<account, diagnosis, cookie, form, day, cut, spent, refund, ceiling>>
  BY <1>2, <1>3 DEF Anyone!Ask, Anyone!books
<1>5. asked.who = a /\ asked.row = own /\ asked.granted = FALSE
  BY <1>3
<1>6. own.limit <= ceiling[a]
  BY <1>2 DEF PeopleInv, TodayCounted
<1>7. QED
  BY <1>2, <1>4, <1>5, <1>6, DeskKeeps

\* A slot is granted by what the request read, which is what was created since the
\* last reset, or nothing was.
LEMMA CountKeeps ==
    ASSUME PeopleInv, UNCHANGED part, Anyone!CountTasks("s1") PROVE PeopleInv'
<1>1. /\ desk["s1"] # Anyone!Free
      /\ UNCHANGED <<account, diagnosis, cookie, form, day, cut, spent, refund, ceiling>>
  BY DEF Anyone!CountTasks, Anyone!books
<1>2. PICK seen \in [who : People, row : AccountRows, granted : BOOLEAN] : seen = desk["s1"]
  BY <1>1 DEF PeopleInv, PeopleTyped
<1>3. PICK a \in People, own \in AccountRows : a = seen.who /\ own = seen.row
  OBVIOUS
<1>4. /\ own.limit \in Nat /\ own.baseline \in Nat /\ own.resetDay \in Nat
      /\ spent[a] \in Nat /\ refund[a] \in Nat /\ ceiling[a] \in Nat \ {0}
      /\ account[a].baseline \in Nat /\ Anyone!Today(a) \in Nat
  BY DEF AccountRows, PeopleInv, PeopleTyped, Anyone!Today
<1>5. \/ spent[a] <= refund[a]
      \/ own.limit <= ceiling[a] /\ own.resetDay = account[a].resetDay
         /\ own.baseline = account[a].baseline
  BY <1>1, <1>2, <1>3 DEF PeopleInv, DeskHasSlot
<1>6. CASE Anyone!Used(a, own) < own.limit
  <2>1. Anyone!Today(a) + refund[a] =
           spent[a] + (IF account[a].resetDay = day THEN account[a].baseline ELSE 0)
    BY DEF PeopleInv, TodayCounted
  <2>2. spent[a] < ceiling[a] + refund[a]
    <3>1. CASE spent[a] <= refund[a]
      BY <1>4, <3>1
    <3>2. CASE /\ own.limit <= ceiling[a] /\ own.resetDay = account[a].resetDay
               /\ own.baseline = account[a].baseline
      <4>1. CASE own.resetDay = day
        <5>1. Anyone!Used(a, own) = Anyone!Max({0, Anyone!Today(a) - own.baseline})
          BY <4>1 DEF Anyone!Used
        <5>2. Anyone!Max({0, Anyone!Today(a) - own.baseline}) =
                 IF 0 < Anyone!Today(a) - own.baseline THEN Anyone!Today(a) - own.baseline ELSE 0
          BY <1>4, HigherOfTwo
        <5>3. Anyone!Today(a) - own.baseline < own.limit
          BY <1>4, <1>6, <5>1, <5>2
        <5>4. Anyone!Today(a) + refund[a] = spent[a] + own.baseline
          BY <2>1, <3>2, <4>1
        <5>5. QED
          BY <1>4, <3>2, <5>3, <5>4
      <4>2. CASE own.resetDay # day
        <5>1. Anyone!Today(a) < own.limit
          BY <1>6, <4>2 DEF Anyone!Used
        <5>2. Anyone!Today(a) + refund[a] = spent[a]
          BY <1>4, <2>1, <3>2, <4>2
        <5>3. QED
          BY <1>4, <3>2, <5>1, <5>2
      <4>3. QED
        BY <4>1, <4>2
    <3>3. QED
      BY <1>5, <3>1, <3>2
  <2>3. PICK asked \in [who : People, row : AccountRows, granted : BOOLEAN] :
           asked = [seen EXCEPT !.granted = TRUE]
    OBVIOUS
  <2>4. asked.who = a /\ asked.row = own
    BY <1>3, <2>3
  <2>5. desk' = [desk EXCEPT !["s1"] = asked]
    BY <1>2, <1>3, <1>6, <2>3 DEF Anyone!CountTasks
  <2>6. QED
    BY <1>1, <1>5, <2>2, <2>4, <2>5, DeskKeeps
<1>7. CASE ~ (Anyone!Used(a, own) < own.limit)
  <2>1. desk' = [desk EXCEPT !["s1"] = Anyone!Free]
    BY <1>2, <1>3, <1>7 DEF Anyone!CountTasks
  <2>2. QED
    BY <1>1, <2>1, DeskKeeps
<1>8. QED
  BY <1>6, <1>7

LEMMA CreateDiagnosisKeeps ==
    ASSUME PeopleInv, UNCHANGED part, Anyone!CreateDiagnosis("s1") PROVE PeopleInv'
<1>1. desk["s1"] # Anyone!Free /\ desk["s1"].granted
      /\ UNCHANGED <<account, cookie, form, day, cut, refund, ceiling>>
  BY DEF Anyone!CreateDiagnosis
<1>2. PICK a \in People : a = desk["s1"].who
  BY <1>1 DEF PeopleInv, PeopleTyped
<1>3. /\ diagnosis' = [diagnosis EXCEPT ![a][day] = @ + 1]
      /\ spent' = [spent EXCEPT ![a] = @ + 1] /\ desk' = [desk EXCEPT !["s1"] = Anyone!Free]
  BY <1>2 DEF Anyone!CreateDiagnosis
<1>4. /\ diagnosis \in [People -> [Anyone!Days -> Nat]] /\ day \in Anyone!Days
      /\ spent \in [People -> Nat] /\ refund \in [People -> Nat] /\ ceiling \in [People -> Nat \ {0}]
      /\ Anyone!Days \subseteq Nat
  BY PeopleNumbers DEF PeopleInv, PeopleTyped, Anyone!Days
<1>5. Anyone!NoCookie' = Anyone!NoCookie /\ Anyone!Free' = Anyone!Free /\ Anyone!Days' = Anyone!Days
  BY DEF Anyone!NoCookie, Anyone!Free, Anyone!Days
<1>6. /\ diagnosis' \in [People -> [Anyone!Days -> Nat]] /\ spent' \in [People -> Nat]
      /\ spent'[a] = spent[a] + 1 /\ diagnosis'[a][day] = diagnosis[a][day] + 1
      /\ \A x \in People : x # a => spent'[x] = spent[x] /\ diagnosis'[x] = diagnosis[x]
      /\ \A d \in Anyone!Days : d # day => diagnosis'[a][d] = diagnosis[a][d]
  BY <1>3, <1>4
<1>7. DOMAIN desk' = {"s1"} /\ desk'["s1"] = Anyone!Free
  BY <1>3 DEF PeopleInv, PeopleTyped
<1>8. PeopleTyped'
  BY <1>1, <1>5, <1>6, <1>7 DEF PeopleInv, PeopleTyped
<1>9. DeskHasSlot' /\ CutIsOlder'
  BY <1>1, <1>5, <1>7 DEF PeopleInv, DeskHasSlot, CutIsOlder
<1>10. Anyone!QuotaHeld'
  <2>1. spent[a] < ceiling[a] + refund[a]
    BY <1>1, <1>2 DEF PeopleInv, DeskHasSlot
  <2>2. ASSUME NEW x \in People PROVE spent'[x] <= ceiling'[x] + refund'[x]
    BY <1>1, <1>4, <1>6, <2>1 DEF PeopleInv, Anyone!QuotaHeld
  <2>3. QED
    BY <2>2 DEF Anyone!QuotaHeld
<1>11. TodayCounted'
  <2>1. ASSUME NEW x \in People
        PROVE  Anyone!Today(x)' + refund'[x] =
                  spent'[x] + (IF account'[x].resetDay = day' THEN account'[x].baseline ELSE 0)
    <3>1. Anyone!Today(x) + refund[x] =
             spent[x] + (IF account[x].resetDay = day THEN account[x].baseline ELSE 0)
      BY DEF PeopleInv, TodayCounted
    <3>2. /\ Anyone!Today(x) = diagnosis[x][day] /\ Anyone!Today(x)' = diagnosis'[x][day]
          /\ diagnosis[x][day] \in Nat /\ spent[x] \in Nat /\ refund[x] \in Nat
      BY <1>1, <1>4 DEF Anyone!Today
    <3>3. PICK base : base = IF account[x].resetDay = day THEN account[x].baseline ELSE 0
      OBVIOUS
    <3>4. base \in Nat
      BY <3>3 DEF PeopleInv, PeopleTyped, AccountRows
    <3>5. diagnosis[x][day] + refund[x] = spent[x] + base
      BY <3>1, <3>2, <3>3
    <3>6. diagnosis'[x][day] + refund[x] = spent'[x] + base
      <4>1. CASE x = a
        <5>1. diagnosis'[x][day] = diagnosis[x][day] + 1 /\ spent'[x] = spent[x] + 1
          BY <1>6, <4>1
        <5>2. QED
          BY <3>2, <3>4, <3>5, <5>1
      <4>2. CASE x # a
        <5>1. diagnosis'[x][day] = diagnosis[x][day] /\ spent'[x] = spent[x]
          BY <1>6, <4>2
        <5>2. QED
          BY <3>5, <5>1
      <4>3. QED
        BY <4>1, <4>2
    <3>7. QED
      BY <1>1, <3>2, <3>3, <3>6
  <2>2. \A x \in People, d \in Anyone!Days : d > day => diagnosis'[x][d] = 0
    BY <1>4, <1>6 DEF PeopleInv, TodayCounted
  <2>3. QED
    BY <1>1, <1>5, <2>1, <2>2 DEF PeopleInv, TodayCounted
<1>12. QED
  BY <1>8, <1>9, <1>10, <1>11 DEF PeopleInv

LEMMA DeleteDiagnosisKeeps ==
    ASSUME PeopleInv, UNCHANGED part, NEW a \in People, NEW d \in Anyone!Days,
           Anyone!DeleteDiagnosis(a, d)
    PROVE  PeopleInv'
<1>1. /\ UNCHANGED <<account, cookie, form, desk, day, cut, spent, ceiling>> /\ diagnosis[a][d] > 0
      /\ refund' = IF d = day THEN [refund EXCEPT ![a] = @ + 1] ELSE refund
      /\ diagnosis' = [diagnosis EXCEPT ![a][d] = @ - 1]
  BY DEF Anyone!DeleteDiagnosis
<1>2. /\ diagnosis \in [People -> [Anyone!Days -> Nat]] /\ day \in Anyone!Days
      /\ spent \in [People -> Nat] /\ refund \in [People -> Nat] /\ ceiling \in [People -> Nat \ {0}]
      /\ Anyone!Days \subseteq Nat
  BY PeopleNumbers DEF PeopleInv, PeopleTyped, Anyone!Days
<1>3. Anyone!NoCookie' = Anyone!NoCookie /\ Anyone!Free' = Anyone!Free /\ Anyone!Days' = Anyone!Days
  BY DEF Anyone!NoCookie, Anyone!Free, Anyone!Days
<1>4. /\ diagnosis' \in [People -> [Anyone!Days -> Nat]]
      /\ diagnosis'[a][d] = diagnosis[a][d] - 1
      /\ \A x \in People, e \in Anyone!Days : x # a \/ e # d => diagnosis'[x][e] = diagnosis[x][e]
  <2>1. diagnosis[a][d] - 1 \in Nat
    BY <1>1, <1>2
  <2>2. PICK g : g = [diagnosis[a] EXCEPT ![d] = diagnosis[a][d] - 1]
    OBVIOUS
  <2>3. g \in [Anyone!Days -> Nat] /\ g[d] = diagnosis[a][d] - 1
        /\ \A e \in Anyone!Days : e # d => g[e] = diagnosis[a][e]
    BY <1>2, <2>1, <2>2
  <2>4. diagnosis' = [diagnosis EXCEPT ![a] = g]
    BY <1>1, <2>2
  <2>5. QED
    BY <1>2, <2>3, <2>4
<1>5. /\ refund' \in [People -> Nat]
      /\ \A x \in People : refund'[x] = IF x = a /\ d = day THEN refund[x] + 1 ELSE refund[x]
  BY <1>1, <1>2
<1>6. PeopleTyped'
  BY <1>1, <1>3, <1>4, <1>5 DEF PeopleInv, PeopleTyped
<1>7. CutIsOlder'
  BY <1>1, <1>3 DEF PeopleInv, CutIsOlder
<1>8. \A x \in People : /\ refund'[x] >= refund[x] /\ refund'[x] \in Nat /\ refund[x] \in Nat
                        /\ spent[x] \in Nat /\ ceiling[x] \in Nat
  BY <1>2, <1>5
<1>9. Anyone!QuotaHeld'
  BY <1>1, <1>8 DEF PeopleInv, Anyone!QuotaHeld
<1>10. DeskHasSlot'
  <2> SUFFICES ASSUME desk["s1"] # Anyone!Free PROVE DeskHasSlot'
    BY <1>1, <1>3 DEF DeskHasSlot
  <2>1. PICK x \in People : x = desk["s1"].who
    BY DEF PeopleInv, PeopleTyped
  <2>2. \/ spent[x] <= refund[x]
        \/ /\ desk["s1"].row.limit <= ceiling[x]
           /\ desk["s1"].row.resetDay = account[x].resetDay
           /\ desk["s1"].row.baseline = account[x].baseline
    BY <2>1 DEF PeopleInv, DeskHasSlot
  <2>3. desk["s1"].granted => spent[x] < ceiling[x] + refund[x]
    BY <2>1 DEF PeopleInv, DeskHasSlot
  <2>4. (spent[x] <= refund[x] => spent[x] <= refund'[x])
        /\ (desk["s1"].granted => spent[x] < ceiling[x] + refund'[x])
    BY <1>8, <2>3
  <2>5. QED
    BY <1>1, <1>3, <2>1, <2>2, <2>4 DEF DeskHasSlot
<1>11. TodayCounted'
  <2>1. ASSUME NEW x \in People
        PROVE  Anyone!Today(x)' + refund'[x] =
                  spent'[x] + (IF account'[x].resetDay = day' THEN account'[x].baseline ELSE 0)
    <3>1. Anyone!Today(x) + refund[x] =
             spent[x] + (IF account[x].resetDay = day THEN account[x].baseline ELSE 0)
      BY DEF PeopleInv, TodayCounted
    <3>2. /\ Anyone!Today(x) = diagnosis[x][day] /\ Anyone!Today(x)' = diagnosis'[x][day]
          /\ diagnosis[x][day] \in Nat /\ spent[x] \in Nat /\ refund[x] \in Nat
      BY <1>1, <1>2 DEF Anyone!Today
    <3>3. PICK base : base = IF account[x].resetDay = day THEN account[x].baseline ELSE 0
      OBVIOUS
    <3>4. base \in Nat
      BY <3>3 DEF PeopleInv, PeopleTyped, AccountRows
    <3>5. diagnosis[x][day] + refund[x] = spent[x] + base
      BY <3>1, <3>2, <3>3
    <3>6. CASE x = a /\ d = day
      <4>1. diagnosis'[x][day] = diagnosis[x][day] - 1 /\ refund'[x] = refund[x] + 1
        BY <1>4, <1>5, <3>6
      <4>2. QED
        BY <1>1, <3>2, <3>3, <3>4, <3>5, <4>1
    <3>7. CASE ~ (x = a /\ d = day)
      <4>1. diagnosis'[x][day] = diagnosis[x][day] /\ refund'[x] = refund[x]
        BY <1>2, <1>4, <1>5, <3>7
      <4>2. QED
        BY <1>1, <3>2, <3>3, <3>5, <4>1
    <3>8. QED
      BY <3>6, <3>7
  <2>2. \A x \in People, e \in Anyone!Days : e > day => diagnosis'[x][e] = 0
    <3>1. ASSUME NEW x \in People, NEW e \in Anyone!Days, e > day PROVE diagnosis'[x][e] = 0
      <4>1. diagnosis[x][e] = 0
        BY <3>1 DEF PeopleInv, TodayCounted
      <4>2. x # a \/ e # d
        BY <1>1, <4>1
      <4>3. QED
        BY <1>4, <4>1, <4>2
    <3>2. QED
      BY <3>1
  <2>3. QED
    BY <1>1, <1>3, <2>1, <2>2 DEF PeopleInv, TodayCounted
<1>12. QED
  BY <1>6, <1>7, <1>9, <1>10, <1>11 DEF PeopleInv

LEMMA ResetQuotaKeeps ==
    ASSUME PeopleInv, UNCHANGED part, NEW a \in People, Anyone!ResetQuota(a) PROVE PeopleInv'
<1>1. /\ UNCHANGED <<diagnosis, cookie, form, desk, day, cut, ceiling>>
      /\ spent' = [spent EXCEPT ![a] = 0] /\ refund' = [refund EXCEPT ![a] = 0]
      /\ account' = [account EXCEPT ![a] =
            [account[a] EXCEPT !.resetDay = day, !.baseline = Anyone!Today(a)]]
  BY DEF Anyone!ResetQuota
<1>2. /\ diagnosis \in [People -> [Anyone!Days -> Nat]] /\ day \in Anyone!Days
      /\ spent \in [People -> Nat] /\ refund \in [People -> Nat] /\ ceiling \in [People -> Nat \ {0}]
      /\ account \in [People -> AccountRows] /\ Anyone!Days \subseteq Nat
  BY PeopleNumbers DEF PeopleInv, PeopleTyped, Anyone!Days
<1>3. Anyone!NoCookie' = Anyone!NoCookie /\ Anyone!Free' = Anyone!Free /\ Anyone!Days' = Anyone!Days
  BY DEF Anyone!NoCookie, Anyone!Free, Anyone!Days
<1>4. Anyone!Today(a) \in Nat /\ day \in Nat
  BY <1>2 DEF Anyone!Today
<1>5. PICK new : new = [account[a] EXCEPT !.resetDay = day, !.baseline = Anyone!Today(a)]
  OBVIOUS
<1>6. account[a] \in AccountRows
  BY <1>2
<1>7. /\ new \in AccountRows /\ new.resetDay = day /\ new.baseline = Anyone!Today(a)
      /\ new.limit = account[a].limit /\ new.version = account[a].version
  BY <1>4, <1>5, <1>6 DEF AccountRows
<1>8. /\ account' \in [People -> AccountRows] /\ account'[a] = new
      /\ \A x \in People : x # a => account'[x] = account[x]
  BY <1>1, <1>2, <1>5, <1>7
<1>9. /\ spent' \in [People -> Nat] /\ refund' \in [People -> Nat]
      /\ spent'[a] = 0 /\ refund'[a] = 0
      /\ \A x \in People : x # a => spent'[x] = spent[x] /\ refund'[x] = refund[x]
  BY <1>1, <1>2
<1>10. PeopleTyped'
  BY <1>1, <1>3, <1>8, <1>9 DEF PeopleInv, PeopleTyped
<1>11. \A x \in People : account'[x].version = account[x].version /\ account'[x].limit = account[x].limit
  BY <1>7, <1>8
<1>12. CutIsOlder'
  <2>1. ASSUME NEW b \in Browsers, cookie[b] # Anyone!NoCookie
        PROVE  /\ cookie[b].version <= account'[cookie[b].owner].version
               /\ b \in cut => cookie[b].version < account'[cookie[b].owner].version
    <3>1. PICK x \in People : x = cookie[b].owner
      BY <2>1 DEF PeopleInv, PeopleTyped
    <3>2. account'[x].version = account[x].version
      BY <1>11
    <3>3. QED
      BY <2>1, <3>1, <3>2 DEF PeopleInv, CutIsOlder
  <2>2. QED
    BY <1>1, <1>3, <2>1 DEF CutIsOlder
<1>13. Anyone!QuotaHeld'
  <2>1. ASSUME NEW x \in People PROVE spent'[x] <= ceiling'[x] + refund'[x]
    BY <1>1, <1>2, <1>9 DEF PeopleInv, Anyone!QuotaHeld
  <2>2. QED
    BY <2>1 DEF Anyone!QuotaHeld
<1>14. DeskHasSlot'
  <2> SUFFICES ASSUME desk["s1"] # Anyone!Free PROVE DeskHasSlot'
    BY <1>1, <1>3 DEF DeskHasSlot
  <2>1. PICK x \in People : x = desk["s1"].who
    BY DEF PeopleInv, PeopleTyped
  <2>2. CASE x = a
    <3>1. spent'[x] <= refund'[x] /\ spent'[x] < ceiling[x] + refund'[x]
      BY <1>2, <1>9, <2>2
    <3>2. QED
      BY <1>1, <1>3, <2>1, <3>1 DEF DeskHasSlot
  <2>3. CASE x # a
    <3>1. spent'[x] = spent[x] /\ refund'[x] = refund[x] /\ account'[x] = account[x]
      BY <1>8, <1>9, <2>3
    <3>2. QED
      BY <1>1, <1>3, <2>1, <3>1 DEF PeopleInv, DeskHasSlot
  <2>4. QED
    BY <2>2, <2>3
<1>15. TodayCounted'
  <2>1. ASSUME NEW x \in People
        PROVE  /\ Anyone!Today(x)' + refund'[x] =
                  spent'[x] + (IF account'[x].resetDay = day' THEN account'[x].baseline ELSE 0)
               /\ account'[x].resetDay <= day'
    <3>1. Anyone!Today(x)' = Anyone!Today(x)
      BY <1>1 DEF Anyone!Today
    <3>2. CASE x = a
      BY <1>1, <1>4, <1>7, <1>8, <1>9, <3>1, <3>2
    <3>3. CASE x # a
      <4>1. spent'[x] = spent[x] /\ refund'[x] = refund[x] /\ account'[x] = account[x]
        BY <1>8, <1>9, <3>3
      <4>2. QED
        BY <1>1, <3>1, <4>1 DEF PeopleInv, TodayCounted
    <3>4. QED
      BY <3>2, <3>3
  <2>2. QED
    BY <1>1, <1>3, <1>11, <2>1 DEF PeopleInv, TodayCounted
<1>16. QED
  BY <1>10, <1>12, <1>13, <1>14, <1>15 DEF PeopleInv

LEMMA RefuseKeeps == ASSUME PeopleInv, UNCHANGED part, Anyone!Refuse("s1") PROVE PeopleInv'
<1>1. /\ desk' = [desk EXCEPT !["s1"] = Anyone!Free]
      /\ UNCHANGED <<account, diagnosis, cookie, form, day, cut, spent, refund, ceiling>>
  BY DEF Anyone!Refuse, Anyone!books
<1>2. QED
  BY <1>1, DeskKeeps

\* A new day starts the counting anew; nothing of it was created before.
LEMMA MidnightKeeps == ASSUME PeopleInv, UNCHANGED part, Anyone!Midnight PROVE PeopleInv'
<1>1. /\ UNCHANGED <<account, diagnosis, cookie, form, desk, cut>>
      /\ day < MaxDay /\ day' = day + 1
      /\ spent' = [a \in People |-> 0] /\ refund' = [a \in People |-> 0]
      /\ ceiling' = [a \in People |-> account[a].limit]
  BY DEF Anyone!Midnight
<1>2. /\ diagnosis \in [People -> [Anyone!Days -> Nat]] /\ day \in Anyone!Days
      /\ account \in [People -> AccountRows] /\ Anyone!Days \subseteq Nat
      /\ day' \in Anyone!Days /\ day \in Nat
  BY <1>1, PeopleNumbers DEF PeopleInv, PeopleTyped, Anyone!Days
<1>3. Anyone!NoCookie' = Anyone!NoCookie /\ Anyone!Free' = Anyone!Free /\ Anyone!Days' = Anyone!Days
  BY DEF Anyone!NoCookie, Anyone!Free, Anyone!Days
<1>4. ASSUME NEW x \in People
      PROVE  /\ account[x].limit \in Nat \ {0} /\ account[x].resetDay \in Nat
             /\ account[x].resetDay <= day /\ spent'[x] = 0 /\ refund'[x] = 0
             /\ ceiling'[x] = account[x].limit /\ diagnosis[x][day'] = 0
  <2>1. account[x] \in AccountRows
    BY <1>2
  <2>2. account[x].limit \in Nat \ {0} /\ account[x].resetDay \in Nat
    BY <2>1 DEF AccountRows
  <2>3. account[x].resetDay <= day
    BY DEF PeopleInv, TodayCounted
  <2>4. spent'[x] = 0 /\ refund'[x] = 0 /\ ceiling'[x] = account[x].limit
    BY <1>1
  <2>5. day' > day
    BY <1>1, <1>2
  <2>6. diagnosis[x][day'] = 0
    BY <1>2, <2>5 DEF PeopleInv, TodayCounted
  <2>7. QED
    BY <2>2, <2>3, <2>4, <2>6
<1>5. spent' \in [People -> Nat] /\ refund' \in [People -> Nat] /\ ceiling' \in [People -> Nat \ {0}]
  BY <1>1, <1>4
<1>6. PeopleTyped'
  BY <1>1, <1>2, <1>3, <1>5 DEF PeopleInv, PeopleTyped
<1>7. CutIsOlder'
  BY <1>1, <1>3 DEF PeopleInv, CutIsOlder
<1>8. Anyone!QuotaHeld'
  BY <1>4 DEF Anyone!QuotaHeld
<1>9. DeskHasSlot'
  <2> SUFFICES ASSUME desk["s1"] # Anyone!Free PROVE DeskHasSlot'
    BY <1>1, <1>3 DEF DeskHasSlot
  <2>1. PICK x \in People : x = desk["s1"].who
    BY DEF PeopleInv, PeopleTyped
  <2>2. spent'[x] <= refund'[x] /\ spent'[x] < ceiling'[x] + refund'[x]
    BY <1>4
  <2>3. QED
    BY <1>1, <1>3, <2>1, <2>2 DEF DeskHasSlot
<1>10. TodayCounted'
  <2>1. ASSUME NEW x \in People
        PROVE  /\ Anyone!Today(x)' + refund'[x] =
                  spent'[x] + (IF account'[x].resetDay = day' THEN account'[x].baseline ELSE 0)
               /\ account'[x].resetDay <= day' /\ account'[x].limit <= ceiling'[x]
    <3>1. Anyone!Today(x)' = diagnosis[x][day']
      BY <1>1 DEF Anyone!Today
    <3>2. account'[x].resetDay # day' /\ account'[x].resetDay <= day'
      BY <1>1, <1>2, <1>4
    <3>3. account'[x].limit <= ceiling'[x]
      BY <1>1, <1>4
    <3>4. Anyone!Today(x)' + refund'[x] = 0 /\ spent'[x] = 0
      BY <1>4, <3>1
    <3>5. QED
      BY <3>2, <3>3, <3>4
  <2>2. \A x \in People, e \in Anyone!Days : e > day' => diagnosis'[x][e] = 0
    BY <1>1, <1>2 DEF PeopleInv, TodayCounted
  <2>3. QED
    BY <1>3, <2>1, <2>2 DEF TodayCounted
<1>11. QED
  BY <1>6, <1>7, <1>8, <1>9, <1>10 DEF PeopleInv

LEMMA PeopleKeeps == PeopleInv /\ UNCHANGED part /\ PeopleSteps => PeopleInv'
<1> SUFFICES ASSUME PeopleInv, UNCHANGED part, PeopleSteps PROVE PeopleInv'
  OBVIOUS
<1>1. ASSUME NEW f \in DOMAIN form, NEW a \in People, Anyone!ReadAccount(f, a) PROVE PeopleInv'
  BY <1>1, ReadAccountKeeps
<1>2. ASSUME NEW f \in DOMAIN form, Anyone!WriteAccount(f) PROVE PeopleInv'
  BY <1>2, WriteAccountKeeps
<1>3. ASSUME NEW a \in People, Anyone!ResetQuota(a) PROVE PeopleInv'
  BY <1>3, ResetQuotaKeeps
<1>4. ASSUME NEW b \in Browsers, Anyone!Ask("s1", b) PROVE PeopleInv'
  BY <1>4, AskKeeps
<1>5. ASSUME NEW a \in People, NEW d \in Anyone!Days, Anyone!DeleteDiagnosis(a, d) PROVE PeopleInv'
  BY <1>5, DeleteDiagnosisKeeps
<1>6. ASSUME NEW b \in Browsers, (\E a \in People : Anyone!Login(b, a)) \/ Anyone!Logout(b)
      PROVE  PeopleInv'
  BY <1>6, LoginKeeps
<1>7. QED
  BY <1>1, <1>2, <1>3, <1>4, <1>5, <1>6, MidnightKeeps, CountKeeps, CreateDiagnosisKeeps, RefuseKeeps
     DEF PeopleSteps

LEMMA PeopleIdle == PeopleInv /\ UNCHANGED <<part, peopleVars>> => PeopleInv'
<1> SUFFICES ASSUME PeopleInv, UNCHANGED <<part, peopleVars>> PROVE PeopleInv'
  OBVIOUS
<1>1. UNCHANGED <<part, account, diagnosis, cookie, form, desk, day, cut, spent, refund, ceiling>>
  BY DEF peopleVars
<1>2. Anyone!NoCookie' = Anyone!NoCookie /\ Anyone!Free' = Anyone!Free /\ Anyone!Days' = Anyone!Days
  BY DEF Anyone!NoCookie, Anyone!Free, Anyone!Days
<1>3. PeopleTyped'
  BY <1>1, <1>2 DEF PeopleInv, PeopleTyped
<1>4. TodayCounted'
  BY <1>1, <1>2 DEF PeopleInv, TodayCounted, Anyone!Today
<1>5. DeskHasSlot' /\ CutIsOlder'
  BY <1>1, <1>2 DEF PeopleInv, DeskHasSlot, CutIsOlder
<1>6. Anyone!QuotaHeld'
  BY <1>1 DEF PeopleInv, Anyone!QuotaHeld
<1>7. QED
  BY <1>3, <1>4, <1>5, <1>6 DEF PeopleInv

LEMMA PeopleHeld == SuiteSpec => [](part \in {"sessions", "quota"} => PeopleInv)
<1>1. (part \in {"sessions", "quota"} => PeopleInv) /\ [SuiteNext]_suiteVars
         => (part \in {"sessions", "quota"} => PeopleInv)'
  <2> SUFFICES ASSUME part \in {"sessions", "quota"} => PeopleInv, [SuiteNext]_suiteVars,
                      part' \in {"sessions", "quota"}
               PROVE  PeopleInv'
    OBVIOUS
  <2>1. CASE part = "sessions" /\ part' = "sessions" /\ Sessions!Next
    BY <2>1, SessionsIsPeople, PeopleKeeps
  <2>2. CASE part = "quota" /\ part' = "quota" /\ Quota!Next
    BY <2>2, QuotaIsPeople, PeopleKeeps
  <2>3. CASE UNCHANGED <<part, peopleVars>>
    BY <2>3, PeopleIdle
  <2>4. QED
    BY <2>1, <2>2, <2>3, PeopleStepsOnly
<1>2. QED
  BY <1>1, PeopleStart, PTL DEF SuiteSpec

LEMMA QuotaFollows == PeopleInv => Quota!QuotaHeld /\ Sessions!QuotaHeld
BY DEF PeopleInv, Anyone!QuotaHeld, Quota!QuotaHeld, Sessions!QuotaHeld

\* A cut session has an older version than its account, so it is not usable.
LEMMA CutFollows == PeopleInv => Sessions!CutStaysOut
<1> SUFFICES ASSUME PeopleInv, NEW b \in cut, Sessions!Usable(b) PROVE FALSE
  BY DEF Sessions!CutStaysOut
<1>1. cookie[b] # Anyone!NoCookie /\ account[cookie[b].owner].version = cookie[b].version
  BY DEF Sessions!Usable, Sessions!NoCookie, Anyone!NoCookie
<1>2. b \in Browsers
  BY DEF PeopleInv, PeopleTyped
<1>3. PICK a \in People : a = cookie[b].owner /\ cookie[b].version \in Nat
  BY <1>1, <1>2 DEF PeopleInv, PeopleTyped
<1>4. cookie[b].version < account[a].version
  BY <1>1, <1>2, <1>3 DEF PeopleInv, CutIsOlder
<1>5. QED
  BY <1>1, <1>3, <1>4

-----------------------------------------------------------------------------
(* The local collector's database.                                          *)

StoredRun == [there : {TRUE}, status : {"success", "invalid"}, capture : Database!AllCaptures,
              day : SourceDays, urls : SUBSET SourceUrls, counted : BOOLEAN,
              review : Database!Reviews, seq : Nat]

BaseTyped ==
    /\ DOMAIN row = Database!Runs
    /\ \A r \in Database!Runs : row[r] # Database!NoRun => row[r] \in StoredRun
    /\ version \in [Database!Scopes -> Nat] /\ DOMAIN event = Requests
    /\ booted \in BOOLEAN /\ voided \subseteq Database!Runs

\* A run is counted if it is complete, and the totals are what counting gives.
BaseExact ==
    booted /\ voided = {} =>
        /\ \A r \in Database!Runs : Database!Exists(r) => row[r].counted = Database!Valid(r)
        /\ cited = Database!RefsOf(row)
        /\ total = Database!Total(cited) /\ unique = Database!Named(cited)

\* The inductive invariant of the database.
BaseInv == BaseTyped /\ BaseExact /\ Database!EventNamesRun /\ Database!SequencesDistinct

LEMMA BaseNumbers ==
    /\ IsFiniteSet(SourceUrls) /\ IsFiniteSet(Database!Runs) /\ Requests \cap Files = {}
    /\ StoredCaptures \subseteq Database!AllCaptures /\ "global" \notin SourceDays
<1>1. Database!StoreAssumption
  BY BaseAssumption
<1>2. IsFiniteSet(Requests)
  BY <1>1 DEF Database!StoreAssumption, Database!IsFiniteSet, IsFiniteSet
<1>3. IsFiniteSet(Files)
  BY <1>1 DEF Database!StoreAssumption, Database!IsFiniteSet, IsFiniteSet
<1>4. IsFiniteSet(SourceUrls)
  BY <1>1 DEF Database!StoreAssumption, Database!IsFiniteSet, IsFiniteSet
<1>5. IsFiniteSet(Database!Runs)
  BY <1>2, <1>3, FS_Union DEF Database!Runs
<1>6. QED
  BY <1>1, <1>4, <1>5 DEF Database!StoreAssumption, Database!AllCaptures

LEMMA CardIs == \A S : Database!Cardinality(S) = Cardinality(S)
BY DEF Database!Cardinality, Cardinality

\* How many complete runs list a source.
Listing(s, u) == {r \in Database!Runs : Database!Complete(s[r]) /\ u \in s[r].urls}

LEMMA RefsIs ==
    ASSUME NEW s
    PROVE  /\ Database!RefsOf(s) \in [SourceUrls -> Nat]
           /\ \A u \in SourceUrls : /\ Database!RefsOf(s)[u] = Cardinality(Listing(s, u))
                                    /\ IsFiniteSet(Listing(s, u))
<1>1. ASSUME NEW u PROVE IsFiniteSet(Listing(s, u)) /\ Cardinality(Listing(s, u)) \in Nat
  <2>1. Listing(s, u) \subseteq Database!Runs
    BY DEF Listing
  <2>2. QED
    BY <2>1, BaseNumbers, FS_Subset, FS_CardinalityType
<1>2. Database!RefsOf(s) = [u \in SourceUrls |-> Cardinality(Listing(s, u))]
  BY CardIs DEF Database!RefsOf, Listing
<1>3. QED
  BY <1>1, <1>2

LEMMA RefsSame ==
    ASSUME NEW s, NEW t,
           \A x \in Database!Runs :
              /\ Database!Complete(s[x]) <=> Database!Complete(t[x])
              /\ Database!Complete(s[x]) => t[x].urls = s[x].urls
    PROVE  Database!RefsOf(t) = Database!RefsOf(s)
<1>1. \A u : Listing(t, u) = Listing(s, u)
  BY DEF Listing
<1>2. \A u \in SourceUrls : Database!RefsOf(t)[u] = Database!RefsOf(s)[u]
  BY <1>1, RefsIs
<1>3. QED
  BY <1>2, RefsIs

\* A run that becomes complete is one more for each of its sources.
Adds(s, t, r) ==
    /\ \A x \in Database!Runs : x # r => t[x] = s[x]
    /\ ~ Database!Complete(s[r]) /\ Database!Complete(t[r])

LEMMA RefsAdd ==
    ASSUME NEW s, NEW t, NEW r \in Database!Runs, Adds(s, t, r)
    PROVE  \A u \in SourceUrls : Database!RefsOf(t)[u] =
              IF u \in t[r].urls THEN Database!RefsOf(s)[u] + 1 ELSE Database!RefsOf(s)[u]
<1> SUFFICES ASSUME NEW u \in SourceUrls
             PROVE  Database!RefsOf(t)[u] =
                       IF u \in t[r].urls THEN Database!RefsOf(s)[u] + 1 ELSE Database!RefsOf(s)[u]
  OBVIOUS
<1>1. CASE u \in t[r].urls
  <2>1. Listing(t, u) = Listing(s, u) \cup {r} /\ r \notin Listing(s, u)
    BY <1>1 DEF Listing, Adds
  <2>2. Cardinality(Listing(t, u)) = Cardinality(Listing(s, u)) + 1
    BY <2>1, RefsIs, FS_AddElement
  <2>3. QED
    BY <1>1, <2>2, RefsIs
<1>2. CASE u \notin t[r].urls
  <2>1. Listing(t, u) = Listing(s, u)
    BY <1>2 DEF Listing, Adds
  <2>2. QED
    BY <1>2, <2>1, RefsIs
<1>3. QED
  BY <1>1, <1>2

\* What Total and Named count.
Listed(f) == UNION {{u} \X (1..f[u]) : u \in SourceUrls}
Present(f) == {u \in SourceUrls : f[u] > 0}

LEMMA ListedFinite == ASSUME NEW f \in [SourceUrls -> Nat] PROVE IsFiniteSet(Listed(f))
<1>1. ASSUME NEW u \in SourceUrls PROVE IsFiniteSet({u} \X (1..f[u]))
  <2>1. f[u] \in Nat
    OBVIOUS
  <2>2. IsFiniteSet({u})
    BY FS_Singleton
  <2>3. IsFiniteSet(1..f[u])
    BY <2>1, FS_Interval
  <2>4. QED
    BY <2>2, <2>3, FS_Product
<1>2. PICK F : F = {{u} \X (1..f[u]) : u \in SourceUrls}
  OBVIOUS
<1>3. IsFiniteSet(F)
  <2>1. PICK g : g = [u \in SourceUrls |-> {u} \X (1..f[u])]
    OBVIOUS
  <2>2. F = {g[u] : u \in SourceUrls}
    BY <1>2, <2>1
  <2>3. g \in Surjection(SourceUrls, F)
    BY <2>1, <2>2 DEF Surjection
  <2>4. QED
    BY <2>3, BaseNumbers, FS_Surjection
<1>4. \A T \in F : IsFiniteSet(T)
  BY <1>1, <1>2
<1>5. IsFiniteSet(UNION F)
  BY <1>3, <1>4, FS_UNION
<1>6. QED
  BY <1>2, <1>5 DEF Listed

LEMMA TotalsAre ==
    ASSUME NEW f \in [SourceUrls -> Nat]
    PROVE  /\ Database!Total(f) = Cardinality(Listed(f)) /\ Database!Total(f) \in Nat
           /\ Database!Named(f) = Cardinality(Present(f)) /\ Database!Named(f) \in Nat
           /\ IsFiniteSet(Listed(f)) /\ IsFiniteSet(Present(f))
<1>1. Database!Total(f) = Cardinality(Listed(f))
  BY CardIs DEF Database!Total, Listed
<1>2. Database!Named(f) = Cardinality(Present(f))
  BY CardIs DEF Database!Named, Present
<1>3. IsFiniteSet(Listed(f))
  BY ListedFinite
<1>4. Present(f) \subseteq SourceUrls
  BY DEF Present
<1>5. IsFiniteSet(Present(f))
  BY <1>4, BaseNumbers, FS_Subset
<1>6. QED
  BY <1>1, <1>2, <1>3, <1>5, FS_CardinalityType

\* One more for each of some sources.
OneMore(f, g, U) ==
    /\ f \in [SourceUrls -> Nat] /\ g \in [SourceUrls -> Nat] /\ U \in SUBSET SourceUrls
    /\ \A u \in SourceUrls : g[u] = IF u \in U THEN f[u] + 1 ELSE f[u]

LEMMA TotalsAdd ==
    ASSUME NEW f, NEW g, NEW U, OneMore(f, g, U)
    PROVE  /\ Database!Total(g) = Database!Total(f) + Cardinality(U)
           /\ Database!Named(g) = Database!Named(f) + Cardinality({u \in U : f[u] = 0})
           /\ Cardinality(U) \in Nat /\ Cardinality({u \in U : f[u] = 0}) \in Nat
<1>0. /\ f \in [SourceUrls -> Nat] /\ g \in [SourceUrls -> Nat] /\ U \in SUBSET SourceUrls
      /\ \A u \in SourceUrls : g[u] = IF u \in U THEN f[u] + 1 ELSE f[u]
  BY DEF OneMore
<1>1. PICK N : N = {<<u, f[u] + 1>> : u \in U}
  OBVIOUS
<1>2. PICK Z : Z = {u \in U : f[u] = 0}
  OBVIOUS
<1>3. IsFiniteSet(U) /\ Cardinality(U) \in Nat
  BY <1>0, BaseNumbers, FS_Subset, FS_CardinalityType
<1>4. Z \subseteq U
  BY <1>2
<1>5. IsFiniteSet(Z) /\ Cardinality(Z) \in Nat
  BY <1>3, <1>4, FS_Subset, FS_CardinalityType
<1>6. IsFiniteSet(N) /\ Cardinality(N) = Cardinality(U)
  <2>1. PICK h : h = [u \in U |-> <<u, f[u] + 1>>]
    OBVIOUS
  <2>2. h \in Bijection(U, N)
    <3>1. h \in [U -> N] /\ \A x \in N : \E u \in U : h[u] = x
      BY <1>1, <2>1
    <3>2. \A u, v \in U : h[u] = h[v] => u = v
      BY <2>1
    <3>3. QED
      BY <3>1, <3>2 DEF Bijection, Injection, Surjection, IsInjective
  <2>3. ExistsBijection(U, N)
    BY <2>2 DEF ExistsBijection
  <2>4. QED
    BY <1>3, <2>3, FS_Bijection
<1>7. ASSUME NEW u \in SourceUrls
      PROVE  /\ u \in U => 1..g[u] = (1..f[u]) \cup {f[u] + 1} /\ f[u] + 1 \notin 1..f[u]
             /\ u \notin U => g[u] = f[u]
  <2>1. f[u] \in Nat /\ (u \in U => g[u] = f[u] + 1) /\ (u \notin U => g[u] = f[u])
    BY <1>0
  <2>2. QED
    BY <2>1
<1>8. Listed(g) = Listed(f) \cup N
  <2>1. ASSUME NEW x \in Listed(g) PROVE x \in Listed(f) \/ x \in N
    <3>1. PICK u \in SourceUrls : x \in {u} \X (1..g[u])
      BY <2>1 DEF Listed
    <3>2. x[1] = u /\ x[2] \in 1..g[u] /\ x = <<x[1], x[2]>>
      BY <3>1
    <3>3. CASE x[2] \in 1..f[u]
      <4>1. x \in {u} \X (1..f[u])
        BY <3>2, <3>3
      <4>2. QED
        BY <4>1 DEF Listed
    <3>4. CASE x[2] \notin 1..f[u]
      <4>1. u \in U /\ x[2] = f[u] + 1
        BY <1>7, <3>2, <3>4
      <4>2. QED
        BY <1>1, <3>2, <4>1
    <3>5. QED
      BY <3>3, <3>4
  <2>2. ASSUME NEW x \in Listed(f) PROVE x \in Listed(g)
    <3>1. PICK u \in SourceUrls : x \in {u} \X (1..f[u])
      BY <2>2 DEF Listed
    <3>2. x \in {u} \X (1..g[u])
      BY <1>0, <1>7, <3>1
    <3>3. QED
      BY <3>2 DEF Listed
  <2>3. ASSUME NEW x \in N PROVE x \in Listed(g)
    <3>1. PICK u \in U : x = <<u, f[u] + 1>>
      BY <1>1, <2>3
    <3>2. x \in {u} \X (1..g[u]) /\ u \in SourceUrls
      BY <1>0, <1>7, <3>1
    <3>3. QED
      BY <3>2 DEF Listed
  <2>4. QED
    BY <2>1, <2>2, <2>3
<1>9. Listed(f) \cap N = {}
  <2>1. ASSUME NEW x \in Listed(f), x \in N PROVE FALSE
    <3>1. PICK u \in SourceUrls : x \in {u} \X (1..f[u])
      BY <2>1 DEF Listed
    <3>2. PICK v \in U : x = <<v, f[v] + 1>>
      BY <1>1, <2>1
    <3>3. u = v /\ f[u] + 1 \in 1..f[u]
      BY <3>1, <3>2
    <3>4. QED
      BY <1>0, <1>7, <3>2, <3>3
  <2>2. QED
    BY <2>1
<1>10. Cardinality(Listed(g)) = Cardinality(Listed(f)) + Cardinality(U)
  <2>1. Cardinality(Listed(f) \cup N) = Cardinality(Listed(f)) + Cardinality(N) - Cardinality({})
    BY <1>0, <1>6, <1>9, ListedFinite, FS_Union
  <2>2. Cardinality({}) = 0 /\ Cardinality(Listed(f)) \in Nat
    BY <1>0, FS_EmptySet, TotalsAre
  <2>3. QED
    BY <1>3, <1>6, <1>8, <2>1, <2>2
<1>11. Present(g) = Present(f) \cup Z /\ Present(f) \cap Z = {}
  <2>1. ASSUME NEW u \in SourceUrls
        PROVE  /\ u \in Present(g) <=> u \in Present(f) \/ u \in Z
               /\ ~ (u \in Present(f) /\ u \in Z)
    <3>1. f[u] \in Nat /\ (u \in U => g[u] = f[u] + 1) /\ (u \notin U => g[u] = f[u])
      BY <1>0
    <3>2. /\ u \in Present(g) <=> g[u] > 0
          /\ u \in Present(f) <=> f[u] > 0
          /\ u \in Z <=> u \in U /\ f[u] = 0
      BY <1>2 DEF Present
    <3>3. QED
      BY <3>1, <3>2
  <2>2. Present(f) \subseteq SourceUrls /\ Present(g) \subseteq SourceUrls /\ Z \subseteq SourceUrls
    BY <1>0, <1>4 DEF Present
  <2>3. QED
    BY <2>1, <2>2
<1>12. Cardinality(Present(g)) = Cardinality(Present(f)) + Cardinality(Z)
  <2>1. IsFiniteSet(Present(f)) /\ Cardinality(Present(f)) \in Nat
    BY <1>0, TotalsAre
  <2>2. Cardinality(Present(f) \cup Z) = Cardinality(Present(f)) + Cardinality(Z) - Cardinality({})
    BY <1>5, <1>11, <2>1, FS_Union
  <2>3. Cardinality({}) = 0
    BY FS_EmptySet
  <2>4. QED
    BY <1>5, <1>11, <2>1, <2>2, <2>3
<1>13. QED
  BY <1>0, <1>2, <1>3, <1>5, <1>10, <1>12, TotalsAre

\* The last sequence number.
LEMMA LastIs ==
    ASSUME BaseTyped, NEW S \in SUBSET Database!Runs, \A r \in S : Database!Exists(r)
    PROVE  Database!Last(S) \in Nat /\ \A r \in S : row[r].seq <= Database!Last(S)
<1>1. \A r \in S : row[r].seq \in Nat
  <2>1. ASSUME NEW r \in S PROVE row[r].seq \in Nat
    <3>1. row[r] \in StoredRun
      BY DEF BaseTyped, Database!Exists, Database!NoRun
    <3>2. QED
      BY <3>1 DEF StoredRun
  <2>2. QED
    BY <2>1
<1>2. PICK N : N = {0} \cup {row[r].seq : r \in S}
  OBVIOUS
<1>3. N \subseteq Nat /\ N # {}
  BY <1>1, <1>2
<1>4. IsFiniteSet(N)
  <2>1. IsFiniteSet(S)
    BY BaseNumbers, FS_Subset
  <2>2. PICK g : g = [r \in S |-> row[r].seq]
    OBVIOUS
  <2>3. PICK T : T = {row[r].seq : r \in S}
    OBVIOUS
  <2>4. g \in Surjection(S, T)
    BY <2>2, <2>3 DEF Surjection
  <2>5. IsFiniteSet(T)
    BY <2>1, <2>4, FS_Surjection
  <2>6. IsFiniteSet(T \cup {0})
    BY <2>5, FS_AddElement
  <2>7. N = T \cup {0}
    BY <1>2, <2>3
  <2>8. QED
    BY <2>6, <2>7
<1>5. PICK m \in N : \A y \in N : y <= m
  BY <1>3, <1>4, Highest
<1>6. Database!Max(N) = m
  <2>1. \A y \in N : y \in Int /\ y <= m
    BY <1>3, <1>5
  <2>2. (CHOOSE x \in N : \A y \in N : x >= y) = m
    BY <2>1, HighestIs
  <2>3. QED
    BY <2>2 DEF Database!Max
<1>7. Database!Last(S) = m
  BY <1>2, <1>6 DEF Database!Last
<1>8. QED
  BY <1>2, <1>3, <1>5, <1>7

-----------------------------------------------------------------------------
\* The totals without the rows of a run.
LEMMA UncountIs ==
    ASSUME BaseTyped, NEW r \in Database!Runs, NEW mid, mid = [row EXCEPT ![r] = Database!NoRun],
           Database!Exists(r) => row[r].counted = Database!Valid(r),
           cited = Database!RefsOf(row), total = Database!Total(cited), unique = Database!Named(cited)
    PROVE  \E gone : /\ gone = Database!Uncount(r, Database!Totals)
                     /\ gone.refs = Database!RefsOf(mid) /\ gone.total = Database!Total(gone.refs)
                     /\ gone.unique = Database!Named(gone.refs)
<1>1. /\ mid[r] = Database!NoRun /\ \A x \in Database!Runs : x # r => row[x] = mid[x]
      /\ ~ Database!Complete(mid[r])
  BY DEF BaseTyped, Database!Complete, Database!NoRun
<1>2. PICK gone : gone = Database!Uncount(r, Database!Totals)
  OBVIOUS
<1>3. CASE ~ (Database!Exists(r) /\ row[r].counted)
  <2>1. gone.refs = cited /\ gone.total = total /\ gone.unique = unique
    BY <1>2, <1>3 DEF Database!Uncount, Database!Totals
  <2>2. ~ Database!Complete(row[r])
    BY <1>3 DEF Database!Complete, Database!Exists, Database!Valid
  <2>3. Database!RefsOf(mid) = Database!RefsOf(row)
    BY <1>1, <2>2, RefsSame
  <2>4. QED
    BY <1>2, <2>1, <2>3
<1>4. CASE Database!Exists(r) /\ row[r].counted
  <2>1. PICK f, U : f = Database!RefsOf(mid) /\ U = row[r].urls
    OBVIOUS
  <2>2. f \in [SourceUrls -> Nat] /\ cited \in [SourceUrls -> Nat] /\ U \in SUBSET SourceUrls
    <3>1. f \in [SourceUrls -> Nat] /\ cited \in [SourceUrls -> Nat]
      BY <2>1, RefsIs
    <3>2. row[r] \in StoredRun
      BY <1>4 DEF BaseTyped, Database!Exists, Database!NoRun
    <3>3. U \in SUBSET SourceUrls
      BY <2>1, <3>2 DEF StoredRun
    <3>4. QED
      BY <3>1, <3>3
  <2>3. Database!Complete(row[r])
    BY <1>4 DEF Database!Valid
  <2>4. \A u \in SourceUrls : cited[u] = IF u \in U THEN f[u] + 1 ELSE f[u]
    <3>1. \A u \in SourceUrls : Database!RefsOf(row)[u] =
             IF u \in row[r].urls THEN Database!RefsOf(mid)[u] + 1 ELSE Database!RefsOf(mid)[u]
      <4>1. Adds(mid, row, r)
        BY <1>1, <2>3 DEF Adds
      <4>2. QED
        BY <4>1, RefsAdd
    <3>2. QED
      BY <2>1, <3>1
  <2>5. PICK Z : Z = {u \in U : f[u] = 0}
    OBVIOUS
  <2>6. /\ total = Database!Total(f) + Cardinality(U) /\ unique = Database!Named(f) + Cardinality(Z)
        /\ Cardinality(U) \in Nat /\ Cardinality(Z) \in Nat
        /\ Database!Total(f) \in Nat /\ Database!Named(f) \in Nat
    <3>1. OneMore(f, cited, U)
      BY <2>2, <2>4 DEF OneMore
    <3>2. /\ Database!Total(cited) = Database!Total(f) + Cardinality(U)
          /\ Database!Named(cited) = Database!Named(f) + Cardinality({u \in U : f[u] = 0})
          /\ Cardinality(U) \in Nat /\ Cardinality({u \in U : f[u] = 0}) \in Nat
      BY <3>1, TotalsAdd
    <3>3. Database!Total(f) \in Nat /\ Database!Named(f) \in Nat
      BY <2>2, TotalsAre
    <3>4. QED
      BY <2>5, <3>2, <3>3
  <2>7. {u \in U : cited[u] = 1} = Z
    <3>1. ASSUME NEW u \in U PROVE cited[u] = 1 <=> f[u] = 0
      <4>1. cited[u] = f[u] + 1 /\ f[u] \in Nat
        BY <2>2, <2>4
      <4>2. QED
        BY <4>1
    <3>2. QED
      BY <2>5, <3>1
  <2>8. /\ gone.refs = [u \in SourceUrls |-> IF u \in U THEN Database!AtLeastZero(cited[u] - 1) ELSE cited[u]]
        /\ gone.total = Database!AtLeastZero(total - Cardinality(U))
        /\ gone.unique = Database!AtLeastZero(unique - Cardinality(Z))
    <3>1. /\ gone.refs = [u \in SourceUrls |-> IF u \in U THEN Database!AtLeastZero(cited[u] - 1) ELSE cited[u]]
          /\ gone.total = Database!AtLeastZero(total - Database!Cardinality(U))
          /\ gone.unique = Database!AtLeastZero(unique - Database!Cardinality({u \in U : cited[u] = 1}))
      BY <1>2, <1>4, <2>1 DEF Database!Uncount, Database!Totals
    <3>2. QED
      BY <2>7, <3>1, CardIs
  <2>9. gone.total = Database!Total(f)
    <3>1. total - Cardinality(U) = Database!Total(f)
      BY <2>6
    <3>2. QED
      BY <2>6, <2>8, <3>1 DEF Database!AtLeastZero
  <2>10. gone.unique = Database!Named(f)
    <3>1. unique - Cardinality(Z) = Database!Named(f)
      BY <2>6
    <3>2. QED
      BY <2>6, <2>8, <3>1 DEF Database!AtLeastZero
  <2>11. \A u \in SourceUrls : gone.refs[u] = f[u]
    <3>1. ASSUME NEW u \in SourceUrls PROVE gone.refs[u] = f[u]
      <4>1. f[u] \in Nat /\ cited[u] = IF u \in U THEN f[u] + 1 ELSE f[u]
        BY <2>2, <2>4
      <4>2. gone.refs[u] = IF u \in U THEN Database!AtLeastZero(cited[u] - 1) ELSE cited[u]
        BY <2>8
      <4>3. QED
        BY <4>1, <4>2 DEF Database!AtLeastZero
    <3>2. QED
      BY <3>1
  <2>12. gone.refs = f
    BY <2>2, <2>8, <2>11
  <2>13. QED
    BY <1>2, <2>1, <2>9, <2>10, <2>12
<1>5. QED
  BY <1>3, <1>4

LEMMA RewriteIs ==
    ASSUME BaseTyped, NEW r \in Database!Runs, NEW new \in StoredRun,
           new.counted = Database!Complete(new), Database!Rewrite(r, new),
           Database!Exists(r) => row[r].counted = Database!Valid(r),
           cited = Database!RefsOf(row), total = Database!Total(cited), unique = Database!Named(cited)
    PROVE  cited' = Database!RefsOf(row') /\ total' = Database!Total(cited')
           /\ unique' = Database!Named(cited')
<1>1. PICK mid : mid = [row EXCEPT ![r] = Database!NoRun]
  OBVIOUS
<1>2. PICK gone : /\ gone = Database!Uncount(r, Database!Totals)
                  /\ gone.refs = Database!RefsOf(mid) /\ gone.total = Database!Total(gone.refs)
                  /\ gone.unique = Database!Named(gone.refs)
  BY <1>1, UncountIs
<1>3. /\ ~ Database!Complete(mid[r]) /\ row' = [row EXCEPT ![r] = new] /\ row'[r] = new
      /\ \A x \in Database!Runs : x # r => row'[x] = mid[x]
  BY <1>1 DEF BaseTyped, Database!Complete, Database!NoRun, Database!Rewrite
<1>4. CASE ~ new.counted
  <2>1. cited' = gone.refs /\ total' = gone.total /\ unique' = gone.unique
    BY <1>2, <1>4 DEF Database!Rewrite, Database!SetTotals
  <2>2. ~ Database!Complete(row'[r])
    BY <1>3, <1>4
  <2>3. Database!RefsOf(row') = Database!RefsOf(mid)
    BY <1>3, <2>2, RefsSame
  <2>4. QED
    BY <1>2, <2>1, <2>3
<1>5. CASE new.counted
  <2>1. PICK f, U : f = Database!RefsOf(mid) /\ U = new.urls
    OBVIOUS
  <2>2. PICK g : g = Database!RefsOf(row')
    OBVIOUS
  <2>3. f \in [SourceUrls -> Nat] /\ g \in [SourceUrls -> Nat] /\ U \in SUBSET SourceUrls
    BY <2>1, <2>2, RefsIs DEF StoredRun
  <2>4. Database!Complete(row'[r]) /\ row'[r].urls = U
    BY <1>3, <1>5, <2>1
  <2>5. \A u \in SourceUrls : g[u] = IF u \in U THEN f[u] + 1 ELSE f[u]
    <3>1. \A u \in SourceUrls : Database!RefsOf(row')[u] =
             IF u \in row'[r].urls THEN Database!RefsOf(mid)[u] + 1 ELSE Database!RefsOf(mid)[u]
      <4>1. Adds(mid, row', r)
        BY <1>3, <2>4 DEF Adds
      <4>2. QED
        BY <4>1, RefsAdd
    <3>2. QED
      BY <2>1, <2>2, <2>4, <3>1
  <2>6. /\ Database!Total(g) = Database!Total(f) + Cardinality(U)
        /\ Database!Named(g) = Database!Named(f) + Cardinality({u \in U : f[u] = 0})
    <3>1. OneMore(f, g, U)
      BY <2>3, <2>5 DEF OneMore
    <3>2. QED
      BY <3>1, TotalsAdd
  <2>7. /\ cited' = [u \in SourceUrls |-> IF u \in U THEN gone.refs[u] + 1 ELSE gone.refs[u]]
        /\ total' = gone.total + Database!Cardinality(U)
        /\ unique' = gone.unique + Database!Cardinality({u \in U : gone.refs[u] = 0})
    BY <1>2, <1>5, <2>1 DEF Database!Rewrite, Database!SetTotals, Database!Count
  <2>8. /\ cited' = [u \in SourceUrls |-> IF u \in U THEN f[u] + 1 ELSE f[u]]
        /\ total' = Database!Total(f) + Cardinality(U)
        /\ unique' = Database!Named(f) + Cardinality({u \in U : f[u] = 0})
    BY <1>2, <2>1, <2>7, CardIs
  <2>9. cited' = g
    BY <2>3, <2>5, <2>8
  <2>10. QED
    BY <2>2, <2>6, <2>8, <2>9
<1>6. QED
  BY <1>4, <1>5
LEMMA BaseSteps ==
    [SuiteNext]_suiteVars =>
        \/ part = "database" /\ part' = "database" /\ Database!Next
        \/ UNCHANGED <<part, baseVars>>
BY DEF SuiteNext, suiteVars, DatabaseStep, LockStep, ArchiveStep, LegacyStep,
       ContentStep, EditStep, VisitStep, SessionsStep, QuotaStep, ReviewsStep,
       OnlyBase, OnlyLock, OnlyArchive, OnlyContent, OnlyReport, OnlyPeople, OnlyReview

LEMMA BaseStart == SuiteInit => BaseInv
<1> SUFFICES ASSUME SuiteInit PROVE BaseInv
  OBVIOUS
<1>1. Database!Init
  BY DEF SuiteInit
<1>2. PICK f \in Files, old \in Database!Legacy :
         row = [r \in Database!Runs |-> IF r = f THEN old ELSE Database!NoRun]
  BY <1>1 DEF Database!Init
<1>3. ASSUME old # Database!NoRun PROVE old \in StoredRun
  <2>1. old \in [there : {TRUE}, status : {"success", "invalid"},
                 capture : StoredCaptures \ Database!Refused, day : SourceDays, urls : {SourceUrls},
                 counted : {TRUE}, review : {"none"}, seq : {1}]
    BY <1>3 DEF Database!Legacy
  <2>2. /\ old = [there |-> old.there, status |-> old.status, capture |-> old.capture, day |-> old.day,
                  urls |-> old.urls, counted |-> old.counted, review |-> old.review, seq |-> old.seq]
        /\ old.there = TRUE /\ old.status \in {"success", "invalid"}
        /\ old.capture \in StoredCaptures /\ old.day \in SourceDays /\ old.urls = SourceUrls
        /\ old.counted = TRUE /\ old.review = "none" /\ old.seq = 1
    BY <2>1
  <2>3. old.capture \in Database!AllCaptures
    BY <2>2, BaseNumbers
  <2>4. old.review \in Database!Reviews
    BY <2>2 DEF Database!Reviews
  <2>5. old.seq \in Nat
    BY <2>2
  <2>6. old.urls \in SUBSET SourceUrls
    BY <2>2
  <2>7. old.counted \in BOOLEAN
    BY <2>2
  <2>8. QED
    BY <2>2, <2>3, <2>4, <2>5, <2>6, <2>7 DEF StoredRun
<1>4. BaseTyped
  BY <1>1, <1>2, <1>3 DEF Database!Init, BaseTyped
<1>5. BaseExact
  BY <1>1 DEF Database!Init, BaseExact
<1>6. \A q \in Requests : row[q] = Database!NoRun /\ event[q] = "none"
  BY <1>1, <1>2, BaseNumbers DEF Database!Init, Database!Runs
<1>7. Database!EventNamesRun /\ Database!SequencesDistinct
  BY <1>6 DEF Database!EventNamesRun, Database!SequencesDistinct, Database!Exists, Database!NoRun
<1>8. QED
  BY <1>4, <1>5, <1>7 DEF BaseInv

\* A commit raises the versions of its scopes.
LEMMA BumpIs ==
    ASSUME BaseTyped, NEW days \in SUBSET SourceDays, Database!Bump(days)
    PROVE  /\ version' \in [Database!Scopes -> Nat]
           /\ \A s \in days \cup {"global"} : version'[s] > version[s]
<1>1. \A s \in Database!Scopes : version[s] \in Nat
  BY DEF BaseTyped
<1>2. version' = [s \in Database!Scopes |-> IF s \in days \cup {"global"} THEN version[s] + 1 ELSE version[s]]
  BY DEF Database!Bump
<1>3. days \cup {"global"} \subseteq Database!Scopes
  BY DEF Database!Scopes
<1>4. \A s \in days \cup {"global"} : version'[s] = version[s] + 1
  BY <1>2, <1>3
<1>5. QED
  BY <1>1, <1>2, <1>3, <1>4

\* Runs that are changed without becoming others.
SameRuns ==
    /\ UNCHANGED event /\ DOMAIN row' = Database!Runs
    /\ \A r \in Database!Runs :
          /\ Database!Exists(r)' <=> Database!Exists(r)
          /\ Database!Exists(r) => row'[r].seq = row[r].seq

LEMMA SameRunsKeep ==
    BaseInv /\ SameRuns => Database!EventNamesRun' /\ Database!SequencesDistinct'
<1> SUFFICES ASSUME BaseInv, SameRuns PROVE Database!EventNamesRun' /\ Database!SequencesDistinct'
  OBVIOUS
<1>1. Requests \subseteq Database!Runs
  BY DEF Database!Runs
<1>2. Database!EventNamesRun'
  BY <1>1 DEF BaseInv, SameRuns, Database!EventNamesRun
<1>3. Database!SequencesDistinct'
  BY <1>1 DEF BaseInv, SameRuns, Database!SequencesDistinct
<1>4. QED
  BY <1>2, <1>3

\* A run is written anew.
Anew(new, d, seq) ==
    \E capture \in StoredCaptures, state \in {"success", "invalid"}, urls \in SUBSET SourceUrls :
        new = Database!NewRun(capture, state, d, urls, seq)

Sound(new, d, seq) ==
    /\ new \in StoredRun /\ new.counted = Database!Complete(new) /\ new.there = TRUE
    /\ new.seq = seq /\ new.day = d

LEMMA NewRunIs ==
    ASSUME NEW new, NEW d, NEW seq, d \in SourceDays /\ seq \in Nat /\ Anew(new, d, seq)
    PROVE  Sound(new, d, seq)
<1>0. PICK capture \in StoredCaptures, state \in {"success", "invalid"}, urls \in SUBSET SourceUrls :
         new = Database!NewRun(capture, state, d, urls, seq)
  BY DEF Anew
<1>1. PICK run : run = [there |-> TRUE, status |-> state, capture |-> capture, day |-> d,
                urls |-> urls, counted |-> FALSE, review |-> "ai_pending", seq |-> seq]
  OBVIOUS
<1>2. PICK whole \in BOOLEAN : whole = Database!Complete(run)
  BY <1>1 DEF Database!Complete
<1>3. new = [run EXCEPT !.counted = whole]
  BY <1>0, <1>1, <1>2 DEF Database!NewRun
<1>4. /\ new.there = run.there /\ new.status = run.status /\ new.capture = run.capture
      /\ new.counted = whole
  BY <1>1, <1>3
<1>5. Database!Complete(new) = Database!Complete(run)
  BY <1>4 DEF Database!Complete
<1>6. new.seq = seq /\ new.day = d /\ new.there = TRUE
  BY <1>1, <1>3
<1>7. capture \in Database!AllCaptures
  BY BaseNumbers
<1>8. new = [there |-> TRUE, status |-> state, capture |-> capture, day |-> d,
             urls |-> urls, counted |-> whole, review |-> "ai_pending", seq |-> seq]
  BY <1>1, <1>3
<1>9. new \in StoredRun
  BY <1>7, <1>8 DEF StoredRun, Database!Reviews
<1>10. QED
  BY <1>2, <1>4, <1>5, <1>6, <1>9 DEF Sound

LEMMA RewriteKeeps ==
    ASSUME BaseInv, NEW r \in Database!Runs, NEW new \in StoredRun, NEW days \in SUBSET SourceDays,
           new.counted = Database!Complete(new), Database!Rewrite(r, new), Database!Bump(days),
           UNCHANGED <<booted, voided>>, DOMAIN event' = Requests
    PROVE  /\ BaseTyped' /\ BaseExact'
           /\ row'[r] = new /\ \A x \in Database!Runs : x # r => row'[x] = row[x]
<1>1. /\ DOMAIN row' = Database!Runs /\ row'[r] = new
      /\ \A x \in Database!Runs : x # r => row'[x] = row[x]
  BY DEF BaseInv, BaseTyped, Database!Rewrite
<1>2. version' \in [Database!Scopes -> Nat]
  BY BumpIs DEF BaseInv
<1>3. BaseTyped'
  BY <1>1, <1>2 DEF BaseInv, BaseTyped
<1>4. BaseExact'
  <2> SUFFICES ASSUME booted, voided = {}
               PROVE  /\ \A x \in Database!Runs : Database!Exists(x)' => row'[x].counted = Database!Valid(x)'
                      /\ cited' = Database!RefsOf(row') /\ total' = Database!Total(cited')
                      /\ unique' = Database!Named(cited')
    BY DEF BaseExact
  <2>1. /\ \A x \in Database!Runs : Database!Exists(x) => row[x].counted = Database!Valid(x)
        /\ cited = Database!RefsOf(row) /\ total = Database!Total(cited) /\ unique = Database!Named(cited)
    BY DEF BaseInv, BaseExact
  <2>2. ASSUME NEW x \in Database!Runs, Database!Exists(x)'
        PROVE  row'[x].counted = Database!Valid(x)'
    BY <1>1, <2>1, <2>2 DEF Database!Exists, Database!Valid
  <2>3. BaseTyped /\ (Database!Exists(r) => row[r].counted = Database!Valid(r))
    BY <2>1 DEF BaseInv
  <2>4. /\ cited' = Database!RefsOf(row') /\ total' = Database!Total(cited')
        /\ unique' = Database!Named(cited')
    BY <2>1, <2>3, RewriteIs
  <2>5. QED
    BY <2>2, <2>4
<1>5. QED
  BY <1>1, <1>3, <1>4

LEMMA IngestKeeps == ASSUME BaseInv, NEW q \in Requests, Database!Ingest(q) PROVE BaseInv'
<1>1. PICK capture \in StoredCaptures, d \in SourceDays, urls \in SUBSET SourceUrls :
         /\ Database!Rewrite(q, Database!NewRun(capture, "success", d, urls, Database!Sequence(q)))
         /\ Database!Bump(Database!DaysOf(q, d))
  BY DEF Database!Ingest, Database!Sources
<1>2. /\ UNCHANGED <<booted, voided>> /\ DOMAIN event' = Requests /\ event'[q] = "stored"
      /\ \A x \in Requests : x # q => event'[x] = event[x]
  BY DEF Database!Ingest, BaseInv, BaseTyped
<1>3. q \in Database!Runs /\ q \notin Files /\ Requests \subseteq Database!Runs
  BY BaseNumbers DEF Database!Runs
<1>4. PICK seq \in Nat : /\ seq = Database!Sequence(q)
                         /\ Database!Exists(q) => seq = row[q].seq
                         /\ ~ Database!Exists(q) =>
                               \A x \in Database!Runs : Database!Exists(x) => row[x].seq < seq
  <2>1. CASE Database!Exists(q)
    <3>1. row[q] \in StoredRun
      BY <1>3, <2>1 DEF BaseInv, BaseTyped, Database!Exists, Database!NoRun
    <3>2. row[q].seq \in Nat /\ Database!Sequence(q) = row[q].seq
      BY <2>1, <3>1 DEF StoredRun, Database!Sequence
    <3>3. QED
      BY <2>1, <3>2
  <2>2. CASE ~ Database!Exists(q)
    <3>1. PICK S : S = {r \in Database!Runs : Database!Exists(r)}
      OBVIOUS
    <3>2. Database!Last(S) \in Nat /\ \A r \in S : row[r].seq <= Database!Last(S)
      BY <3>1, LastIs DEF BaseInv
    <3>3. Database!Sequence(q) = 1 + Database!Last(S)
      BY <2>2, <3>1 DEF Database!Sequence, Database!NextSequence
    <3>4. \A x \in S : row[x].seq \in Nat
      <4>1. ASSUME NEW x \in S PROVE row[x].seq \in Nat
        <5>1. row[x] \in StoredRun
          BY <3>1 DEF BaseInv, BaseTyped, Database!Exists, Database!NoRun
        <5>2. QED
          BY <5>1 DEF StoredRun
      <4>2. QED
        BY <4>1
    <3>5. PICK n \in Nat : n = Database!Sequence(q) /\ n = 1 + Database!Last(S)
      BY <3>2, <3>3
    <3>6. \A x \in S : row[x].seq < n
      BY <3>2, <3>4, <3>5
    <3>7. \A x \in Database!Runs : Database!Exists(x) => row[x].seq < n
      BY <3>1, <3>6
    <3>8. QED
      BY <2>2, <3>5, <3>7
  <2>3. QED
    BY <2>1, <2>2
<1>5. PICK new : new = Database!NewRun(capture, "success", d, urls, seq)
  OBVIOUS
<1>6. new \in StoredRun /\ new.counted = Database!Complete(new) /\ new.there = TRUE /\ new.seq = seq
      /\ new.day = d
  <2>1. Anew(new, d, seq)
    BY <1>5 DEF Anew
  <2>2. Sound(new, d, seq)
    BY <2>1, NewRunIs
  <2>3. QED
    BY <2>2 DEF Sound
<1>7. PICK days : days = Database!DaysOf(q, d)
  OBVIOUS
<1>8. days \in SUBSET SourceDays
  <2>1. Database!Exists(q) => row[q] \in StoredRun
    BY <1>3 DEF BaseInv, BaseTyped, Database!Exists, Database!NoRun
  <2>2. Database!Exists(q) => row[q].day \in SourceDays
    BY <2>1 DEF StoredRun
  <2>3. QED
    BY <1>7, <2>2 DEF Database!DaysOf
<1>9. Database!Rewrite(q, new) /\ Database!Bump(days)
  BY <1>1, <1>4, <1>5, <1>7
<1>10. /\ BaseTyped' /\ BaseExact'
       /\ row'[q] = new /\ \A x \in Database!Runs : x # q => row'[x] = row[x]
  BY <1>2, <1>3, <1>6, <1>8, <1>9, RewriteKeeps
<1>11. \A x \in Database!Runs : Database!Exists(x)' = IF x = q THEN TRUE ELSE Database!Exists(x)
  BY <1>6, <1>10 DEF Database!Exists
<1>12. Database!EventNamesRun'
  <2>1. ASSUME NEW x \in Requests PROVE event'[x] = "stored" <=> Database!Exists(x)'
    BY <1>2, <1>3, <1>11 DEF BaseInv, Database!EventNamesRun
  <2>2. QED
    BY <2>1 DEF Database!EventNamesRun
<1>13. Database!SequencesDistinct'
  <2>1. ASSUME NEW x \in Requests, NEW y \in Requests, Database!Exists(x)', Database!Exists(y)',
               row'[x].seq = row'[y].seq
        PROVE  x = y
    <3>1. CASE x # q /\ y # q
      <4>1. Database!Exists(x) /\ Database!Exists(y) /\ row[x].seq = row[y].seq
        BY <1>3, <1>10, <1>11, <2>1, <3>1
      <4>2. QED
        BY <4>1 DEF BaseInv, Database!SequencesDistinct
    <3>2. ASSUME NEW z \in Requests, z # q, Database!Exists(z), row[z].seq = seq PROVE FALSE
      <4>1. CASE Database!Exists(q)
        BY <1>4, <3>2, <4>1 DEF BaseInv, Database!SequencesDistinct
      <4>2. CASE ~ Database!Exists(q)
        BY <1>3, <1>4, <3>2, <4>2
      <4>3. QED
        BY <4>1, <4>2
    <3>3. ASSUME NEW z \in Requests, z # q, Database!Exists(z)' PROVE row'[z].seq # seq
      BY <1>3, <1>10, <1>11, <3>2, <3>3
    <3>4. row'[q].seq = seq
      BY <1>6, <1>10
    <3>5. QED
      BY <2>1, <3>1, <3>3, <3>4
  <2>2. QED
    BY <2>1 DEF Database!SequencesDistinct
<1>14. QED
  BY <1>10, <1>12, <1>13 DEF BaseInv

LEMMA SyncFileKeeps == ASSUME BaseInv, NEW f \in Files, Database!SyncFile(f) PROVE BaseInv'
<1>1. PICK capture \in StoredCaptures, d \in SourceDays, urls \in SUBSET SourceUrls,
           state \in {"success", "invalid"} :
         /\ Database!Rewrite(f, Database!NewRun(capture, state, d, urls, 1))
         /\ Database!Bump({d})
  BY DEF Database!SyncFile, Database!Sources
<1>2. UNCHANGED <<booted, event, voided>>
  BY DEF Database!SyncFile
<1>3. f \in Database!Runs /\ f \notin Requests
  BY BaseNumbers DEF Database!Runs
<1>4. PICK new : new = Database!NewRun(capture, state, d, urls, 1)
  OBVIOUS
<1>5. new \in StoredRun /\ new.counted = Database!Complete(new)
  <2>1. Anew(new, d, 1)
    BY <1>4 DEF Anew
  <2>2. Sound(new, d, 1)
    BY <2>1, NewRunIs
  <2>3. QED
    BY <2>2 DEF Sound
<1>6. {d} \in SUBSET SourceDays /\ DOMAIN event' = Requests
  BY <1>2 DEF BaseInv, BaseTyped
<1>7. Database!Rewrite(f, new) /\ Database!Bump({d})
  BY <1>1, <1>4
<1>8. BaseTyped' /\ BaseExact' /\ \A x \in Database!Runs : x # f => row'[x] = row[x]
  BY <1>2, <1>3, <1>5, <1>6, <1>7, RewriteKeeps
<1>9. \A x \in Requests : row'[x] = row[x]
  BY <1>3, <1>8 DEF Database!Runs
<1>10. Database!EventNamesRun' /\ Database!SequencesDistinct'
  <2>1. Database!EventNamesRun'
    BY <1>2, <1>9 DEF BaseInv, Database!EventNamesRun, Database!Exists
  <2>2. Database!SequencesDistinct'
    BY <1>9 DEF BaseInv, Database!SequencesDistinct, Database!Exists
  <2>3. QED
    BY <2>1, <2>2
<1>11. QED
  BY <1>8, <1>10 DEF BaseInv

\* Fields of stored runs are changed, of the same runs.
LEMMA RunOf ==
    ASSUME BaseTyped, NEW r \in Database!Runs
    PROVE  /\ Database!Exists(r) <=> row[r] # Database!NoRun
           /\ Database!Exists(r) => row[r] \in StoredRun
<1>1. row[r] \in StoredRun => row[r].there = TRUE
  BY DEF StoredRun
<1>2. Database!NoRun.there = FALSE
  BY DEF Database!NoRun
<1>3. QED
  BY <1>1, <1>2 DEF BaseTyped, Database!Exists

Invalidates(S, days) ==
    /\ S \in SUBSET Database!Runs /\ S # {} /\ \A r \in S : Database!Exists(r)
    /\ days \in SUBSET SourceDays /\ Database!Bump(days) /\ UNCHANGED <<booted, event>>
    /\ row' = [r \in Database!Runs |-> IF r \in S THEN [row[r] EXCEPT !.status = "invalid"] ELSE row[r]]
    /\ voided' = voided \cup S

LEMMA InvalidKeeps == ASSUME BaseInv, NEW S, NEW days, Invalidates(S, days) PROVE BaseInv'
<1>0. /\ S \in SUBSET Database!Runs /\ S # {} /\ \A r \in S : Database!Exists(r)
      /\ days \in SUBSET SourceDays /\ Database!Bump(days) /\ UNCHANGED <<booted, event>>
      /\ row' = [r \in Database!Runs |-> IF r \in S THEN [row[r] EXCEPT !.status = "invalid"] ELSE row[r]]
      /\ voided' = voided \cup S
  BY DEF Invalidates
<1>1. ASSUME NEW r \in S
      PROVE  row'[r] \in StoredRun /\ row'[r].there = TRUE /\ row'[r].seq = row[r].seq
  <2>1. row[r] \in StoredRun
    BY <1>0, RunOf DEF BaseInv
  <2>2. row'[r] = [row[r] EXCEPT !.status = "invalid"]
    BY <1>0
  <2>3. QED
    BY <2>1, <2>2 DEF StoredRun
<1>2. \A r \in Database!Runs : r \notin S => row'[r] = row[r]
  BY <1>0
<1>3. SameRuns
  BY <1>0, <1>1, <1>2 DEF SameRuns, Database!Exists
<1>4. version' \in [Database!Scopes -> Nat]
  BY <1>0, BumpIs DEF BaseInv
<1>5. voided' # {} /\ voided' \subseteq Database!Runs
  BY <1>0 DEF BaseInv, BaseTyped
<1>6. DOMAIN row' = Database!Runs /\ \A r \in Database!Runs : row'[r] # Database!NoRun => row'[r] \in StoredRun
  BY <1>0, <1>1, <1>2 DEF BaseInv, BaseTyped
<1>7. BaseTyped'
  BY <1>0, <1>4, <1>5, <1>6 DEF BaseInv, BaseTyped
<1>8. BaseExact'
  BY <1>5 DEF BaseExact
<1>9. QED
  BY <1>3, <1>7, <1>8, SameRunsKeep DEF BaseInv

LEMMA ReviewRunKeeps == ASSUME BaseInv, NEW r \in Database!Runs, Database!Review(r) PROVE BaseInv'
<1>1. PICK to \in {"ai_pending", "ai_verified"} :
         Database!Update(r, [row[r] EXCEPT !.review = to]) /\ UNCHANGED voided
  BY DEF Database!Review
<1>2. PICK new : new = [row[r] EXCEPT !.review = to]
  OBVIOUS
<1>3. /\ Database!Exists(r) /\ row' = [row EXCEPT ![r] = new] /\ Database!Bump({row[r].day})
      /\ UNCHANGED <<booted, event, cited, total, unique, voided>>
  BY <1>1, <1>2 DEF Database!Update, Database!stats
<1>4. row[r] \in StoredRun
  BY <1>3, RunOf DEF BaseInv
<1>5. /\ new \in StoredRun /\ new.there = row[r].there /\ new.seq = row[r].seq /\ new.urls = row[r].urls
      /\ new.counted = row[r].counted /\ new.status = row[r].status /\ new.capture = row[r].capture
  <2>1. new \in StoredRun
    BY <1>2, <1>4 DEF StoredRun, Database!Reviews
  <2>2. QED
    BY <1>2, <1>4, <2>1 DEF StoredRun
<1>6. row[r].day \in SourceDays
  BY <1>4 DEF StoredRun
<1>7. version' \in [Database!Scopes -> Nat]
  BY <1>3, <1>6, BumpIs DEF BaseInv
<1>8. DOMAIN row' = Database!Runs /\ row'[r] = new /\ \A x \in Database!Runs : x # r => row'[x] = row[x]
  BY <1>3 DEF BaseInv, BaseTyped
<1>9. BaseTyped'
  BY <1>3, <1>5, <1>7, <1>8 DEF BaseInv, BaseTyped
<1>10. \A x \in Database!Runs : /\ Database!Complete(row[x]) <=> Database!Complete(row'[x])
                                /\ Database!Complete(row[x]) => row'[x].urls = row[x].urls
                                /\ Database!Exists(x)' <=> Database!Exists(x)
                                /\ Database!Exists(x) => row'[x].counted = row[x].counted
                                /\ Database!Exists(x) => row'[x].seq = row[x].seq
  <2>1. ASSUME NEW x \in Database!Runs, x # r
        PROVE  row'[x] = row[x]
    BY <1>8, <2>1
  <2>2. /\ Database!Complete(row[r]) <=> Database!Complete(row'[r])
        /\ row'[r].urls = row[r].urls /\ row'[r].counted = row[r].counted /\ row'[r].seq = row[r].seq
        /\ Database!Exists(r)' <=> Database!Exists(r)
    BY <1>5, <1>8 DEF Database!Complete, Database!Exists
  <2>3. QED
    BY <2>1, <2>2 DEF Database!Exists
<1>11. Database!RefsOf(row') = Database!RefsOf(row)
  BY <1>10, RefsSame
<1>12. BaseExact'
  <2> SUFFICES ASSUME booted', voided' = {}
               PROVE  /\ \A x \in Database!Runs : Database!Exists(x)' => row'[x].counted = Database!Valid(x)'
                      /\ cited' = Database!RefsOf(row') /\ total' = Database!Total(cited')
                      /\ unique' = Database!Named(cited')
    BY DEF BaseExact
  <2>1. /\ \A x \in Database!Runs : Database!Exists(x) => row[x].counted = Database!Valid(x)
        /\ cited = Database!RefsOf(row) /\ total = Database!Total(cited) /\ unique = Database!Named(cited)
    BY <1>3 DEF BaseInv, BaseExact
  <2>2. ASSUME NEW x \in Database!Runs, Database!Exists(x)'
        PROVE  row'[x].counted = Database!Valid(x)'
    <3>1. Database!Exists(x) /\ row'[x].counted = row[x].counted
      BY <1>10, <2>2
    <3>2. row[x].counted = Database!Complete(row[x])
      BY <2>1, <3>1 DEF Database!Valid
    <3>3. Database!Complete(row'[x]) = Database!Complete(row[x])
      BY <1>10 DEF Database!Complete
    <3>4. QED
      BY <3>1, <3>2, <3>3 DEF Database!Valid
  <2>3. QED
    BY <1>3, <1>11, <2>1, <2>2
<1>13. SameRuns
  BY <1>3, <1>8, <1>10 DEF SameRuns
<1>14. QED
  BY <1>9, <1>12, <1>13, SameRunsKeep DEF BaseInv

LEMMA InvalidateKeeps == ASSUME BaseInv, NEW r \in Database!Runs, Database!Invalidate(r) PROVE BaseInv'
<1>1. /\ Database!Exists(r) /\ row' = [row EXCEPT ![r] = [row[r] EXCEPT !.status = "invalid"]]
      /\ Database!Bump({row[r].day}) /\ UNCHANGED <<booted, event>> /\ voided' = voided \cup {r}
  BY DEF Database!Invalidate, Database!Update
<1>2. row[r].day \in SourceDays
  BY <1>1, RunOf DEF BaseInv, StoredRun
<1>3. row' = [x \in Database!Runs |-> IF x \in {r} THEN [row[x] EXCEPT !.status = "invalid"] ELSE row[x]]
  BY <1>1 DEF BaseInv, BaseTyped
<1>4. Invalidates({r}, {row[r].day})
  BY <1>1, <1>2, <1>3 DEF Invalidates
<1>5. QED
  BY <1>4, InvalidKeeps

LEMMA RepairAnswersKeeps == ASSUME BaseInv, Database!RepairAnswers PROVE BaseInv'
<1>1. PICK empty : empty = {r \in Database!Runs : /\ Database!Exists(r) /\ row[r].status = "success"
                                                  /\ row[r].capture = "empty"}
  OBVIOUS
<1>2. PICK days : days = {row[r].day : r \in empty}
  OBVIOUS
<1>3. /\ empty # {} /\ Database!Bump(days) /\ UNCHANGED <<booted, event>> /\ voided' = voided \cup empty
      /\ row' = [r \in Database!Runs |-> IF r \in empty THEN [row[r] EXCEPT !.status = "invalid"] ELSE row[r]]
  BY <1>1, <1>2 DEF Database!RepairAnswers
<1>4. \A r \in empty : row[r].day \in SourceDays
  <2>1. ASSUME NEW r \in empty PROVE row[r].day \in SourceDays
    <3>1. row[r] \in StoredRun
      BY <1>1, RunOf DEF BaseInv
    <3>2. QED
      BY <3>1 DEF StoredRun
  <2>2. QED
    BY <2>1
<1>5. Invalidates(empty, days)
  BY <1>1, <1>2, <1>3, <1>4 DEF Invalidates
<1>6. QED
  BY <1>5, InvalidKeeps

LEMMA QuarantineKeeps == ASSUME BaseInv, NEW q \in Requests, Database!Quarantine(q) PROVE BaseInv'
<1>1. /\ event[q] # "stored" /\ event' = [event EXCEPT ![q] = "audit"]
      /\ UNCHANGED <<booted, row, cited, total, unique, version, voided>>
  BY DEF Database!Quarantine, Database!stats
<1>2. BaseTyped'
  BY <1>1 DEF BaseInv, BaseTyped
<1>3. BaseExact'
  <2>1. /\ Database!RefsOf(row)' = Database!RefsOf(row) /\ Database!Total(cited)' = Database!Total(cited)
        /\ Database!Named(cited)' = Database!Named(cited)
    BY <1>1
  <2>2. \A r \in Database!Runs : /\ Database!Exists(r)' = Database!Exists(r)
                                 /\ Database!Valid(r)' = Database!Valid(r)
    BY <1>1 DEF Database!Exists, Database!Valid
  <2>3. QED
    BY <1>1, <2>1, <2>2 DEF BaseInv, BaseExact
<1>4. \A x \in Requests : event'[x] = "stored" <=> event[x] = "stored"
  BY <1>1 DEF BaseInv, BaseTyped
<1>5. Database!EventNamesRun' /\ Database!SequencesDistinct'
  BY <1>1, <1>4 DEF BaseInv, Database!EventNamesRun, Database!SequencesDistinct, Database!Exists
<1>6. QED
  BY <1>2, <1>3, <1>5 DEF BaseInv

\* What changing some fields of stored runs leaves.
Kept(r) ==
    /\ row'[r] \in StoredRun /\ row'[r].there = TRUE /\ row'[r].seq = row[r].seq
    /\ row'[r].status = row[r].status /\ row'[r].capture = row[r].capture

LEMMA BootstrapKeeps == BaseInv /\ Database!Bootstrap => BaseInv'
<1> SUFFICES ASSUME BaseInv, Database!Bootstrap PROVE BaseInv'
  OBVIOUS
<1>1. /\ booted' = TRUE /\ UNCHANGED <<event, version, voided>>
      /\ row' = [r \in Database!Runs |-> IF Database!Exists(r) THEN [row[r] EXCEPT !.counted = Database!Valid(r)]
                                         ELSE Database!NoRun]
      /\ cited' = Database!RefsOf(row) /\ total' = Database!Total(cited') /\ unique' = Database!Named(cited')
  BY DEF Database!Bootstrap
<1>2. ASSUME NEW r \in Database!Runs, Database!Exists(r)
      PROVE  Kept(r) /\ row'[r].counted = Database!Valid(r) /\ row'[r].urls = row[r].urls
  <2>1. row[r] \in StoredRun
    BY <1>2, RunOf DEF BaseInv
  <2>2. PICK whole \in BOOLEAN : whole = Database!Valid(r)
    BY DEF Database!Valid, Database!Complete
  <2>3. row'[r] = [row[r] EXCEPT !.counted = whole]
    BY <1>1, <1>2, <2>2
  <2>4. QED
    BY <2>1, <2>2, <2>3 DEF StoredRun, Kept
<1>3. ASSUME NEW r \in Database!Runs, ~ Database!Exists(r)
      PROVE  row'[r] = Database!NoRun /\ row[r] = Database!NoRun
  BY <1>1, <1>3, RunOf DEF BaseInv
<1>4. \A r \in Database!Runs :
         /\ Database!Exists(r)' <=> Database!Exists(r)
         /\ Database!Complete(row[r]) <=> Database!Complete(row'[r])
         /\ Database!Complete(row[r]) => row'[r].urls = row[r].urls
         /\ Database!Exists(r) => row'[r].seq = row[r].seq
  <2>1. ASSUME NEW r \in Database!Runs, Database!Exists(r)
        PROVE  /\ Database!Exists(r)' /\ (Database!Complete(row[r]) <=> Database!Complete(row'[r]))
               /\ row'[r].urls = row[r].urls /\ row'[r].seq = row[r].seq
    BY <1>2, <2>1 DEF Kept, Database!Exists, Database!Complete
  <2>2. ASSUME NEW r \in Database!Runs, ~ Database!Exists(r)
        PROVE  row'[r] = row[r] /\ ~ Database!Complete(row[r])
    BY <1>3, <2>2 DEF Database!Exists, Database!Complete
  <2>3. QED
    BY <2>1, <2>2 DEF Database!Exists
<1>5. DOMAIN row' = Database!Runs
  BY <1>1
<1>6. BaseTyped'
  <2>1. \A r \in Database!Runs : row'[r] # Database!NoRun => row'[r] \in StoredRun
    BY <1>2, <1>3 DEF Kept
  <2>2. QED
    BY <1>1, <1>5, <2>1 DEF BaseInv, BaseTyped
<1>7. SameRuns
  BY <1>1, <1>4, <1>5 DEF SameRuns
<1>8. Database!RefsOf(row') = Database!RefsOf(row)
  BY <1>4, RefsSame
<1>9. \A r \in Database!Runs : Database!Exists(r)' => row'[r].counted = Database!Valid(r)'
  <2>1. ASSUME NEW r \in Database!Runs, Database!Exists(r)' PROVE row'[r].counted = Database!Valid(r)'
    <3>1. row'[r].counted = Database!Complete(row[r])
      BY <1>2, <1>4, <2>1 DEF Database!Valid
    <3>2. Database!Complete(row'[r]) = Database!Complete(row[r])
      BY <1>4 DEF Database!Complete
    <3>3. QED
      BY <3>1, <3>2 DEF Database!Valid
  <2>2. QED
    BY <2>1
<1>10. BaseExact'
  BY <1>1, <1>8, <1>9 DEF BaseExact
<1>11. QED
  BY <1>6, <1>7, <1>10, SameRunsKeep DEF BaseInv

LEMMA RepairSourcesKeeps ==
    ASSUME BaseInv, NEW d \in SourceDays, Database!RepairSources(d) PROVE BaseInv'
<1>1. PICK alias \in SourceUrls, url \in SourceUrls :
         row' = [r \in Database!Runs |->
                   IF r \in {x \in Database!Runs : /\ Database!Exists(x) /\ row[x].day = d
                                                   /\ alias \in row[x].urls}
                   THEN [row[r] EXCEPT !.urls = (row[r].urls \ {alias}) \cup {url}] ELSE row[r]]
  BY DEF Database!RepairSources
<1>2. /\ UNCHANGED <<booted, event, voided>> /\ Database!Bump({d})
      /\ cited' = Database!RefsOf(row') /\ total' = Database!Total(cited') /\ unique' = Database!Named(cited')
  BY DEF Database!RepairSources
<1>3. ASSUME NEW r \in Database!Runs, Database!Exists(r)
      PROVE  Kept(r) /\ row'[r].counted = row[r].counted
  <2>1. row[r] \in StoredRun
    BY <1>3, RunOf DEF BaseInv
  <2>2. CASE row'[r] = row[r]
    BY <2>1, <2>2 DEF StoredRun, Kept
  <2>3. CASE row'[r] = [row[r] EXCEPT !.urls = (row[r].urls \ {alias}) \cup {url}]
    <3>1. PICK urls : urls = (row[r].urls \ {alias}) \cup {url}
      OBVIOUS
    <3>2. urls \in SUBSET SourceUrls
      <4>1. row[r].urls \in SUBSET SourceUrls
        BY <2>1 DEF StoredRun
      <4>2. QED
        BY <3>1, <4>1
    <3>3. row'[r] = [row[r] EXCEPT !.urls = urls]
      BY <2>3, <3>1
    <3>4. QED
      BY <2>1, <3>2, <3>3 DEF StoredRun, Kept
  <2>4. QED
    BY <1>1, <2>2, <2>3
<1>4. ASSUME NEW r \in Database!Runs, ~ Database!Exists(r)
      PROVE  row'[r] = Database!NoRun /\ row[r] = Database!NoRun
  BY <1>1, <1>4, RunOf DEF BaseInv
<1>5. \A r \in Database!Runs :
         /\ Database!Exists(r)' <=> Database!Exists(r)
         /\ Database!Complete(row[r]) = Database!Complete(row'[r])
         /\ Database!Exists(r) => row'[r].seq = row[r].seq /\ row'[r].counted = row[r].counted
  <2>1. ASSUME NEW r \in Database!Runs, Database!Exists(r)
        PROVE  /\ Database!Exists(r)' /\ (Database!Complete(row[r]) = Database!Complete(row'[r]))
               /\ row'[r].seq = row[r].seq /\ row'[r].counted = row[r].counted
    BY <1>3, <2>1 DEF Kept, Database!Exists, Database!Complete
  <2>2. ASSUME NEW r \in Database!Runs, ~ Database!Exists(r)
        PROVE  row'[r] = row[r]
    BY <1>4, <2>2
  <2>3. QED
    BY <2>1, <2>2 DEF Database!Exists
<1>6. DOMAIN row' = Database!Runs
  BY <1>1
<1>7. version' \in [Database!Scopes -> Nat]
  BY <1>2, BumpIs DEF BaseInv
<1>8. BaseTyped'
  <2>1. \A r \in Database!Runs : row'[r] # Database!NoRun => row'[r] \in StoredRun
    BY <1>3, <1>4 DEF Kept
  <2>2. QED
    BY <1>2, <1>6, <1>7, <2>1 DEF BaseInv, BaseTyped
<1>9. SameRuns
  BY <1>2, <1>5, <1>6 DEF SameRuns
<1>10. BaseExact'
  <2> SUFFICES ASSUME booted, voided = {}, NEW x \in Database!Runs, Database!Exists(x)'
               PROVE  row'[x].counted = Database!Valid(x)'
    BY <1>2 DEF BaseExact
  <2>1. Database!Exists(x) /\ row'[x].counted = row[x].counted
    BY <1>5
  <2>2. row[x].counted = Database!Complete(row[x])
    BY <2>1 DEF BaseInv, BaseExact, Database!Valid
  <2>3. Database!Complete(row'[x]) = Database!Complete(row[x])
    BY <1>5
  <2>4. QED
    BY <2>1, <2>2, <2>3 DEF Database!Valid
<1>11. QED
  BY <1>8, <1>9, <1>10, SameRunsKeep DEF BaseInv

LEMMA BaseKeeps == BaseInv /\ Database!Next => BaseInv'
<1> SUFFICES ASSUME BaseInv, Database!Next PROVE BaseInv'
  OBVIOUS
<1>1. ASSUME NEW q \in Requests, Database!Quarantine(q) \/ Database!Ingest(q) PROVE BaseInv'
  BY <1>1, QuarantineKeeps, IngestKeeps
<1>2. ASSUME NEW f \in Files, Database!SyncFile(f) PROVE BaseInv'
  BY <1>2, SyncFileKeeps
<1>3. ASSUME NEW r \in Database!Runs, Database!Review(r) \/ Database!Invalidate(r) PROVE BaseInv'
  BY <1>3, ReviewRunKeeps, InvalidateKeeps
<1>4. ASSUME NEW d \in SourceDays, Database!RepairSources(d) PROVE BaseInv'
  BY <1>4, RepairSourcesKeeps
<1>5. CASE Database!Bootstrap
  BY <1>5, BootstrapKeeps
<1>6. CASE Database!RepairAnswers
  BY <1>6, RepairAnswersKeeps
<1>7. QED
  BY <1>1, <1>2, <1>3, <1>4, <1>5, <1>6 DEF Database!Next

LEMMA BaseHeld == SuiteSpec => []BaseInv
<1>1. BaseInv /\ [SuiteNext]_suiteVars => BaseInv'
  <2> SUFFICES ASSUME BaseInv, [SuiteNext]_suiteVars PROVE BaseInv'
    OBVIOUS
  <2>1. CASE Database!Next
    BY <2>1, BaseKeeps
  <2>2. CASE UNCHANGED baseVars
    <3>1. UNCHANGED <<booted, row, event, cited, total, unique, version, voided>>
      BY <2>2 DEF baseVars
    <3>2. BaseTyped'
      BY <3>1 DEF BaseInv, BaseTyped
    <3>3. BaseExact'
      <4>1. /\ Database!RefsOf(row)' = Database!RefsOf(row) /\ Database!Total(cited)' = Database!Total(cited)
            /\ Database!Named(cited)' = Database!Named(cited)
        BY <3>1
      <4>2. \A r \in Database!Runs : /\ Database!Exists(r)' = Database!Exists(r)
                                     /\ Database!Valid(r)' = Database!Valid(r)
        BY <3>1 DEF Database!Exists, Database!Valid
      <4>3. QED
        BY <3>1, <4>1, <4>2 DEF BaseInv, BaseExact
    <3>4. Database!EventNamesRun' /\ Database!SequencesDistinct'
      BY <3>1 DEF BaseInv, Database!EventNamesRun, Database!SequencesDistinct, Database!Exists
    <3>5. QED
      BY <3>2, <3>3, <3>4 DEF BaseInv
  <2>3. QED
    BY <2>1, <2>2, BaseSteps
<1>2. QED
  BY <1>1, BaseStart, PTL DEF SuiteSpec

LEMMA CountsFollow == BaseInv => Database!CountedExact
<1> SUFFICES ASSUME BaseInv, booted, voided = {} PROVE Database!Exact
  BY DEF Database!CountedExact
<1>1. PICK f : f = Database!RefsOf(row)
  OBVIOUS
<1>2. /\ \A r \in Database!Runs : Database!Exists(r) => row[r].counted = Database!Valid(r)
      /\ cited = f /\ total = Database!Total(f) /\ unique = Database!Named(f)
  BY <1>1 DEF BaseInv, BaseExact
<1>3. \A u \in SourceUrls : f[u] = Cardinality(Listing(row, u)) /\ IsFiniteSet(Listing(row, u)) /\ f[u] \in Nat
  BY <1>1, RefsIs
<1>4. \A u : {r \in Database!Runs : Database!Exists(r) /\ row[r].counted /\ u \in row[r].urls} = Listing(row, u)
  <2>1. \A r \in Database!Runs : Database!Exists(r) /\ row[r].counted <=> Database!Complete(row[r])
    BY <1>2 DEF Database!Valid, Database!Complete, Database!Exists
  <2>2. QED
    BY <2>1 DEF Listing
<1>5. \A u \in SourceUrls : Database!Citations(u) = f[u]
  BY <1>3, <1>4, CardIs DEF Database!Citations
<1>6. ASSUME NEW u \in SourceUrls PROVE u \in Database!Catalog <=> f[u] > 0
  <2>1. u \in Database!Catalog <=> Listing(row, u) # {}
    BY <1>4 DEF Database!Catalog
  <2>2. f[u] = 0 <=> Listing(row, u) = {}
    BY <1>3, FS_EmptySet
  <2>3. QED
    BY <1>3, <2>1, <2>2
<1>7. Database!Catalog = {u \in SourceUrls : f[u] > 0}
  BY <1>6 DEF Database!Catalog
<1>8. Database!Summary.sources = total /\ Database!Summary.unique = unique
  BY DEF Database!Summary
<1>9. QED
  BY <1>1, <1>2, <1>5, <1>7, <1>8 DEF Database!Exact

\* A commit that changes a day raises its version.
Tells ==
    booted => \A d \in SourceDays : Database!Shown(d)' # Database!Shown(d) =>
        version'[d] > version[d] /\ version'["global"] > version["global"]

Touches(days) ==
    /\ days \in SUBSET SourceDays /\ Database!Bump(days)
    /\ \A r \in Database!Runs :
          \/ row'[r] = row[r]
          \/ /\ Database!Exists(r) => row[r].day \in days
             /\ Database!Exists(r)' => row'[r].day \in days

LEMMA TouchesTell == ASSUME BaseTyped, NEW days, Touches(days) PROVE Tells
<1> SUFFICES ASSUME NEW d \in SourceDays, Database!Shown(d)' # Database!Shown(d)
             PROVE  version'[d] > version[d] /\ version'["global"] > version["global"]
  BY DEF Tells
<1>1. \A s \in days \cup {"global"} : version'[s] > version[s]
  BY BumpIs DEF Touches
<1>2. CASE d \in days
  BY <1>1, <1>2
<1>3. CASE d \notin days
  <2>1. ASSUME NEW r \in Database!Runs
        PROVE  /\ (Database!Exists(r)' /\ row'[r].day = d) <=> (Database!Exists(r) /\ row[r].day = d)
               /\ Database!Exists(r) /\ row[r].day = d => row'[r] = row[r]
    BY <1>3 DEF Touches, Database!Exists
  <2>2. Database!Shown(d)' = {[id |-> r, is |-> row'[r]] :
                                r \in {x \in Database!Runs : Database!Exists(x)' /\ row'[x].day = d}}
    BY DEF Database!Shown
  <2>3. PICK S : S = {x \in Database!Runs : Database!Exists(x) /\ row[x].day = d}
    OBVIOUS
  <2>4. S = {x \in Database!Runs : Database!Exists(x)' /\ row'[x].day = d}
        /\ \A r \in S : row'[r] = row[r]
    BY <2>1, <2>3
  <2>5. Database!Shown(d) = {[id |-> r, is |-> row[r]] : r \in S}
    BY <2>3 DEF Database!Shown
  <2>6. Database!Shown(d)' = {[id |-> r, is |-> row'[r]] : r \in S}
    BY <2>2, <2>4
  <2>7. Database!Shown(d)' = Database!Shown(d)
    BY <2>4, <2>5, <2>6
  <2>8. QED
    BY <2>7
<1>4. QED
  BY <1>2, <1>3

LEMMA VersionTells == BaseInv /\ Database!Next => Tells
<1> SUFFICES ASSUME BaseInv, Database!Next PROVE Tells
  OBVIOUS
<1>0. BaseTyped
  BY DEF BaseInv
<1>1. ASSUME UNCHANGED row PROVE Tells
  BY <1>1 DEF Tells, Database!Shown, Database!Exists
<1>2. CASE Database!Bootstrap
  BY <1>2 DEF Database!Bootstrap, Tells
<1>3. ASSUME NEW q \in Requests, Database!Ingest(q) PROVE Tells
  <2>1. PICK capture \in StoredCaptures, d \in SourceDays, urls \in SUBSET SourceUrls :
           /\ Database!Rewrite(q, Database!NewRun(capture, "success", d, urls, Database!Sequence(q)))
           /\ Database!Bump(Database!DaysOf(q, d))
    BY <1>3 DEF Database!Ingest, Database!Sources
  <2>2. PICK days, new : /\ days = Database!DaysOf(q, d)
                         /\ new = Database!NewRun(capture, "success", d, urls, Database!Sequence(q))
    OBVIOUS
  <2>3. q \in Database!Runs
    BY DEF Database!Runs
  <2>4. row' = [row EXCEPT ![q] = new]
    BY <2>1, <2>2 DEF Database!Rewrite
  <2>5. new.day = d
    BY <2>2 DEF Database!NewRun
  <2>6. days \in SUBSET SourceDays /\ d \in days /\ (Database!Exists(q) => row[q].day \in days)
    <3>1. Database!Exists(q) => row[q] \in StoredRun
      BY <1>0, <2>3, RunOf
    <3>2. Database!Exists(q) => row[q].day \in SourceDays
      BY <3>1 DEF StoredRun
    <3>3. QED
      BY <2>2, <3>2 DEF Database!DaysOf
  <2>7. /\ row'[q] = new /\ \A x \in Database!Runs : x # q => row'[x] = row[x]
    BY <1>0, <2>3, <2>4 DEF BaseTyped
  <2>8. Touches(days)
    BY <2>1, <2>2, <2>5, <2>6, <2>7 DEF Touches
  <2>9. QED
    BY <1>0, <2>8, TouchesTell
<1>4. ASSUME NEW f \in Files, Database!SyncFile(f) PROVE Tells
  <2>1. PICK capture \in StoredCaptures, d \in SourceDays, urls \in SUBSET SourceUrls,
             state \in {"success", "invalid"} :
           /\ Database!Rewrite(f, Database!NewRun(capture, state, d, urls, 1))
           /\ Database!Bump({d}) /\ (Database!Exists(f) => d = row[f].day)
    BY <1>4 DEF Database!SyncFile, Database!Sources
  <2>2. PICK new : new = Database!NewRun(capture, state, d, urls, 1)
    OBVIOUS
  <2>3. f \in Database!Runs
    BY DEF Database!Runs
  <2>4. row' = [row EXCEPT ![f] = new]
    BY <2>1, <2>2 DEF Database!Rewrite
  <2>5. new.day = d
    BY <2>2 DEF Database!NewRun
  <2>6. /\ row'[f] = new /\ \A x \in Database!Runs : x # f => row'[x] = row[x]
    BY <1>0, <2>3, <2>4 DEF BaseTyped
  <2>7. Touches({d})
    BY <2>1, <2>5, <2>6 DEF Touches
  <2>8. QED
    BY <1>0, <2>7, TouchesTell
<1>5. ASSUME NEW r \in Database!Runs, NEW new, Database!Update(r, new), new.day = row[r].day PROVE Tells
  <2>1. Database!Exists(r) /\ row' = [row EXCEPT ![r] = new] /\ Database!Bump({row[r].day})
    BY <1>5 DEF Database!Update
  <2>2. /\ row'[r] = new /\ \A x \in Database!Runs : x # r => row'[x] = row[x]
    BY <1>0, <2>1 DEF BaseTyped
  <2>3. row[r] \in StoredRun
    BY <1>0, <2>1, RunOf
  <2>4. row[r].day \in SourceDays
    BY <2>3 DEF StoredRun
  <2>5. Touches({row[r].day})
    BY <1>5, <2>1, <2>2, <2>4 DEF Touches
  <2>6. QED
    BY <1>0, <2>5, TouchesTell
<1>6. ASSUME NEW r \in Database!Runs, Database!Review(r) PROVE Tells
  <2>1. PICK to : Database!Update(r, [row[r] EXCEPT !.review = to])
    BY <1>6 DEF Database!Review
  <2>2. [row[r] EXCEPT !.review = to].day = row[r].day
    <3>1. row[r] \in StoredRun
      BY <1>0, <2>1, RunOf DEF Database!Update
    <3>2. QED
      BY <3>1 DEF StoredRun
  <2>3. QED
    BY <1>5, <2>1, <2>2
<1>7. ASSUME NEW r \in Database!Runs, Database!Invalidate(r) PROVE Tells
  <2>1. Database!Update(r, [row[r] EXCEPT !.status = "invalid"])
    BY <1>7 DEF Database!Invalidate
  <2>2. [row[r] EXCEPT !.status = "invalid"].day = row[r].day
    <3>1. row[r] \in StoredRun
      BY <1>0, <2>1, RunOf DEF Database!Update
    <3>2. QED
      BY <3>1 DEF StoredRun
  <2>3. QED
    BY <1>5, <2>1, <2>2
<1>8. CASE Database!RepairAnswers
  <2>1. PICK empty : empty = {r \in Database!Runs : /\ Database!Exists(r) /\ row[r].status = "success"
                                                    /\ row[r].capture = "empty"}
    OBVIOUS
  <2>2. PICK days : days = {row[r].day : r \in empty}
    OBVIOUS
  <2>3. /\ Database!Bump(days)
        /\ row' = [r \in Database!Runs |-> IF r \in empty THEN [row[r] EXCEPT !.status = "invalid"] ELSE row[r]]
    BY <1>8, <2>1, <2>2 DEF Database!RepairAnswers
  <2>4. ASSUME NEW r \in empty PROVE row[r].day \in SourceDays /\ row'[r].day = row[r].day
    <3>1. row[r] \in StoredRun
      BY <1>0, <2>1, RunOf
    <3>2. row'[r] = [row[r] EXCEPT !.status = "invalid"]
      BY <2>1, <2>3
    <3>3. QED
      BY <3>1, <3>2 DEF StoredRun
  <2>5. Touches(days)
    BY <2>1, <2>2, <2>3, <2>4 DEF Touches
  <2>6. QED
    BY <1>0, <2>5, TouchesTell
<1>9. ASSUME NEW d \in SourceDays, Database!RepairSources(d) PROVE Tells
  <2>1. PICK alias \in SourceUrls, url \in SourceUrls :
           row' = [r \in Database!Runs |->
                     IF r \in {x \in Database!Runs : /\ Database!Exists(x) /\ row[x].day = d
                                                     /\ alias \in row[x].urls}
                     THEN [row[r] EXCEPT !.urls = (row[r].urls \ {alias}) \cup {url}] ELSE row[r]]
    BY <1>9 DEF Database!RepairSources
  <2>2. Database!Bump({d})
    BY <1>9 DEF Database!RepairSources
  <2>3. ASSUME NEW r \in Database!Runs, row'[r] # row[r]
        PROVE  row[r].day = d /\ row'[r].day = d
    <3>1. /\ Database!Exists(r) /\ row[r].day = d
          /\ row'[r] = [row[r] EXCEPT !.urls = (row[r].urls \ {alias}) \cup {url}]
      BY <2>1, <2>3
    <3>2. row[r] \in StoredRun
      BY <1>0, <3>1, RunOf
    <3>3. PICK urls : urls = (row[r].urls \ {alias}) \cup {url}
      OBVIOUS
    <3>4. row'[r] = [row[r] EXCEPT !.urls = urls]
      BY <3>1, <3>3
    <3>5. QED
      BY <3>1, <3>2, <3>4 DEF StoredRun
  <2>4. Touches({d})
    BY <2>2, <2>3 DEF Touches
  <2>5. QED
    BY <1>0, <2>4, TouchesTell
<1>10. ASSUME NEW q \in Requests, Database!Quarantine(q) PROVE UNCHANGED row
  BY <1>10 DEF Database!Quarantine
<1>11. QED
  BY <1>1, <1>2, <1>3, <1>4, <1>6, <1>7, <1>8, <1>9, <1>10 DEF Database!Next

-----------------------------------------------------------------------------
(* The results.                                                             *)

\* The tallies and sequence numbers beside the runs are what counting gives, for
\* any number of requests, files, sources, days and callbacks, and no edit is
\* lost from the history of a report, for any number of rounds, pages and edits.
THEOREM TalliesFollow == SuiteSpec => []TalliesExact
<1>1. BaseInv => Database!CountedExact /\ Database!EventNamesRun /\ Database!SequencesDistinct
  BY CountsFollow DEF BaseInv
<1>2. BaseInv /\ (part \in {"edit", "visit"} => ReportInv) => TalliesExact
  BY <1>1, AuditsFollow DEF TalliesExact
<1>3. QED
  BY <1>2, BaseHeld, ReportHeld, PTL

\* No two captures share a run, for any number of captures, savers and crashes,
\* and no two processes hold the lock at once, while at most two write.
THEOREM RunsNeverMeet == SuiteSpec => []RunsApart
<1>1. LockInv /\ (part # "legacy" => ArchiveInv) => RunsApart
  BY WritersApart, SourcesApart DEF RunsApart, ArchiveInv
<1>2. QED
  BY <1>1, LockHeld, ArchiveHeld, PTL

\* A verdict has what it rests on: products, a paid review or an archived body,
\* for any number of captures, rows, sources and workers, and whatever fails.
THEOREM VerdictsRest == SuiteSpec => []VerdictsBacked
<1>1. ReviewInv => Reviews!ReuseFollowsPaid /\ Reviews!VerifiedIsClean
  BY DEF ReviewInv, Reviews!ReuseFollowsPaid
<1>2. ReviewInv /\ ContentInv /\ (part # "legacy" => ArchiveInv) => VerdictsBacked
  BY <1>1, ProductsShown DEF VerdictsBacked, ContentInv
<1>3. QED
  BY <1>2, ReviewHeld, ContentHeld, ArchiveHeld, PTL

\* Paid calls of an hour, diagnoses of a day and sessions that were cut keep
\* their limits, for any number of rows, accounts, browsers, forms and days.
THEOREM LimitsStay == SuiteSpec => []LimitsHeld
<1>1. CallsInv /\ (part \in {"sessions", "quota"} => PeopleInv) => LimitsHeld
  BY HourFollows, QuotaFollows, CutFollows DEF LimitsHeld
<1>2. QED
  BY <1>1, CallsHeld, PeopleHeld, PTL

\* A change of what a day shows raises the version of the day, and the global one.
LEMMA VersionsHeld == SuiteSpec => Database!VersionTellsChange
<1>1. BaseInv /\ [SuiteNext]_suiteVars => [Tells]_(Database!store)
  <2> SUFFICES ASSUME BaseInv, [SuiteNext]_suiteVars PROVE [Tells]_(Database!store)
    OBVIOUS
  <2>1. CASE Database!Next
    BY <2>1, VersionTells
  <2>2. CASE UNCHANGED <<part, baseVars>>
    BY <2>2 DEF baseVars, Database!store
  <2>3. QED
    BY <2>1, <2>2, BaseSteps
<1>2. QED
  BY <1>1, BaseHeld, PTL DEF SuiteSpec, Tells, Database!VersionTellsChange

\* A revert restores the report before its first edit.
LEMMA RevertsHeld == SuiteSpec => Edit!RevertRestores
<1>1. (part \in {"edit", "visit"} => ReportInv) /\ [SuiteNext]_suiteVars
         => [Edit!Revert => Edit!Snapshot' = origin]_(Edit!report)
  <2> SUFFICES ASSUME part \in {"edit", "visit"} => ReportInv, [SuiteNext]_suiteVars
               PROVE  [Edit!Revert => Edit!Snapshot' = origin]_(Edit!report)
    OBVIOUS
  <2>1. CASE part \in {"edit", "visit"}
    BY <2>1, RevertsRestore
  <2>2. CASE UNCHANGED <<part, reportVars>>
    BY <2>2 DEF reportVars, Edit!report, Edit!task
  <2>3. QED
    BY <2>1, <2>2, ReportStepsOnly
<1>2. QED
  BY <1>1, ReportHeld, PTL DEF SuiteSpec, Edit!RevertRestores

\* A visitor sees no half of a report.
LEMMA VisitsHeld ==
    SuiteSpec => [][part = "visit" => \A v \in Visitors : Visit!SeesWhole(v)]_suiteVars
<1>1. (part \in {"edit", "visit"} => ReportInv)
         => (part = "visit" => \A v \in Visitors : Visit!SeesWhole(v))
  BY VisitsWhole
<1>2. QED
  BY <1>1, ReportHeld, PTL

\* The repair of the archive separates its captures and loses no answer.
LEMMA RepairsHeld == SuiteSpec => Legacy!RepairSeparates
<1>1. (part = "legacy" => LegacyInv) /\ (part # "legacy" => ArchiveInv)
         => (Legacy!Repair /\ UNCHANGED cuts =>
                /\ Legacy!Shared' = {}
                /\ {x.cap : x \in answers} = {x.cap : x \in answers'})
  BY RepairsSeparate DEF ArchiveInv
<1>2. QED
  BY <1>1, LegacyHeld, ArchiveHeld, PTL DEF Legacy!RepairSeparates

\* A fetch loses no archived page.
LEMMA BodiesHeld == SuiteSpec => Content!ArchiveKept
<1>1. ContentInv /\ [SuiteNext]_suiteVars
         => [\A u \in Urls : body[u] = "ok" => body'[u] = "ok"]_(Content!content)
  <2> SUFFICES ASSUME ContentInv, [SuiteNext]_suiteVars
               PROVE  [\A u \in Urls : body[u] = "ok" => body'[u] = "ok"]_(Content!content)
    OBVIOUS
  <2>1. CASE Content!Next
    BY <2>1, BodiesKept
  <2>2. CASE UNCHANGED <<part, contentVars>>
    BY <2>2 DEF contentVars, Content!content
  <2>3. QED
    BY <2>1, <2>2, ContentSteps
<1>2. QED
  BY <1>1, ContentHeld, PTL DEF SuiteSpec, Content!ArchiveKept

\* What was shown or kept can be told from what is shown now, for all values of
\* the constants: versions, reverts, visits, the repair and archived pages.
THEOREM HistoryStays == SuiteSpec => HistoryKept
BY VersionsHeld, RevertsHeld, VisitsHeld, RepairsHeld, BodiesHeld DEF HistoryKept
=============================================================================
