----------------------------- MODULE SyncProofs -----------------------------
(***************************************************************************)
(* Mutual exclusion of RWSpinLock for any finite set of threads, and the   *)
(* safety properties of LockSuite.                                         *)
(*                                                                         *)
(* The integer of RWSpinLock says only how many readers there are and      *)
(* whether there is a writer or an upgrader, so the inductive invariant is *)
(* the exact account of bits_ together with exclusion itself: a            *)
(* compare-exchange that succeeds shows, through the account, that nobody  *)
(* is in the way.  What is proved of the other classes in SyncObjects      *)
(* holds of the instances in the suite, because a step of the suite is a   *)
(* step of one instance and leaves the others alone.                       *)
(***************************************************************************)
EXTENDS LockSuite, FiniteSetTheorems, TLAPS

Inv == TypeOK /\ BitsExact /\ MutualExclusion

\* Counting: the number of counted threads is a natural number, it is zero only
\* when there is none, and it moves by one with one thread.
LEMMA Counting ==
  ASSUME TypeOK
  PROVE  /\ IsFiniteSet(Counted) /\ Cardinality(Counted) \in Nat
         /\ Cardinality(Counted) = 0 <=> Counted = {}
<1>1. IsFiniteSet(Counted)
  BY ThreadsAssumption, FS_Subset DEF Counted
<1>2. QED  BY <1>1, FS_CardinalityType, FS_EmptySet

LEMMA OneMore ==
  ASSUME TypeOK, NEW t \in Threads, t \notin Counted, Counted' = Counted \cup {t}
  PROVE  Cardinality(Counted') = Cardinality(Counted) + 1
BY Counting, FS_AddElement

LEMMA OneLess ==
  ASSUME TypeOK, NEW t \in Threads, t \in Counted, Counted' = Counted \ {t}
  PROVE  Cardinality(Counted') = Cardinality(Counted) - 1
BY Counting, FS_RemoveElement

\* The bits of a number composed of a count and two flags.
LEMMA Arithmetic ==
  ASSUME NEW c \in Nat, NEW u \in {0, 1}, NEW w \in {0, 1}, NEW b, b = 4 * c + 2 * u + w
  PROVE  /\ Mask(b) = 2 * u + w
         /\ Clear(b) = 4 * c
         /\ Or(b) = 4 * c + 2 + w
         /\ b = 0 => c = 0 /\ u = 0 /\ w = 0
         /\ b = 2 => c = 0 /\ u = 1 /\ w = 0
<1>1. b % 4 = 2 * u + w
  <2>1. \A k \in 0 .. 3 : (4 * c + k) % 4 = k
    OBVIOUS
  <2>2. 2 * u + w \in 0 .. 3 /\ b = 4 * c + (2 * u + w)
    OBVIOUS
  <2>3. QED  BY <2>1, <2>2
<1>2. QED  BY <1>1 DEF Mask, Clear, Or, Upgraded, UPGRADED

\* Every step keeps the account and exclusion.
LEMMA StepKeepsInv == Inv /\ [Next]_vars => Inv'
<1> SUFFICES ASSUME Inv, [Next]_vars PROVE Inv'
  OBVIOUS
<1>t. TypeOK /\ MutualExclusion
  BY DEF Inv
<1> DEFINE n == Cardinality(Counted)
<1>c. n \in Nat /\ (n = 0 <=> Counted = {})
  BY Counting, <1>t
<1>b. PICK u \in {0, 1}, w \in {0, 1} :
        /\ bits = 4 * n + 2 * u + w
        /\ w = 1 <=> Exclusive # {}
        /\ u = 1 => Exclusive \cup Upgrading # {}
        /\ (\E t \in Threads : pc[t] \in {"upgrader", "promoting", "converting"}) => u = 1
  BY DEF Inv, BitsExact, READER, UPGRADED, WRITER
<1>m. /\ Mask(bits) = 2 * u + w
      /\ Clear(bits) = 4 * n /\ Or(bits) = 4 * n + 2 + w
      /\ bits = 0 => n = 0 /\ u = 0 /\ w = 0
      /\ bits = 2 => n = 0 /\ u = 1 /\ w = 0
  BY ONLY <1>b, <1>c, Arithmetic
<1> HIDE DEF n
<1>g. u = 0 => Upgrading = {}
  BY <1>b DEF Upgrading
<1>a. ASSUME NEW v \in {0, 1}, NEW x \in {0, 1}, bits' = 4 * Cardinality(Counted)' + 2 * v + x,
             x = 1 <=> Exclusive' # {}, v = 1 => Exclusive' \cup Upgrading' # {},
             (\E t \in Threads : pc'[t] \in {"upgrader", "promoting", "converting"}) => v = 1
      PROVE  BitsExact'
  BY <1>a DEF BitsExact, READER, UPGRADED, WRITER
<1>1. ASSUME NEW t \in Threads, try_lock(t) PROVE Inv'
  <2>1. Counted' = Counted
    BY <1>1, <1>t DEF try_lock, Goto, Counted, TypeOK
  <2>t. TypeOK'
    BY <1>1, <1>t, <1>b, <1>c, <1>m
    DEF try_lock, Goto, TypeOK, READER, UPGRADED, WRITER, Promotable
  <2>2. Cardinality(Counted)' = n
    BY <2>1, <1>t DEF n
  <2>3. Exclusive' = Exclusive \cup {t}
    BY <1>1, <1>t DEF try_lock, Goto, Exclusive, TypeOK
  <2>4. Upgrading' = Upgrading
    BY <1>1, <1>t DEF try_lock, Goto, Upgrading, TypeOK
  <2>5. bits' = 4 * Cardinality(Counted)' + 2 * 0 + 1
    BY <1>1, <1>b, <1>c, <1>m, <1>t, <2>2
    DEF try_lock, READER, UPGRADED, WRITER, Promotable, Exclusive, Upgrading,
       MutualExclusion
  <2>6. BitsExact'
    BY <1>1, <1>a, <1>b, <1>m, <1>t, <1>g, <2>3, <2>4, <2>5
    DEF try_lock, Goto, TypeOK, Exclusive, Upgrading, MutualExclusion, Promotable,
       UPGRADED
  <2>7. MutualExclusion'
    BY <1>1, <1>b, <1>c, <1>g, <1>m, <1>t, <2>3, <2>4
    DEF try_lock, Goto, TypeOK, MutualExclusion, Exclusive, Upgrading, Counted,
       Promotable, UPGRADED
  <2>8. QED  BY <2>t, <2>6, <2>7 DEF Inv
<1>2. ASSUME NEW t \in Threads, unlock(t) PROVE Inv'
  <2>1. Counted' = Counted
    BY <1>2, <1>t DEF unlock, Goto, Counted, TypeOK
  <2>t. TypeOK'
    BY <1>2, <1>t, <1>b, <1>c, <1>m
    DEF unlock, Goto, TypeOK, READER, UPGRADED, WRITER, Promotable
  <2>2. Cardinality(Counted)' = n
    BY <2>1, <1>t DEF n
  <2>3. Exclusive' = Exclusive \ {t}
    BY <1>2, <1>t DEF unlock, Goto, Exclusive, TypeOK
  <2>4. Upgrading' = Upgrading
    BY <1>2, <1>t DEF unlock, Goto, Upgrading, TypeOK
  <2>5. bits' = 4 * Cardinality(Counted)' + 2 * 0 + 0
    BY <1>2, <1>b, <1>c, <1>m, <1>t, <2>2
    DEF unlock, READER, UPGRADED, WRITER, Promotable, Exclusive, Upgrading,
       MutualExclusion
  <2>6. BitsExact'
    BY <1>2, <1>a, <1>b, <1>m, <1>t, <1>g, <2>3, <2>4, <2>5
    DEF unlock, Goto, TypeOK, Exclusive, Upgrading, MutualExclusion, Promotable,
       UPGRADED
  <2>7. MutualExclusion'
    BY <1>2, <1>b, <1>c, <1>g, <1>m, <1>t, <2>3, <2>4
    DEF unlock, Goto, TypeOK, MutualExclusion, Exclusive, Upgrading, Counted,
       Promotable, UPGRADED
  <2>8. QED  BY <2>t, <2>6, <2>7 DEF Inv
<1>3. ASSUME NEW t \in Threads, try_lock_shared(t) PROVE Inv'
  <2>1. Counted' = Counted \cup {t} /\ t \notin Counted
    BY <1>3, <1>t DEF try_lock_shared, Goto, Counted, TypeOK
  <2>t. TypeOK'
    BY <1>3, <1>t, <1>b, <1>c, <1>m
    DEF try_lock_shared, Goto, TypeOK, READER, UPGRADED, WRITER, Promotable
  <2>2. Cardinality(Counted)' = n + 1
    BY <2>1, <1>t, OneMore DEF n
  <2>3. Exclusive' = Exclusive
    BY <1>3, <1>t DEF try_lock_shared, Goto, Exclusive, TypeOK
  <2>4. Upgrading' = Upgrading
    BY <1>3, <1>t DEF try_lock_shared, Goto, Upgrading, TypeOK
  <2>5. bits' = 4 * Cardinality(Counted)' + 2 * u + w
    BY <1>3, <1>b, <1>c, <1>m, <1>t, <2>2
    DEF try_lock_shared, READER, UPGRADED, WRITER, Promotable, Exclusive, Upgrading,
       MutualExclusion
  <2>6. BitsExact'
    BY <1>3, <1>a, <1>b, <1>m, <1>t, <1>g, <2>3, <2>4, <2>5
    DEF try_lock_shared, Goto, TypeOK, Exclusive, Upgrading, MutualExclusion,
       Promotable, UPGRADED
  <2>7. MutualExclusion'
    BY <1>3, <1>b, <1>c, <1>g, <1>m, <1>t, <2>3, <2>4
    DEF try_lock_shared, Goto, TypeOK, MutualExclusion, Exclusive, Upgrading,
       Counted, Promotable, UPGRADED
  <2>8. QED  BY <2>t, <2>6, <2>7 DEF Inv
<1>4. ASSUME NEW t \in Threads, back_off(t) PROVE Inv'
  <2>1. Counted' = Counted \ {t} /\ t \in Counted
    BY <1>4, <1>t DEF back_off, Goto, Counted, TypeOK
  <2>t. TypeOK'
    BY <1>4, <1>t, <1>b, <1>c, <1>m, <2>1
    DEF back_off, Goto, TypeOK, READER, UPGRADED, WRITER, Promotable
  <2>2. Cardinality(Counted)' = n - 1
    BY <2>1, <1>t, OneLess DEF n
  <2>3. Exclusive' = Exclusive
    BY <1>4, <1>t DEF back_off, Goto, Exclusive, TypeOK
  <2>4. Upgrading' = Upgrading
    BY <1>4, <1>t DEF back_off, Goto, Upgrading, TypeOK
  <2>5. bits' = 4 * Cardinality(Counted)' + 2 * u + w
    BY <1>4, <1>b, <1>c, <1>m, <1>t, <2>2
    DEF back_off, READER, UPGRADED, WRITER, Promotable, Exclusive, Upgrading,
       MutualExclusion
  <2>6. BitsExact'
    BY <1>4, <1>a, <1>b, <1>m, <1>t, <1>g, <2>3, <2>4, <2>5
    DEF back_off, Goto, TypeOK, Exclusive, Upgrading, MutualExclusion, Promotable,
       UPGRADED
  <2>7. MutualExclusion'
    BY <1>4, <1>b, <1>c, <1>g, <1>m, <1>t, <2>3, <2>4
    DEF back_off, Goto, TypeOK, MutualExclusion, Exclusive, Upgrading, Counted,
       Promotable, UPGRADED
  <2>8. QED  BY <2>t, <2>6, <2>7 DEF Inv
<1>5. ASSUME NEW t \in Threads, unlock_shared(t) PROVE Inv'
  <2>1. Counted' = Counted \ {t} /\ t \in Counted
    BY <1>5, <1>t DEF unlock_shared, Goto, Counted, TypeOK
  <2>t. TypeOK'
    BY <1>5, <1>t, <1>b, <1>c, <1>m, <2>1
    DEF unlock_shared, Goto, TypeOK, READER, UPGRADED, WRITER, Promotable
  <2>2. Cardinality(Counted)' = n - 1
    BY <2>1, <1>t, OneLess DEF n
  <2>3. Exclusive' = Exclusive
    BY <1>5, <1>t DEF unlock_shared, Goto, Exclusive, TypeOK
  <2>4. Upgrading' = Upgrading
    BY <1>5, <1>t DEF unlock_shared, Goto, Upgrading, TypeOK
  <2>5. bits' = 4 * Cardinality(Counted)' + 2 * u + w
    BY <1>5, <1>b, <1>c, <1>m, <1>t, <2>2
    DEF unlock_shared, READER, UPGRADED, WRITER, Promotable, Exclusive, Upgrading,
       MutualExclusion
  <2>6. BitsExact'
    BY <1>5, <1>a, <1>b, <1>m, <1>t, <1>g, <2>3, <2>4, <2>5
    DEF unlock_shared, Goto, TypeOK, Exclusive, Upgrading, MutualExclusion,
       Promotable, UPGRADED
  <2>7. MutualExclusion'
    BY <1>5, <1>b, <1>c, <1>g, <1>m, <1>t, <2>3, <2>4
    DEF unlock_shared, Goto, TypeOK, MutualExclusion, Exclusive, Upgrading, Counted,
       Promotable, UPGRADED
  <2>8. QED  BY <2>t, <2>6, <2>7 DEF Inv
<1>6. ASSUME NEW t \in Threads, unlock_and_lock_shared(t) PROVE Inv'
  <2>1. Counted' = Counted \cup {t} /\ t \notin Counted
    BY <1>6, <1>t DEF unlock_and_lock_shared, Goto, Counted, TypeOK
  <2>t. TypeOK'
    BY <1>6, <1>t, <1>b, <1>c, <1>m
    DEF unlock_and_lock_shared, Goto, TypeOK, READER, UPGRADED, WRITER, Promotable
  <2>2. Cardinality(Counted)' = n + 1
    BY <2>1, <1>t, OneMore DEF n
  <2>3. Exclusive' = Exclusive
    BY <1>6, <1>t DEF unlock_and_lock_shared, Goto, Exclusive, TypeOK
  <2>4. Upgrading' = Upgrading
    BY <1>6, <1>t DEF unlock_and_lock_shared, Goto, Upgrading, TypeOK
  <2>5. bits' = 4 * Cardinality(Counted)' + 2 * u + w
    BY <1>6, <1>b, <1>c, <1>m, <1>t, <2>2
    DEF unlock_and_lock_shared, READER, UPGRADED, WRITER, Promotable, Exclusive,
       Upgrading, MutualExclusion
  <2>6. BitsExact'
    BY <1>6, <1>a, <1>b, <1>m, <1>t, <1>g, <2>3, <2>4, <2>5
    DEF unlock_and_lock_shared, Goto, TypeOK, Exclusive, Upgrading, MutualExclusion,
       Promotable, UPGRADED
  <2>7. MutualExclusion'
    BY <1>6, <1>b, <1>c, <1>g, <1>m, <1>t, <2>3, <2>4
    DEF unlock_and_lock_shared, Goto, TypeOK, MutualExclusion, Exclusive, Upgrading,
       Counted, Promotable, UPGRADED
  <2>8. QED  BY <2>t, <2>6, <2>7 DEF Inv
<1>7. ASSUME NEW t \in Threads, downgraded(t) PROVE Inv'
  <2>1. Counted' = Counted
    BY <1>7, <1>t DEF downgraded, Goto, Counted, TypeOK
  <2>t. TypeOK'
    BY <1>7, <1>t, <1>b, <1>c, <1>m
    DEF downgraded, Goto, TypeOK, READER, UPGRADED, WRITER, Promotable
  <2>2. Cardinality(Counted)' = n
    BY <2>1, <1>t DEF n
  <2>3. Exclusive' = Exclusive \ {t}
    BY <1>7, <1>t DEF downgraded, Goto, Exclusive, TypeOK
  <2>4. Upgrading' = Upgrading
    BY <1>7, <1>t DEF downgraded, Goto, Upgrading, TypeOK
  <2>5. bits' = 4 * Cardinality(Counted)' + 2 * 0 + 0
    BY <1>7, <1>b, <1>c, <1>m, <1>t, <2>2
    DEF downgraded, READER, UPGRADED, WRITER, Promotable, Exclusive, Upgrading,
       MutualExclusion
  <2>6. BitsExact'
    BY <1>7, <1>a, <1>b, <1>m, <1>t, <1>g, <2>3, <2>4, <2>5
    DEF downgraded, Goto, TypeOK, Exclusive, Upgrading, MutualExclusion, Promotable,
       UPGRADED
  <2>7. MutualExclusion'
    BY <1>7, <1>b, <1>c, <1>g, <1>m, <1>t, <2>3, <2>4
    DEF downgraded, Goto, TypeOK, MutualExclusion, Exclusive, Upgrading, Counted,
       Promotable, UPGRADED
  <2>8. QED  BY <2>t, <2>6, <2>7 DEF Inv
<1>8. ASSUME NEW t \in Threads, try_lock_upgrade(t) PROVE Inv'
  <2>1. Counted' = Counted
    BY <1>8, <1>t DEF try_lock_upgrade, Goto, Counted, TypeOK
  <2>t. TypeOK'
    BY <1>8, <1>t, <1>b, <1>c, <1>m
    DEF try_lock_upgrade, Goto, TypeOK, READER, UPGRADED, WRITER, Promotable
  <2>2. Cardinality(Counted)' = n
    BY <2>1, <1>t DEF n
  <2>3. Exclusive' = Exclusive
    BY <1>8, <1>t DEF try_lock_upgrade, Goto, Exclusive, TypeOK
  <2>4. Upgrading' = IF Mask(bits) = 0 THEN Upgrading \cup {t} ELSE Upgrading
    BY <1>8, <1>t DEF try_lock_upgrade, Goto, Upgrading, TypeOK
  <2>5. bits' = 4 * Cardinality(Counted)' + 2 * 1 + w
    BY <1>8, <1>b, <1>c, <1>m, <1>t, <2>2
    DEF try_lock_upgrade, READER, UPGRADED, WRITER, Promotable, Exclusive,
       Upgrading, MutualExclusion
  <2>6. BitsExact'
    BY <1>8, <1>a, <1>b, <1>m, <1>t, <1>g, <2>3, <2>4, <2>5
    DEF try_lock_upgrade, Goto, TypeOK, Exclusive, Upgrading, MutualExclusion,
       Promotable, UPGRADED
  <2>7. MutualExclusion'
    BY <1>8, <1>b, <1>c, <1>g, <1>m, <1>t, <2>3, <2>4
    DEF try_lock_upgrade, Goto, TypeOK, MutualExclusion, Exclusive, Upgrading,
       Counted, Promotable, UPGRADED
  <2>8. QED  BY <2>t, <2>6, <2>7 DEF Inv
<1>9. ASSUME NEW t \in Threads, unlock_upgrade(t) PROVE Inv'
  <2>1. Counted' = Counted
    BY <1>9, <1>t DEF unlock_upgrade, Goto, Counted, TypeOK
  <2>t. TypeOK'
    BY <1>9, <1>t, <1>b, <1>c, <1>m
    DEF unlock_upgrade, Goto, TypeOK, READER, UPGRADED, WRITER, Promotable
  <2>2. Cardinality(Counted)' = n
    BY <2>1, <1>t DEF n
  <2>3. Exclusive' = Exclusive
    BY <1>9, <1>t DEF unlock_upgrade, Goto, Exclusive, TypeOK
  <2>4. Upgrading' = Upgrading \ {t}
    BY <1>9, <1>t DEF unlock_upgrade, Goto, Upgrading, TypeOK
  <2>5. bits' = 4 * Cardinality(Counted)' + 2 * 0 + w
    BY <1>9, <1>b, <1>c, <1>m, <1>t, <2>2
    DEF unlock_upgrade, READER, UPGRADED, WRITER, Promotable, Exclusive, Upgrading,
       MutualExclusion
  <2>6. BitsExact'
    BY <1>9, <1>a, <1>b, <1>m, <1>t, <1>g, <2>3, <2>4, <2>5
    DEF unlock_upgrade, Goto, TypeOK, Exclusive, Upgrading, MutualExclusion,
       Promotable, UPGRADED
  <2>7. MutualExclusion'
    BY <1>9, <1>b, <1>c, <1>g, <1>m, <1>t, <2>3, <2>4
    DEF unlock_upgrade, Goto, TypeOK, MutualExclusion, Exclusive, Upgrading,
       Counted, Promotable, UPGRADED
  <2>8. QED  BY <2>t, <2>6, <2>7 DEF Inv
<1>10. ASSUME NEW t \in Threads, unlock_upgrade_and_lock(t) PROVE Inv'
  <2>1. Counted' = Counted
    BY <1>10, <1>t DEF unlock_upgrade_and_lock, Goto, Counted, TypeOK
  <2>t. TypeOK'
    BY <1>10, <1>t, <1>b, <1>c, <1>m
    DEF unlock_upgrade_and_lock, Goto, TypeOK, READER, UPGRADED, WRITER, Promotable
  <2>2. Cardinality(Counted)' = n
    BY <2>1, <1>t DEF n
  <2>3. Exclusive' = Exclusive
    BY <1>10, <1>t DEF unlock_upgrade_and_lock, Goto, Exclusive, TypeOK
  <2>4. Upgrading' = Upgrading
    BY <1>10, <1>t DEF unlock_upgrade_and_lock, Goto, Upgrading, TypeOK
  <2>5. bits' = 4 * Cardinality(Counted)' + 2 * u + w
    BY <1>10, <1>b, <1>c, <1>m, <1>t, <2>2
    DEF unlock_upgrade_and_lock, READER, UPGRADED, WRITER, Promotable, Exclusive,
       Upgrading, MutualExclusion
  <2>6. BitsExact'
    BY <1>10, <1>a, <1>b, <1>m, <1>t, <1>g, <2>3, <2>4, <2>5
    DEF unlock_upgrade_and_lock, Goto, TypeOK, Exclusive, Upgrading,
       MutualExclusion, Promotable, UPGRADED
  <2>7. MutualExclusion'
    BY <1>10, <1>b, <1>c, <1>g, <1>m, <1>t, <2>3, <2>4
    DEF unlock_upgrade_and_lock, Goto, TypeOK, MutualExclusion, Exclusive,
       Upgrading, Counted, Promotable, UPGRADED
  <2>8. QED  BY <2>t, <2>6, <2>7 DEF Inv
<1>11. ASSUME NEW t \in Threads, try_unlock_upgrade_and_lock(t) PROVE Inv'
  <2>1. Counted' = Counted
    BY <1>11, <1>t DEF try_unlock_upgrade_and_lock, Goto, Counted, TypeOK
  <2>t. TypeOK'
    BY <1>11, <1>t, <1>b, <1>c, <1>m
    DEF try_unlock_upgrade_and_lock, Goto, TypeOK, READER, UPGRADED, WRITER,
       Promotable
  <2>2. Cardinality(Counted)' = n
    BY <2>1, <1>t DEF n
  <2>3. Exclusive' = Exclusive \cup {t}
    BY <1>11, <1>t DEF try_unlock_upgrade_and_lock, Goto, Exclusive, TypeOK
  <2>4. Upgrading' = Upgrading \ {t}
    BY <1>11, <1>t DEF try_unlock_upgrade_and_lock, Goto, Upgrading, TypeOK
  <2>5. bits' = 4 * Cardinality(Counted)' + 2 * 0 + 1
    BY <1>11, <1>b, <1>c, <1>m, <1>t, <2>2
    DEF try_unlock_upgrade_and_lock, READER, UPGRADED, WRITER, Promotable,
       Exclusive, Upgrading, MutualExclusion
  <2>6. BitsExact'
    BY <1>11, <1>a, <1>b, <1>m, <1>t, <1>g, <2>3, <2>4, <2>5
    DEF try_unlock_upgrade_and_lock, Goto, TypeOK, Exclusive, Upgrading,
       MutualExclusion, Promotable, UPGRADED
  <2>7. MutualExclusion'
    BY <1>11, <1>b, <1>c, <1>g, <1>m, <1>t, <2>3, <2>4
    DEF try_unlock_upgrade_and_lock, Goto, TypeOK, MutualExclusion, Exclusive,
       Upgrading, Counted, Promotable, UPGRADED
  <2>8. QED  BY <2>t, <2>6, <2>7 DEF Inv
<1>12. ASSUME NEW t \in Threads, unlock_upgrade_and_lock_shared(t) PROVE Inv'
  <2>1. Counted' = Counted \cup {t} /\ t \notin Counted
    BY <1>12, <1>t DEF unlock_upgrade_and_lock_shared, Goto, Counted, TypeOK
  <2>t. TypeOK'
    BY <1>12, <1>t, <1>b, <1>c, <1>m
    DEF unlock_upgrade_and_lock_shared, Goto, TypeOK, READER, UPGRADED, WRITER,
       Promotable
  <2>2. Cardinality(Counted)' = n + 1
    BY <2>1, <1>t, OneMore DEF n
  <2>3. Exclusive' = Exclusive
    BY <1>12, <1>t DEF unlock_upgrade_and_lock_shared, Goto, Exclusive, TypeOK
  <2>4. Upgrading' = Upgrading \ {t}
    BY <1>12, <1>t DEF unlock_upgrade_and_lock_shared, Goto, Upgrading, TypeOK
  <2>5. bits' = 4 * Cardinality(Counted)' + 2 * 0 + w
    BY <1>12, <1>b, <1>c, <1>m, <1>t, <2>2
    DEF unlock_upgrade_and_lock_shared, READER, UPGRADED, WRITER, Promotable,
       Exclusive, Upgrading, MutualExclusion
  <2>6. BitsExact'
    BY <1>12, <1>a, <1>b, <1>m, <1>t, <1>g, <2>3, <2>4, <2>5
    DEF unlock_upgrade_and_lock_shared, Goto, TypeOK, Exclusive, Upgrading,
       MutualExclusion, Promotable, UPGRADED
  <2>7. MutualExclusion'
    BY <1>12, <1>b, <1>c, <1>g, <1>m, <1>t, <2>3, <2>4
    DEF unlock_upgrade_and_lock_shared, Goto, TypeOK, MutualExclusion, Exclusive,
       Upgrading, Counted, Promotable, UPGRADED
  <2>8. QED  BY <2>t, <2>6, <2>7 DEF Inv
<1>13. ASSUME NEW t \in Threads, unlock_and_lock_upgrade(t) PROVE Inv'
  <2>1. Counted' = Counted
    BY <1>13, <1>t DEF unlock_and_lock_upgrade, Goto, Counted, TypeOK
  <2>t. TypeOK'
    BY <1>13, <1>t, <1>b, <1>c, <1>m
    DEF unlock_and_lock_upgrade, Goto, TypeOK, READER, UPGRADED, WRITER, Promotable
  <2>2. Cardinality(Counted)' = n
    BY <2>1, <1>t DEF n
  <2>3. Exclusive' = Exclusive
    BY <1>13, <1>t DEF unlock_and_lock_upgrade, Goto, Exclusive, TypeOK
  <2>4. Upgrading' = Upgrading
    BY <1>13, <1>t DEF unlock_and_lock_upgrade, Goto, Upgrading, TypeOK
  <2>5. bits' = 4 * Cardinality(Counted)' + 2 * 1 + w
    BY <1>13, <1>b, <1>c, <1>m, <1>t, <2>2
    DEF unlock_and_lock_upgrade, READER, UPGRADED, WRITER, Promotable, Exclusive,
       Upgrading, MutualExclusion
  <2>6. BitsExact'
    BY <1>13, <1>a, <1>b, <1>m, <1>t, <1>g, <2>3, <2>4, <2>5
    DEF unlock_and_lock_upgrade, Goto, TypeOK, Exclusive, Upgrading,
       MutualExclusion, Promotable, UPGRADED
  <2>7. MutualExclusion'
    BY <1>13, <1>b, <1>c, <1>g, <1>m, <1>t, <2>3, <2>4
    DEF unlock_and_lock_upgrade, Goto, TypeOK, MutualExclusion, Exclusive,
       Upgrading, Counted, Promotable, UPGRADED
  <2>8. QED  BY <2>t, <2>6, <2>7 DEF Inv
<1>14. ASSUME NEW t \in Threads, converted(t) PROVE Inv'
  <2>1. Counted' = Counted
    BY <1>14, <1>t DEF converted, Goto, Counted, TypeOK
  <2>t. TypeOK'
    BY <1>14, <1>t, <1>b, <1>c, <1>m
    DEF converted, Goto, TypeOK, READER, UPGRADED, WRITER, Promotable
  <2>2. Cardinality(Counted)' = n
    BY <2>1, <1>t DEF n
  <2>3. Exclusive' = Exclusive \ {t}
    BY <1>14, <1>t DEF converted, Goto, Exclusive, TypeOK
  <2>4. Upgrading' = Upgrading \cup {t}
    BY <1>14, <1>t DEF converted, Goto, Upgrading, TypeOK
  <2>5. bits' = 4 * Cardinality(Counted)' + 2 * u + 0
    BY <1>14, <1>b, <1>c, <1>m, <1>t, <2>2
    DEF converted, READER, UPGRADED, WRITER, Promotable, Exclusive, Upgrading,
       MutualExclusion
  <2>6. BitsExact'
    BY <1>14, <1>a, <1>b, <1>m, <1>t, <1>g, <2>3, <2>4, <2>5
    DEF converted, Goto, TypeOK, Exclusive, Upgrading, MutualExclusion, Promotable,
       UPGRADED
  <2>7. MutualExclusion'
    BY <1>14, <1>b, <1>c, <1>g, <1>m, <1>t, <2>3, <2>4
    DEF converted, Goto, TypeOK, MutualExclusion, Exclusive, Upgrading, Counted,
       Promotable, UPGRADED
  <2>8. QED  BY <2>t, <2>6, <2>7 DEF Inv
<1>20. ASSUME UNCHANGED vars PROVE Inv'
  BY <1>20, <1>t
  DEF Inv, TypeOK, BitsExact, MutualExclusion, Exclusive, Upgrading, Counted, vars
<1>21. QED
  BY <1>1, <1>2, <1>3, <1>4, <1>5, <1>6, <1>7, <1>8, <1>9, <1>10, <1>11, <1>12, <1>13, <1>14, <1>20
  DEF Next, Writer, Reader, Upgrader, Finish

\* The account of bits_ and exclusion hold for every finite set of threads.
THEOREM Invariant == Spec => []Inv
<1>1. Init => Inv
  <2>1. ASSUME Init PROVE Counted = {} /\ Exclusive = {} /\ Upgrading = {}
    BY <2>1 DEF Init, Counted, Exclusive, Upgrading
  <2>2. ASSUME Init PROVE BitsExact
    BY <2>1, <2>2, FS_EmptySet DEF Init, BitsExact, READER, UPGRADED, WRITER
  <2>3. QED  BY <2>1, <2>2 DEF Init, Inv, TypeOK, MutualExclusion
<1>2. QED  BY <1>1, StepKeepsInv, PTL DEF Spec

\* At most one writer or upgrader, and no reader beside a writer, through all
\* the conversions of RWSpinLock.
THEOREM Exclusion == Spec => []MutualExclusion
BY Invariant, PTL DEF Inv

\* bits_ is exactly what the threads hold, so a lock nobody holds is free.
THEOREM Account == Spec => []BitsExact
BY Invariant, PTL DEF Inv

\* Nobody becomes a reader while a thread waits for its promotion.
THEOREM ReadersOnlyLeave == Spec => NoNewReaders
<1>1. ASSUME Inv, [Next]_vars,
             NEW p \in Threads, pc[p] = "promoting", NEW r \in Threads, pc'[r] = "reader"
      PROVE  pc[r] = "reader"
  <2>1. /\ \A s \in Exclusive \cup Upgrading : s = p
        /\ p \in Upgrading /\ p \notin Exclusive
    BY <1>1 DEF Inv, MutualExclusion, Exclusive, Upgrading
  <2>2. Mask(bits) # 0
    <3>1. PICK u \in {0, 1}, w \in {0, 1} :
            bits = 4 * Cardinality(Counted) + 2 * u + w /\ u = 1
      BY <1>1 DEF Inv, BitsExact, READER, UPGRADED, WRITER
    <3>2. Cardinality(Counted) \in Nat
      BY <1>1, Counting DEF Inv
    <3>3. Mask(bits) = 2 * u + w
      BY ONLY <3>1, <3>2, Arithmetic
    <3>4. QED  BY <3>1, <3>3
  <2>3. CASE UNCHANGED vars
    BY <2>3, <1>1 DEF vars
  <2>4. ASSUME NEW t \in Threads, Writer(t) \/ Reader(t) \/ Upgrader(t) \/ Finish(t)
        PROVE  pc[r] = "reader"
    <3>1. pc[t] # "downgrading" /\ pc[t] # "upgrader"
      BY <2>1, <1>1 DEF Exclusive, Upgrading
    <3>2. QED
      BY <1>1, <2>2, <2>4, <3>1
      DEF Inv, TypeOK, Goto, Writer, Reader, Upgrader, Finish, try_lock, unlock, try_lock_shared,
          back_off, unlock_shared, unlock_and_lock_shared, downgraded, try_lock_upgrade,
          unlock_upgrade, unlock_upgrade_and_lock, try_unlock_upgrade_and_lock,
          unlock_upgrade_and_lock_shared, unlock_and_lock_upgrade, converted
  <2>5. QED  BY <1>1, <2>3, <2>4 DEF Next
<1>2. ASSUME Inv, [Next]_vars
      PROVE  [(\E t \in Threads : pc[t] = "promoting") =>
                 \A t \in Threads : pc'[t] = "reader" => pc[t] = "reader"]_vars
  BY <1>1, <1>2
<1>3. QED  BY <1>2, Invariant, PTL DEF Spec, NoNewReaders

-----------------------------------------------------------------------------
(* The instances of LockSuite.                                             *)

\* A behaviour keeps the instance it has picked.
LEMMA FocusStays == [LockNext]_lockVars => focus' = focus
  BY Zenon DEF LockNext, lockVars

\* What LockSuiteAssumption says of each class, and the contract of reset.
LEMMA InstanceAssumptions ==
  /\ Object!LightSemaphoreAssumption /\ Object!GrantAssumption /\ Object!SemMutexAssumption
  /\ Object!FreeAssumption /\ Object!EventAssumption /\ ManualReset!EventAssumption
  /\ Object!LatchAssumption /\ CountedDown!LatchAssumption /\ Counter!LatchAssumption
  /\ Object!NotificationAssumption
  BY LockSuiteAssumption DEF LockSuiteAssumption

LEMMA InstanceContracts ==
  Object!ResetContract /\ CountedDown!ResetContract /\ Counter!ResetContract
  BY DEF Object!ResetContract, CountedDown!ResetContract, Counter!ResetContract, Latch, Resets

\* The semaphores.
LEMMA LightInSuite == LockSpec => Object!LightSpec
<1>1. LockInit => Object!LightInit
  BY Zenon DEF LockInit
<1>2. [LockNext]_lockVars => [Object!LightNext]_(Object!lightVars)
  BY Zenon DEF LockNext, lockVars, lightVars, Object!lightVars
<1> QED BY <1>1, <1>2, PTL DEF LockSpec, Object!LightSpec

LEMMA GrantsInSuite == LockSpec => Object!GrantSpec
<1>1. LockInit => Object!GrantInit
  BY Zenon DEF LockInit
<1>2. [LockNext]_lockVars => [Object!GrantNext]_(Object!grantVars)
  BY Zenon DEF LockNext, lockVars, grantVars, Object!grantVars
<1> QED BY <1>1, <1>2, PTL DEF LockSpec, Object!GrantSpec

LEMMA SemMutexInSuite == LockSpec => Object!SemMutexSpec
<1>1. LockInit => Object!SemInit
  BY Zenon DEF LockInit
<1>2. [LockNext]_lockVars => [Object!SemNext]_(Object!semVars)
  BY Zenon DEF LockNext, lockVars, semVars, Object!semVars
<1> QED BY <1>1, <1>2, PTL DEF LockSpec, Object!SemMutexSpec

\* The events.  An instance of AutoResetEvent and one of ManualResetEvent share
\* their variables.
LEMMA FreeInSuite == LockSpec => Object!FreeSpec
<1>1. LockInit => Object!FreeInit
  BY Zenon DEF LockInit
<1>2. [LockNext]_lockVars => [Object!FreeNext]_(Object!freeVars)
  BY Zenon DEF LockNext, lockVars, freeVars, Object!freeVars
<1> QED BY <1>1, <1>2, PTL DEF LockSpec, Object!FreeSpec

LEMMA AutoInSuite == LockSpec /\ focus = "auto" => Object!EventSpec
<1>1. LockInit => Object!EventInit
  BY Zenon DEF LockInit
<1>2. focus = "auto" /\ [LockNext]_lockVars => [Object!EventNext]_(Object!eventVars)
  <2>1. ASSUME focus = "auto", LockNext PROVE Object!EventNext
    BY <2>1, Zenon DEF LockNext
  <2>2. ASSUME UNCHANGED lockVars PROVE UNCHANGED Object!eventVars
    BY <2>2, Zenon DEF lockVars, eventVars, Object!eventVars
  <2> QED BY <2>1, <2>2, Zenon
<1>3. focus = "auto" /\ [LockNext]_lockVars => (focus = "auto")'
  BY FocusStays
<1> QED BY <1>1, <1>2, <1>3, PTL DEF LockSpec, Object!EventSpec

LEMMA ManualInSuite == LockSpec /\ ~(focus = "auto") => ManualReset!EventSpec
<1>1. LockInit => ManualReset!EventInit
  BY Zenon DEF LockInit, Object!EventInit, ManualReset!EventInit
<1>2. ~(focus = "auto") /\ [LockNext]_lockVars => [ManualReset!EventNext]_(ManualReset!eventVars)
  <2>1. ASSUME ~(focus = "auto"), LockNext
        PROVE  \/ ManualReset!EventNext
               \/ UNCHANGED eventVars
    BY <2>1, Zenon DEF LockNext
  <2>2. ASSUME UNCHANGED lockVars PROVE UNCHANGED eventVars
    BY <2>2, Zenon DEF lockVars
  <2>3. UNCHANGED eventVars => UNCHANGED ManualReset!eventVars
    BY Zenon DEF eventVars, ManualReset!eventVars
  <2> QED BY <2>1, <2>2, <2>3, Zenon
<1>3. ~(focus = "auto") /\ [LockNext]_lockVars => (~(focus = "auto"))'
  BY FocusStays
<1> QED BY <1>1, <1>2, <1>3, PTL DEF LockSpec, ManualReset!EventSpec

\* The latches, which share their variables too; the one that is reset is
\* also what stands still in the behaviours of all other instances.
LEMMA LatchInSuite ==
  LockSpec =>
    /\ focus = "counter" => Counter!LatchSpec
    /\ focus = "counted" => CountedDown!LatchSpec
    /\ ~(focus = "counter") /\ ~(focus = "counted") => Object!LatchSpec
<1>1. /\ LockInit /\ focus = "counter" => Counter!LatchInit
      /\ LockInit /\ ~(focus = "counter") => Object!LatchInit
  BY Zenon DEF LockInit
<1>2. LockInit /\ focus = "counted" => CountedDown!LatchInit
  <2>1. "counted" # "counter"
    OBVIOUS
  <2> QED BY <1>1, <2>1, Zenon DEF Object!LatchInit, CountedDown!LatchInit
<1>3. /\ LockNext /\ focus = "counter" => Counter!LatchNext
      /\ LockNext /\ focus = "counted" => CountedDown!LatchNext
      /\ LockNext /\ ~(focus = "counter") /\ ~(focus = "counted") =>
           Object!LatchNext \/ UNCHANGED latchVars
  BY Zenon DEF LockNext
<1>4. UNCHANGED lockVars => UNCHANGED latchVars
  BY Zenon DEF lockVars
<1>5. /\ UNCHANGED latchVars => UNCHANGED Counter!latchVars
      /\ UNCHANGED latchVars => UNCHANGED CountedDown!latchVars
      /\ UNCHANGED latchVars => UNCHANGED Object!latchVars
  BY Zenon DEF latchVars, Counter!latchVars, CountedDown!latchVars, Object!latchVars
<1>6. /\ focus = "counter" /\ [LockNext]_lockVars => [Counter!LatchNext]_(Counter!latchVars)
      /\ focus = "counted" /\ [LockNext]_lockVars =>
           [CountedDown!LatchNext]_(CountedDown!latchVars)
      /\ ~(focus = "counter") /\ ~(focus = "counted") /\ [LockNext]_lockVars =>
           [Object!LatchNext]_(Object!latchVars)
  BY <1>3, <1>4, <1>5, Zenon
<1>7. [LockNext]_lockVars =>
        /\ focus = "counter" => (focus = "counter")'
        /\ ~(focus = "counter") => (~(focus = "counter"))'
        /\ focus = "counted" => (focus = "counted")'
        /\ ~(focus = "counted") => (~(focus = "counted"))'
  BY FocusStays
<1> QED
  BY <1>1, <1>2, <1>6, <1>7, PTL
  DEF LockSpec, Counter!LatchSpec, CountedDown!LatchSpec, Object!LatchSpec

LEMMA LatchesWakeAll == LockSpec => []Object!NobodySleepsAtZero
<1>1. /\ Counter!LatchSpec => []Counter!NobodySleepsAtZero
      /\ CountedDown!LatchSpec => []CountedDown!NobodySleepsAtZero
      /\ Object!LatchSpec => []Object!NobodySleepsAtZero
  BY InstanceAssumptions, InstanceContracts,
     Counter!LatchWakesAll, CountedDown!LatchWakesAll, Object!LatchWakesAll
<1>2. /\ Counter!NobodySleepsAtZero => Object!NobodySleepsAtZero
      /\ CountedDown!NobodySleepsAtZero => Object!NobodySleepsAtZero
  BY DEF Counter!NobodySleepsAtZero, CountedDown!NobodySleepsAtZero, Object!NobodySleepsAtZero,
         Counter!LatchSleeping, CountedDown!LatchSleeping, Object!LatchSleeping
<1> QED BY <1>1, <1>2, LatchInSuite, PTL

\* The two hand-overs.
LEMMA NoteInSuite == LockSpec => Object!NoteSpec
<1>1. LockInit => Object!NoteInit
  BY Zenon DEF LockInit
<1>2. [LockNext]_lockVars => [Object!NoteNext]_(Object!noteVars)
  BY Zenon DEF LockNext, lockVars, noteVars, Object!noteVars
<1> QED BY <1>1, <1>2, PTL DEF LockSpec, Object!NoteSpec

LEMMA FutureInSuite == LockSpec => Object!FutureSpec
<1>1. LockInit => Object!FutureInit
  BY Zenon DEF LockInit
<1>2. [LockNext]_lockVars => [Object!FutureNext]_(Object!futureVars)
  BY Zenon DEF LockNext, lockVars, futureVars, Object!futureVars
<1> QED BY <1>1, <1>2, PTL DEF LockSpec, Object!FutureSpec

\* A thread that takes a unit of LightSemaphore, AutoResetFreeEvent, an event,
\* a latch, CondVarSem or, unless SETALL of init has hit a holder, TCSemMutex
\* finds the counters exact, and no unit is left to threads that all sleep: the
\* theorems of SyncObjects, in the instances of the suite.
THEOREM CountersExact == LockSpec => []UnitsAccounted
<1>1. LockSpec => []Object!WaitersAccounted
  <2>1. Object!LightSpec => []Object!WaitersAccounted
    BY InstanceAssumptions, Object!LightAccounted
  <2> QED BY <2>1, LightInSuite, PTL
<1>2. LockSpec => [](Object!UnitsConserved /\ Object!UnitsReachSleepers)
  <2>1. Object!GrantSpec => [](Object!UnitsConserved /\ Object!UnitsReachSleepers)
    BY InstanceAssumptions, Object!GrantsSafe
  <2> QED BY <2>1, GrantsInSuite, PTL
<1>3. LockSpec => []Object!SemaphoresExact
  <2>1. Object!SemMutexSpec => [](Object!WriterExclusive /\ Object!SemaphoresExact)
    BY InstanceAssumptions, Object!SemMutexSafe
  <2> QED BY <2>1, SemMutexInSuite, PTL
<1>4. LockSpec => [](Object!StatusExact /\ Object!OneReleasePerSignal)
  <2>1. Object!FreeSpec => [](Object!StatusExact /\ Object!OneReleasePerSignal)
    BY InstanceAssumptions, Object!FreeEventExact
  <2> QED BY <2>1, FreeInSuite, PTL
<1>5. LockSpec =>
        [](/\ focus = "auto" => Object!OneReleasePerSet
           /\ focus = "auto" => Object!NobodyLeftBehind
           /\ ~(focus = "auto") => ManualReset!NobodyLeftBehind)
  <2>1. Object!EventSpec => [](Object!NobodyLeftBehind /\ Object!OneReleasePerSet)
    BY InstanceAssumptions, Object!EventsRelease
  <2>2. ManualReset!EventSpec => [](ManualReset!NobodyLeftBehind /\ ManualReset!OneReleasePerSet)
    BY InstanceAssumptions, ManualReset!EventsRelease
  <2>3. [LockNext]_lockVars =>
          /\ focus = "auto" => (focus = "auto")'
          /\ ~(focus = "auto") => (~(focus = "auto"))'
    BY FocusStays
  <2> QED BY <2>1, <2>2, <2>3, AutoInSuite, ManualInSuite, PTL DEF LockSpec
<1>6. Object!NobodySleepsAtZero /\ Object!WaitersAccounted /\ Object!SemaphoresExact
        /\ (Object!UnitsConserved /\ Object!UnitsReachSleepers)
        /\ (Object!StatusExact /\ Object!OneReleasePerSignal)
        /\ (/\ focus = "auto" => Object!OneReleasePerSet
            /\ focus = "auto" => Object!NobodyLeftBehind
            /\ ~(focus = "auto") => ManualReset!NobodyLeftBehind)
        => UnitsAccounted
  BY Zenon DEF UnitsAccounted
<1> QED BY <1>1, <1>2, <1>3, <1>4, <1>5, <1>6, LatchesWakeAll, PTL

\* What is handed over is complete when it is used: no caller is inside a
\* Notification that is destroyed, FutureSem::get returns the value that was
\* set and fails its assertion only after a timed wait, and a writer has a
\* TCSemMutex to itself unless SETALL of init has hit a holder.
THEOREM HandoversComplete == LockSpec => []HandoversSafe
<1>1. LockSpec => [](Object!NotifierOutside /\ Object!WaitsAreRight)
  <2>1. Object!NoteSpec => [](Object!NotifierOutside /\ Object!WaitsAreRight)
    BY InstanceAssumptions, Object!NotificationSafe
  <2> QED BY <2>1, NoteInSuite, PTL
<1>2. LockSpec => [](Object!ReturnsTheValue /\ Object!AssertionHolds)
  <2>1. Object!FutureSpec => [](Object!ReturnsTheValue /\ Object!AssertionHolds)
    BY Object!FutureSafe
  <2> QED BY <2>1, FutureInSuite, PTL
<1>3. LockSpec => []Object!WriterExclusive
  <2>1. Object!SemMutexSpec => [](Object!WriterExclusive /\ Object!SemaphoresExact)
    BY InstanceAssumptions, Object!SemMutexSafe
  <2> QED BY <2>1, SemMutexInSuite, PTL
<1> QED BY <1>1, <1>2, <1>3, PTL DEF HandoversSafe

\* The benaphore and the kernel semaphore of LightSemaphore together behave as
\* one counting semaphore.
THEOREM LightIsASemaphore == LockSpec => LightImplementsSemaphore
<1>1. Object!LightSpec => Object!ImplementsSemaphore
  BY InstanceAssumptions, Object!LightRefinesSemaphore
<1> QED BY <1>1, LightInSuite, PTL DEF LightImplementsSemaphore

=============================================================================
