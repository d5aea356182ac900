------------------------- MODULE ServiceTableTheorems -------------------------
(* What the operations of src/services.c return, for tables of any length. *)
EXTENDS ServiceTable, FiniteSetTheorems, SequenceTheorems, WellFoundedInduction,
        TLAPS

(* A non-empty set of indices has a least element: the loops of services.c *)
(* that return the first match find one if there is one.                   *)
LEMMA LeastIndex ==
  ASSUME NEW n \in Nat, NEW T \in SUBSET (1 .. n), T # {}
  PROVE  \E i \in T : \A j \in T : i <= j
<1> DEFINE R == StrictSubsetOrdering(1 .. n)
           Below(i) == 1 .. i
           W == {Below(i) : i \in T}
<1>1. IsWellFoundedOn(R, FiniteSubsetsOf(1 .. n))
  BY FS_StrictSubsetOrderingWellFounded
<1>2. W \subseteq FiniteSubsetsOf(1 .. n)
  <2> SUFFICES ASSUME NEW i \in T
               PROVE  Below(i) \in FiniteSubsetsOf(1 .. n)
    OBVIOUS
  <2>1. IsFiniteSet(Below(i))
    BY FS_Interval
  <2>2. Below(i) \subseteq 1 .. n
    OBVIOUS
  <2> QED  BY <2>1, <2>2 DEF FiniteSubsetsOf
<1>3. W # {}
  OBVIOUS
<1>4. PICK w \in W : \A v \in W : ~ (<<v, w>> \in R)
  <2> HIDE DEF W, R
  <2> QED  BY <1>1, <1>2, <1>3, WFMin
<1>5. PICK i \in T : w = Below(i)
  OBVIOUS
<1>6. ASSUME NEW j \in T PROVE i <= j
  <2> SUFFICES ASSUME j < i PROVE FALSE
    OBVIOUS
  <2>1. Below(j) \in W /\ ~ (<<Below(j), Below(i)>> \in R)
    BY <1>4, <1>5
  <2>2. Below(j) \subseteq Below(i) /\ i \in Below(i) /\ i \notin Below(j)
    OBVIOUS
  <2>3. Below(i) \subseteq 1 .. n /\ Below(j) \subseteq 1 .. n
    OBVIOUS
  <2> QED  BY <2>1, <2>2, <2>3 DEF StrictSubsetOrdering
<1> QED  BY <1>6

(* find_service returns the first entry with that pid, if there is one.    *)
LEMMA FindServiceFinds ==
  ASSUME NEW E, NEW tbl \in Seq(E), NEW pid, IsRegistered(tbl, pid)
  PROVE  LET i == FindService(tbl, pid)
         IN  /\ i \in DOMAIN tbl /\ tbl[i].pid = pid
             /\ \A j \in 1 .. i - 1 : tbl[j].pid # pid
<1> DEFINE T == {i \in 1 .. Len(tbl) : tbl[i].pid = pid}
<1>1. T # {} /\ Len(tbl) \in Nat /\ DOMAIN tbl = 1 .. Len(tbl)
  BY DEF IsRegistered
<1>2. PICK i \in T : \A j \in T : i <= j
  BY <1>1, LeastIndex
<1>3. i \in DOMAIN tbl /\ tbl[i].pid = pid /\ \A j \in 1 .. i - 1 : tbl[j].pid # pid
  <2> SUFFICES ASSUME NEW j \in 1 .. i - 1, tbl[j].pid = pid PROVE FALSE
    BY <1>1
  <2>1. j \in T /\ j < i
    BY <1>1
  <2> QED  BY <2>1, <1>2, <1>1
<1> QED  BY <1>3 DEF FindService

(* Removing slot i keeps the other entries, in their order.                *)
LEMMA DropSlotProperties ==
  ASSUME NEW E, NEW tbl \in Seq(E), NEW i \in DOMAIN tbl
  PROVE  /\ DropSlot(tbl, i) \in Seq(E)
         /\ Len(DropSlot(tbl, i)) = Len(tbl) - 1
         /\ DOMAIN DropSlot(tbl, i) = 1 .. Len(tbl) - 1
         /\ \A k \in 1 .. Len(tbl) - 1 :
              DropSlot(tbl, i)[k] = IF k < i THEN tbl[k] ELSE tbl[k + 1]
<1> DEFINE d == [j \in 1 .. Len(tbl) - 1 |-> IF j < i THEN tbl[j] ELSE tbl[j + 1]]
<1>1. Len(tbl) - 1 \in Nat /\ DOMAIN tbl = 1 .. Len(tbl)
  OBVIOUS
<1>2. \A j \in 1 .. Len(tbl) - 1 : d[j] \in E
  <2> SUFFICES ASSUME NEW j \in 1 .. Len(tbl) - 1 PROVE d[j] \in E
    OBVIOUS
  <2>1. tbl[j] \in E /\ tbl[j + 1] \in E
    BY <1>1, ElementOfSeq
  <2> QED  BY <2>1
<1>3. d \in Seq(E) /\ Len(d) = Len(tbl) - 1
  BY <1>1, <1>2, IsASeq
<1> QED  BY <1>1, <1>3 DEF DropSlot
=============================================================================
