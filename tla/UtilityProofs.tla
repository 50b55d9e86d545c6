---------------------------- MODULE UtilityProofs ----------------------------
(***************************************************************************)
(* Theorems about four utilities that share nothing:                       *)
(*  - the memory pool neither loses a block nor hands one out twice, for   *)
(*    any number of blocks, any growth, and any order of deletions;        *)
(*  - CheckSingle admits one process at a time and the lock names it, for  *)
(*    any number of processes and stoppers.  The lock alone carries the    *)
(*    argument: a process changes the holder only when it is let in or     *)
(*    ends, and the kernel lets nobody in while another holds the lock;    *)
(*  - the tool that makes redeem codes repeats none and skips none, for    *)
(*    any number of runs, fun_ids and codes;                               *)
(*  - the codec of redeem codes is exact, for all widths of the segments   *)
(*    and characters the configuration may have.  Text and number are one  *)
(*    to one, the segments of the number can be cut out again, and the     *)
(*    disguise of the unique code permutes its segment.                    *)
(***************************************************************************)
EXTENDS MemPool, SingleProgress, RedeemTool, RedeemCode, FiniteSetTheorems,
        WellFoundedInduction, TLAPS

(***************************************************************************)
(* The memory pool.                                                        *)
(***************************************************************************)

\* inUse is finite, without which its cardinality would mean nothing.
PoolInv == PoolTypeOK /\ IsFiniteSet(inUse) /\ BlocksConserved

-----------------------------------------------------------------------------
(* Sequences whose elements are all different.                             *)

LEMMA AppendFacts ==
  ASSUME NEW S, NEW q \in Seq(S), NEW x \in S, x \notin ToSet(q), IsInjective(q)
  PROVE  /\ Append(q, x) \in Seq(S) /\ IsInjective(Append(q, x))
         /\ ToSet(Append(q, x)) = ToSet(q) \cup {x}
         /\ Len(Append(q, x)) = Len(q) + 1
<1> DEFINE r == Append(q, x)
<1>1. /\ r \in Seq(S) /\ Len(r) = Len(q) + 1 /\ DOMAIN r = 1 .. Len(r)
      /\ DOMAIN q = 1 .. Len(q) /\ Len(q) \in Nat
      /\ \A i \in 1 .. Len(q) : r[i] = q[i]
      /\ r[Len(q) + 1] = x
  OBVIOUS
<1> HIDE DEF r
<1>2. \A i \in 1 .. Len(q) : q[i] # x
  BY <1>1 DEF ToSet
<1>3. IsInjective(r)
  BY <1>1, <1>2 DEF IsInjective
<1>4. ToSet(r) = ToSet(q) \cup {x}
  BY <1>1 DEF ToSet
<1> QED BY <1>1, <1>3, <1>4 DEF r

LEMMA ConcatFacts ==
  ASSUME NEW S, NEW q \in Seq(S), NEW s \in Seq(S), IsInjective(q), IsInjective(s),
         ToSet(q) \cap ToSet(s) = {}
  PROVE  /\ q \o s \in Seq(S) /\ IsInjective(q \o s)
         /\ ToSet(q \o s) = ToSet(q) \cup ToSet(s)
         /\ Len(q \o s) = Len(q) + Len(s)
<1> DEFINE r == q \o s
<1>1. /\ r \in Seq(S) /\ Len(r) = Len(q) + Len(s) /\ DOMAIN r = 1 .. Len(r)
      /\ DOMAIN q = 1 .. Len(q) /\ DOMAIN s = 1 .. Len(s)
      /\ Len(q) \in Nat /\ Len(s) \in Nat
      /\ \A i \in 1 .. Len(q) : r[i] = q[i]
      /\ \A i \in Len(q) + 1 .. Len(r) : r[i] = s[i - Len(q)]
  OBVIOUS
<1>2. \A j \in 1 .. Len(s) : r[j + Len(q)] = s[j] /\ j + Len(q) \in 1 .. Len(r)
  BY <1>1
<1> HIDE DEF r
<1>3. \A i \in 1 .. Len(q), j \in 1 .. Len(s) : q[i] # s[j]
  BY <1>1 DEF ToSet
<1>4. ASSUME NEW i \in DOMAIN r, NEW j \in DOMAIN r, r[i] = r[j] PROVE i = j
  <2>1. CASE i \in 1 .. Len(q) /\ j \in 1 .. Len(q)
    BY <2>1, <1>1, <1>4 DEF IsInjective
  <2>2. CASE i \in Len(q) + 1 .. Len(r) /\ j \in Len(q) + 1 .. Len(r)
    <3>1. i - Len(q) \in 1 .. Len(s) /\ j - Len(q) \in 1 .. Len(s)
      BY <2>2, <1>1
    <3>2. s[i - Len(q)] = s[j - Len(q)]
      BY <2>2, <1>1, <1>4
    <3>3. i - Len(q) = j - Len(q)
      BY <3>1, <3>2, <1>1 DEF IsInjective
    <3> QED BY <3>3, <2>2, <1>1
  <2>3. CASE i \in 1 .. Len(q) /\ j \in Len(q) + 1 .. Len(r)
    <3>1. j - Len(q) \in 1 .. Len(s)
      BY <2>3, <1>1
    <3> QED BY <3>1, <2>3, <1>1, <1>3, <1>4
  <2>4. CASE i \in Len(q) + 1 .. Len(r) /\ j \in 1 .. Len(q)
    <3>1. i - Len(q) \in 1 .. Len(s)
      BY <2>4, <1>1
    <3> QED BY <3>1, <2>4, <1>1, <1>3, <1>4
  <2> QED BY <2>1, <2>2, <2>3, <2>4, <1>1
<1>5. ToSet(r) = ToSet(q) \cup ToSet(s)
  <2>1. ASSUME NEW i \in DOMAIN r PROVE r[i] \in ToSet(q) \cup ToSet(s)
    <3>1. CASE i \in 1 .. Len(q)
      BY <3>1, <1>1 DEF ToSet
    <3>2. CASE i \in Len(q) + 1 .. Len(r)
      <4>1. i - Len(q) \in 1 .. Len(s)
        BY <3>2, <1>1
      <4> QED BY <4>1, <3>2, <1>1 DEF ToSet
    <3> QED BY <3>1, <3>2, <1>1
  <2>2. ASSUME NEW i \in DOMAIN q PROVE q[i] \in ToSet(r)
    BY <1>1 DEF ToSet
  <2>3. ASSUME NEW j \in DOMAIN s PROVE s[j] \in ToSet(r)
    BY <1>1, <1>2 DEF ToSet
  <2> QED BY <2>1, <2>2, <2>3 DEF ToSet
<1>6. IsInjective(r)
  BY <1>4 DEF IsInjective
<1> QED BY <1>1, <1>5, <1>6 DEF r

LEMMA FrontFacts ==
  ASSUME NEW S, NEW q \in Seq(S), q # <<>>, IsInjective(q)
  PROVE  /\ Front(q) \in Seq(S) /\ IsInjective(Front(q))
         /\ Last(q) \in S /\ Last(q) \notin ToSet(Front(q))
         /\ ToSet(q) = ToSet(Front(q)) \cup {Last(q)}
         /\ Len(Front(q)) = Len(q) - 1
<1> DEFINE r == Front(q)
<1>0. Len(q) \in Nat \ {0} /\ DOMAIN q = 1 .. Len(q)
  OBVIOUS
<1>1. /\ r \in Seq(S) /\ Len(r) = Len(q) - 1 /\ DOMAIN r = 1 .. Len(q) - 1
      /\ \A i \in 1 .. Len(q) - 1 : r[i] = q[i]
  BY <1>0 DEF Front
<1> HIDE DEF r
<1>2. IsInjective(r)
  BY <1>0, <1>1 DEF IsInjective
<1>3. Last(q) \in S /\ Last(q) \notin ToSet(r)
  BY <1>0, <1>1 DEF Last, ToSet, IsInjective
<1>4. ToSet(q) = ToSet(r) \cup {Last(q)}
  BY <1>0, <1>1 DEF Last, ToSet
<1> QED BY <1>1, <1>2, <1>3, <1>4 DEF r

\* What malloc returns is new to the pool.
LEMMA MallocsFacts ==
  ASSUME NEW n \in Nat, NEW s \in Mallocs(n)
  PROVE  /\ s \in Seq(Block) /\ Len(s) = n /\ IsInjective(s)
         /\ ToSet(s) \cap ToSet(m_vec_all_obj) = {}
<1>1. s \in [1 .. n -> Block \ ToSet(m_vec_all_obj)] /\ IsInjective(s)
  BY DEF Mallocs
<1>2. s \in Seq(Block) /\ Len(s) = n
  BY <1>1
<1> QED BY <1>1, <1>2 DEF ToSet

-----------------------------------------------------------------------------
(* The inductive invariant.                                                *)

LEMMA EmptyFacts ==
  /\ <<>> \in Seq(Block) /\ IsInjective(<<>>) /\ ToSet(<<>>) = {} /\ Len(<<>>) = 0
  /\ IsFiniteSet({}) /\ Cardinality({}) = 0
  BY FS_EmptySet DEF IsInjective, ToSet

LEMMA PoolInitInv == PoolInit => PoolInv
<1> SUFFICES ASSUME PoolInit PROVE PoolInv
  OBVIOUS
<1>1. PoolTypeOK
  BY EmptyFacts DEF PoolInit, PoolTypeOK
<1>2. Len(m_vec_all_obj) = 0 /\ Len(m_vec_free_obj) = 0 /\ Cardinality(inUse) = 0
  BY EmptyFacts DEF PoolInit
<1>3. GetAllocateNum = Cardinality(inUse)
  BY <1>2 DEF GetAllocateNum
<1>4. /\ IsInjective(m_vec_all_obj) /\ IsInjective(m_vec_free_obj) /\ IsFiniteSet(inUse)
      /\ ToSet(m_vec_all_obj) = {} /\ ToSet(m_vec_free_obj) = {} /\ inUse = {}
  BY EmptyFacts DEF PoolInit
<1>5. BlocksConserved
  BY <1>3, <1>4 DEF BlocksConserved
<1> QED BY <1>1, <1>4, <1>5 DEF PoolInv

LEMMA SetBufferSizeInv ==
  ASSUME PoolInv, NEW n \in 0 .. Grow, SetBufferSize(n)
  PROVE  PoolInv'
<1> USE DEF PoolInv
<1>1. PICK s \in Mallocs(n) : m_vec_all_obj' = s /\ m_vec_free_obj' = s
  BY DEF SetBufferSize
<1>2. n \in Nat
  BY PoolConstants
<1>3. s \in Seq(Block) /\ IsInjective(s) /\ Len(s) \in Nat
  BY <1>2, MallocsFacts
<1>4. inUse = {} /\ Cardinality(inUse) = 0
  BY EmptyFacts DEF SetBufferSize, BlocksConserved
<1> QED
  BY <1>1, <1>3, <1>4
     DEF SetBufferSize, PoolTypeOK, BlocksConserved, GetAllocateNum

LEMMA AllocateInv == ASSUME PoolInv, Allocate PROVE PoolInv'
<1> USE DEF PoolInv
<1>1. PICK s \in IF m_vec_free_obj = <<>> THEN Mallocs(Grow) ELSE {<<>>} :
        LET free == m_vec_free_obj \o s
        IN /\ m_vec_all_obj' = m_vec_all_obj \o s
           /\ m_vec_free_obj' = Front(free)
           /\ inUse' = inUse \cup {Last(free)}
  BY DEF Allocate
<1> DEFINE all == m_vec_all_obj \o s
           free == m_vec_free_obj \o s
<1>2. /\ s \in Seq(Block) /\ IsInjective(s) /\ ToSet(s) \cap ToSet(m_vec_all_obj) = {}
      /\ m_vec_free_obj = <<>> => Len(s) > 0
  <2>1. CASE m_vec_free_obj = <<>>
    BY <2>1, <1>1, MallocsFacts, PoolConstants
  <2>2. CASE m_vec_free_obj # <<>>
    BY <2>2, <1>1, EmptyFacts
  <2> QED BY <2>1, <2>2
<1>3. ToSet(s) \cap ToSet(m_vec_free_obj) = {} /\ ToSet(s) \cap inUse = {}
  BY <1>2 DEF BlocksConserved
<1>4. /\ all \in Seq(Block) /\ IsInjective(all)
      /\ ToSet(all) = ToSet(m_vec_all_obj) \cup ToSet(s)
      /\ Len(all) = Len(m_vec_all_obj) + Len(s)
  BY <1>2, ConcatFacts DEF PoolTypeOK, BlocksConserved
<1>5. /\ free \in Seq(Block) /\ IsInjective(free)
      /\ ToSet(free) = ToSet(m_vec_free_obj) \cup ToSet(s)
      /\ Len(free) = Len(m_vec_free_obj) + Len(s)
  BY <1>2, <1>3, ConcatFacts DEF PoolTypeOK, BlocksConserved
<1>6. Len(m_vec_free_obj) \in Nat /\ Len(m_vec_all_obj) \in Nat /\ Len(s) \in Nat
  BY <1>2 DEF PoolTypeOK
<1>7. free # <<>>
  <2>1. m_vec_free_obj # <<>> => Len(m_vec_free_obj) # 0
    BY DEF PoolTypeOK
  <2>2. Len(free) # 0
    BY <2>1, <1>2, <1>5, <1>6
  <2> HIDE DEF free
  <2> QED BY <2>2, EmptyFacts
<1> HIDE DEF all, free
<1>8. /\ Front(free) \in Seq(Block) /\ IsInjective(Front(free))
      /\ Last(free) \in Block /\ Last(free) \notin ToSet(Front(free))
      /\ ToSet(free) = ToSet(Front(free)) \cup {Last(free)}
      /\ Len(Front(free)) = Len(free) - 1
  BY <1>5, <1>7, FrontFacts
<1>9. /\ m_vec_all_obj' = all /\ m_vec_free_obj' = Front(free)
      /\ inUse' = inUse \cup {Last(free)}
  BY <1>1 DEF all, free
<1>10. Last(free) \notin inUse
  BY <1>3, <1>5, <1>8 DEF BlocksConserved
<1>11. IsFiniteSet(inUse') /\ Cardinality(inUse') = Cardinality(inUse) + 1
  BY <1>9, <1>10, FS_AddElement
<1>12. Cardinality(inUse) \in Nat
  BY FS_CardinalityType
<1>13. PoolTypeOK'
  BY <1>4, <1>8, <1>9 DEF PoolTypeOK, Allocate
<1>14. (GetAllocateNum = Cardinality(inUse))'
  BY <1>4, <1>5, <1>6, <1>8, <1>9, <1>11, <1>12 DEF GetAllocateNum, BlocksConserved
<1>15. ToSet(Front(free)) \cap inUse' = {}
  BY <1>3, <1>5, <1>8, <1>9 DEF BlocksConserved
<1>16. ToSet(all) = ToSet(Front(free)) \cup inUse'
  BY <1>4, <1>5, <1>8, <1>9 DEF BlocksConserved
<1> QED
  BY <1>4, <1>8, <1>9, <1>11, <1>13, <1>14, <1>15, <1>16 DEF BlocksConserved

LEMMA FreeInv == ASSUME PoolInv, NEW pT \in Block, Free(pT) PROVE PoolInv'
<1> USE DEF PoolInv
<1>1. CASE pT \notin ToSet(m_vec_all_obj) \ ToSet(m_vec_free_obj)
  BY <1>1 DEF Free, PoolTypeOK, BlocksConserved, GetAllocateNum
<1>2. CASE pT \in ToSet(m_vec_all_obj) \ ToSet(m_vec_free_obj)
  <2>1. /\ m_vec_free_obj' = Append(m_vec_free_obj, pT) /\ inUse' = inUse \ {pT}
        /\ UNCHANGED <<m_vec_all_obj, aborted>>
    BY <1>2 DEF Free
  <2>2. pT \in inUse
    BY <1>2 DEF BlocksConserved
  <2>3. /\ m_vec_free_obj' \in Seq(Block) /\ IsInjective(m_vec_free_obj')
        /\ ToSet(m_vec_free_obj') = ToSet(m_vec_free_obj) \cup {pT}
        /\ Len(m_vec_free_obj') = Len(m_vec_free_obj) + 1
    BY <1>2, <2>1, AppendFacts DEF PoolTypeOK, BlocksConserved
  <2>4. IsFiniteSet(inUse') /\ Cardinality(inUse') = Cardinality(inUse) - 1
    BY <2>1, <2>2, FS_RemoveElement
  <2>5. /\ Cardinality(inUse) \in Nat
        /\ Len(m_vec_free_obj) \in Nat /\ Len(m_vec_all_obj) \in Nat
    BY FS_CardinalityType DEF PoolTypeOK
  <2>6. PoolTypeOK'
    BY <2>1, <2>3 DEF PoolTypeOK
  <2>7. (GetAllocateNum = Cardinality(inUse))'
    BY <2>1, <2>3, <2>4, <2>5 DEF GetAllocateNum, BlocksConserved
  <2>8. ToSet(m_vec_free_obj') \cap inUse' = {}
    BY <2>1, <2>3 DEF BlocksConserved
  <2>9. ToSet(m_vec_all_obj) = ToSet(m_vec_free_obj') \cup inUse'
    BY <2>1, <2>2, <2>3 DEF BlocksConserved
  <2> QED
    BY <2>1, <2>3, <2>4, <2>6, <2>7, <2>8, <2>9 DEF BlocksConserved
<1> QED BY <1>1, <1>2

LEMMA ClearInv == ASSUME PoolInv, Clear PROVE PoolInv'
  BY EmptyFacts DEF Clear, PoolInv, PoolTypeOK, BlocksConserved, GetAllocateNum

LEMMA PoolStepInv == PoolInv /\ [PoolNext]_poolVars => PoolInv'
<1> SUFFICES ASSUME PoolInv, [PoolNext]_poolVars PROVE PoolInv'
  OBVIOUS
<1>1. CASE UNCHANGED poolVars
  BY <1>1 DEF poolVars, PoolInv, PoolTypeOK, BlocksConserved, GetAllocateNum
<1> QED
  BY <1>1, SetBufferSizeInv, AllocateInv, FreeInv, ClearInv DEF PoolNext

LEMMA PoolInvAlways == PoolSpec => []PoolInv
<1> QED BY PoolInitInv, PoolStepInv, PTL DEF PoolSpec

\* No block is lost or in use twice, and GetAllocateNum counts the objects,
\* whatever the program deletes, twice or by mistake.
THEOREM BlocksStayConserved == PoolSpec => []BlocksConserved
<1>1. PoolInv => BlocksConserved
  BY DEF PoolInv
<1> QED BY <1>1, PoolInvAlways, PTL

(***************************************************************************)
(* The single process.                                                     *)
(***************************************************************************)
SingleInv == SingleTypeOK /\ HolderAdmitted

LEMMA SingleInitInv == SingleInit => SingleInv
  BY SingleConstants
     DEF SingleInit, SingleInv, SingleTypeOK, HolderAdmitted, Admitted

\* The end of a process frees its own lock and nobody else's.
LEMMA GoneInv ==
  ASSUME SingleInv, NEW p \in Proc, Gone(p), UNCHANGED fileMade,
         target' \in [Stopper -> Proc \cup {NoProc}]
  PROVE  SingleInv'
<1>1. SingleTypeOK'
  BY DEF SingleInv, SingleTypeOK, Gone
<1>2. HolderAdmitted'
  <2> SUFFICES ASSUME NEW q \in Proc PROVE Admitted(q)' <=> holder' = q
    BY DEF HolderAdmitted
  <2>1. Admitted(q) <=> holder = q
    BY DEF SingleInv, HolderAdmitted
  <2>2. CASE q = p
    BY <2>2, SingleConstants DEF Gone, SingleInv, SingleTypeOK, Admitted
  <2>3. CASE q # p
    BY <2>1, <2>3, SingleConstants DEF Gone, SingleInv, SingleTypeOK, Admitted
  <2> QED BY <2>2, <2>3
<1> QED BY <1>1, <1>2 DEF SingleInv

\* A step that leaves the lock alone and no process moves across the gate.
LEMMA SameSideInv ==
  ASSUME SingleInv, SingleTypeOK', UNCHANGED holder,
         \A q \in Proc : Admitted(q)' <=> Admitted(q)
  PROVE  SingleInv'
  BY DEF SingleInv, HolderAdmitted

LEMMA SingleStepInv == SingleInv /\ [SingleNext]_singleVars => SingleInv'
<1> SUFFICES ASSUME SingleInv, [SingleNext]_singleVars PROVE SingleInv'
  OBVIOUS
<1> USE DEF SingleInv
<1>1. ASSUME NEW p \in Proc, LockOpens(p) PROVE SingleInv'
  <2>1. SingleTypeOK'
    BY <1>1 DEF LockOpens, At, SingleTypeOK
  <2>2. \A q \in Proc : Admitted(q)' <=> Admitted(q)
    BY <1>1 DEF LockOpens, At, SingleTypeOK, Admitted
  <2> QED BY <1>1, <2>1, <2>2, SameSideInv DEF LockOpens
<1>2. ASSUME NEW p \in Proc, LockTests(p) PROVE SingleInv'
  <2>1. CASE holder \in {NoProc, p}
    <3>1. SingleTypeOK'
      BY <1>2, <2>1 DEF LockTests, At, SingleTypeOK
    <3>2. \A q \in Proc : Admitted(q)' <=> Admitted(q)
      BY <1>2, <2>1 DEF LockTests, At, SingleTypeOK, Admitted
    <3> QED BY <1>2, <2>1, <3>1, <3>2, SameSideInv DEF LockTests
  <2>2. CASE holder \notin {NoProc, p}
    BY <1>2, <2>2, GoneInv DEF LockTests, SingleTypeOK
  <2> QED BY <2>1, <2>2
<1>3. ASSUME NEW p \in Proc, LockTaken(p) PROVE SingleInv'
  <2>1. SingleTypeOK'
    BY <1>3 DEF LockTaken, At, SingleTypeOK
  <2>2. HolderAdmitted'
    <3> SUFFICES ASSUME NEW q \in Proc PROVE Admitted(q)' <=> holder' = q
      BY DEF HolderAdmitted
    <3>1. CASE q = p
      BY <1>3, <3>1 DEF LockTaken, At, SingleTypeOK, Admitted
    <3>2. CASE q # p
      <4>1. ~Admitted(q)
        BY <1>3, <3>2, SingleConstants DEF LockTaken, HolderAdmitted
      <4> QED BY <1>3, <3>2, <4>1 DEF LockTaken, At, SingleTypeOK, Admitted
    <3> QED BY <3>1, <3>2
  <2> QED BY <2>1, <2>2
<1>4. ASSUME NEW p \in Proc, CatchesSignal(p) \/ TimerSeesExit(p) PROVE SingleInv'
  <2>1. SingleTypeOK'
    BY <1>4 DEF CatchesSignal, TimerSeesExit, At, SingleTypeOK
  <2>2. \A q \in Proc : Admitted(q)' <=> Admitted(q)
    BY <1>4 DEF CatchesSignal, TimerSeesExit, At, SingleTypeOK, Admitted
  <2> QED BY <1>4, <2>1, <2>2, SameSideInv DEF CatchesSignal, TimerSeesExit
<1>5. ASSUME NEW p \in Proc, Leaves(p) \/ Dies(p) PROVE SingleInv'
  BY <1>5, GoneInv DEF Leaves, Dies, SingleTypeOK
<1>6. ASSUME NEW s \in Stopper, StopLooks(s) PROVE SingleInv'
  <2>1. SingleTypeOK'
    BY <1>6 DEF StopLooks, SingleTypeOK
  <2>2. \A q \in Proc : Admitted(q)' <=> Admitted(q)
    BY <1>6 DEF StopLooks, Admitted
  <2> QED BY <1>6, <2>1, <2>2, SameSideInv DEF StopLooks
<1>7. ASSUME NEW s \in Stopper, StopSignals(s) PROVE SingleInv'
  <2> DEFINE p == target[s]
  <2>1. p \in Proc /\ target' \in [Stopper -> Proc \cup {NoProc}] /\ UNCHANGED fileMade
    BY <1>7 DEF StopSignals, SingleTypeOK
  <2>2. CASE pc[p] \in {"opened", "tested", "locked"}
    <3>1. Gone(p)
      BY <1>7, <2>2 DEF StopSignals
    <3> QED BY <2>1, <3>1, GoneInv
  <2>3. CASE pc[p] \notin {"opened", "tested", "locked"}
    <3>1. UNCHANGED <<pc, holder>> /\ m_is_exit' \in [Proc -> BOOLEAN]
      BY <1>7, <2>1, <2>3 DEF StopSignals, SingleTypeOK
    <3>2. SingleTypeOK'
      BY <2>1, <3>1 DEF SingleTypeOK
    <3>3. \A q \in Proc : Admitted(q)' <=> Admitted(q)
      BY <3>1 DEF Admitted
    <3> QED BY <3>1, <3>2, <3>3, SameSideInv
  <2> QED BY <2>2, <2>3
<1>8. CASE UNCHANGED singleVars
  BY <1>8 DEF singleVars, SingleTypeOK, HolderAdmitted, Admitted
<1> QED
  BY <1>1, <1>2, <1>3, <1>4, <1>5, <1>6, <1>7, <1>8 DEF SingleNext, ProcStep

LEMMA SingleInvAlways == SingleSpec => []SingleInv
<1> QED BY SingleInitInv, SingleStepInv, PTL DEF SingleSpec

\* The model has its type.
THEOREM SingleTypeCorrect == SingleSpec => []SingleTypeOK
<1>1. SingleInv => SingleTypeOK
  BY DEF SingleInv
<1> QED BY <1>1, SingleInvAlways, PTL

\* single_progress.hpp:61: at most one process is past CheckSingle and the lock
\* is its own, however many start, die or are told to leave at the same time.
THEOREM OnlyOneAlways == SingleSpec => []OnlyOne
<1>1. SingleInv => OnlyOne
  BY DEF SingleInv, OnlyOne, HolderAdmitted
<1> QED BY <1>1, SingleInvAlways, PTL

(***************************************************************************)
(* The tool that makes redeem codes.                                       *)
(***************************************************************************)

\* The number of a fun_id of which no code was made yet: -1 in 32 bits.
NoNum == Word - 1

Lines == UNION {[D -> Nat] : D \in SUBSET Nat}
ToolState == [pc : {"none", "write", "reopen", "save", "done"}, fun : Nat,
              num : 0 .. MaxNum, id2idx : Lines, last : Nat]

Numbered(n) == n \in 0 .. UniqueMax \/ n = NoNum

\* A number of f stands for codes that were written, from 0 on.
Stands(f, n, codes) ==
  f = 0 \/ n = NoNum \/ (n <= UniqueMax /\ \A i \in 0 .. n : <<f, i>> \in codes)
LinesStand(m, codes) ==
  \A f \in DOMAIN m : Numbered(m[f]) /\ Stands(f, m[f], codes)

Works(t) == t.pc \notin {"none", "done"}
Final(t) == Wrap(t.last + t.num)

\* What a run holds stands for codes that were written, whatever other runs do.
Sound(t, codes) ==
  Works(t) =>
    /\ LinesStand(t.id2idx, codes)
    /\ t.pc = "write" =>
         t.last = IF t.fun \in DOMAIN t.id2idx THEN t.id2idx[t.fun] ELSE NoNum
    /\ t.pc = "reopen" => Numbered(Final(t)) /\ Stands(t.fun, Final(t), codes)
    /\ t.pc = "save" => t.id2idx # NoLines

\* The lines m know that code was made.
Listed(m, pair) ==
  pair[1] \in DOMAIN m /\ pair[2] <= m[pair[1]] /\ m[pair[1]] <= UniqueMax

\* The run t and the history between them do.
Known(t, lines, pair) ==
  /\ t.pc = "write" => Listed(lines, pair) /\ Listed(t.id2idx, pair)
  /\ t.pc = "reopen" => IF pair[1] = t.fun THEN pair[2] <= Final(t) /\ Final(t) <= UniqueMax
                        ELSE Listed(t.id2idx, pair)
  /\ t.pc = "save" => IF pair[1] \in DOMAIN t.id2idx THEN Listed(t.id2idx, pair)
                      ELSE Listed(lines, pair)

ToolTypes ==
  /\ history \in Lines /\ tool \in [Run -> ToolState]
  /\ handed \subseteq Nat \X Nat

NumbersStand ==
  LinesStand(history, handed) /\ \A r \in Run : Sound(tool[r], handed)

Alone == \A q, r \in Run : Active(q) /\ Active(r) => q = r

CodesKnown ==
  \A pair \in handed : pair[1] # 0 =>
    /\ (\A r \in Run : ~Active(r)) => Listed(history, pair)
    /\ \A r \in Run : Active(r) => Known(tool[r], history, pair)

RedeemInv == ToolTypes /\ NumbersStand /\ (faulty \/ (Alone /\ NoRepeats /\ CodesKnown))

-----------------------------------------------------------------------------
(* Lines and numbers.                                                      *)

LEMMA LinesFacts ==
  /\ \A m \in Lines : DOMAIN m \subseteq Nat /\ \A f \in DOMAIN m : m[f] \in Nat
  /\ \A D \in SUBSET Nat : \A m \in [D -> Nat] : m \in Lines
  /\ NoLines \in Lines /\ DOMAIN NoLines = {}
  BY DEF Lines, NoLines

LEMMA WithFacts ==
  ASSUME NEW m \in Lines, NEW f \in Nat, NEW i \in Nat
  PROVE  /\ With(m, f, i) \in Lines /\ DOMAIN With(m, f, i) = DOMAIN m \cup {f}
         /\ With(m, f, i)[f] = i /\ \A g \in DOMAIN m \ {f} : With(m, f, i)[g] = m[g]
<1> DEFINE D == DOMAIN m \cup {f}
<1>1. D \in SUBSET Nat /\ \A g \in DOMAIN m : m[g] \in Nat
  BY LinesFacts
<1>2. With(m, f, i) \in [D -> Nat]
  BY <1>1 DEF With
<1> QED
  BY <1>1, <1>2, LinesFacts DEF With

LEMMA RestrictedFacts ==
  ASSUME NEW m \in Lines, NEW D \in SUBSET DOMAIN m
  PROVE  LET p == [g \in D |-> m[g]] IN
         p \in Lines /\ DOMAIN p = D /\ \A g \in D : p[g] = m[g]
<1>1. D \in SUBSET Nat /\ \A g \in D : m[g] \in Nat
  BY LinesFacts
<1>2. [g \in D |-> m[g]] \in [D -> Nat]
  BY <1>1
<1> QED
  BY <1>1, <1>2, LinesFacts

\* 32-bit arithmetic wraps at most once here.
LEMMA WrapFacts ==
  /\ Word \in Nat /\ UniqueMax \in Nat /\ MaxNum \in Nat
  /\ UniqueMax + MaxNum < NoNum /\ NoNum = Word - 1
  /\ \A n \in Nat : Wrap(n) \in Nat
  /\ \A n \in 0 .. Word - 1 : Wrap(n) = n
  /\ \A n \in 0 .. Word - 1 : Wrap(Word + n) = n
<1>1. Word \in Nat /\ Word > 0 /\ UniqueMax \in Nat /\ MaxNum \in Nat
      /\ UniqueMax + MaxNum < NoNum /\ NoNum = Word - 1
  BY RedeemConstants DEF NoNum
<1>2. \A n \in Nat : Wrap(n) \in Nat
  BY <1>1 DEF Wrap
<1>3. \A n \in 0 .. Word - 1 : Wrap(n) = n
  BY <1>1 DEF Wrap
<1>4. \A n \in 0 .. Word - 1 : Wrap(Word + n) = n
  BY <1>1 DEF Wrap
<1> QED
  BY <1>1, <1>2, <1>3, <1>4

\* The numbers a run makes codes for follow the last one, or start at 0.
LEMMA NumberFacts ==
  ASSUME NEW last \in Nat, Numbered(last), NEW num \in 0 .. MaxNum
  PROVE  LET first == IF last = NoNum THEN 0 ELSE last + 1 IN
         /\ {Wrap(last + 1 + i) : i \in 0 .. num - 1} = first .. first + num - 1
         /\ Wrap(last + num) = IF num = 0 THEN last ELSE first + num - 1
<1> DEFINE first == IF last = NoNum THEN 0 ELSE last + 1
<1>1. last \in 0 .. Word - 1 /\ first \in Nat /\ num \in Nat
  BY WrapFacts DEF Numbered
<1>2. ASSUME NEW i \in 0 .. num - 1 PROVE Wrap(last + 1 + i) = first + i
  <2>1. CASE last = NoNum
    <3>1. last + 1 + i = Word + i /\ i \in 0 .. Word - 1
      BY <2>1, WrapFacts
    <3> QED
      BY <2>1, <3>1, WrapFacts
  <2>2. CASE last # NoNum
    <3>1. last + 1 + i \in 0 .. Word - 1
      BY <2>2, WrapFacts DEF Numbered
    <3> QED
      BY <2>2, <3>1, WrapFacts
  <2> QED
    BY <2>1, <2>2
<1>3. {Wrap(last + 1 + i) : i \in 0 .. num - 1} = first .. first + num - 1
  <2> HIDE DEF first
  <2>1. ASSUME NEW k \in first .. first + num - 1
        PROVE  \E i \in 0 .. num - 1 : k = Wrap(last + 1 + i)
    <3>1. k - first \in 0 .. num - 1 /\ first + (k - first) = k
      BY <1>1
    <3> QED
      BY <1>2, <3>1
  <2>2. ASSUME NEW i \in 0 .. num - 1
        PROVE  Wrap(last + 1 + i) \in first .. first + num - 1
    <3>1. first + i \in first .. first + num - 1
      BY <1>1
    <3> QED
      BY <1>2, <3>1
  <2> QED
    BY <2>1, <2>2
<1>4. CASE num = 0
  BY <1>1, <1>3, <1>4, WrapFacts
<1>5. CASE num # 0
  <2>1. num - 1 \in 0 .. num - 1 /\ last + 1 + (num - 1) = last + num
        /\ first + (num - 1) = first + num - 1
    BY <1>1, <1>5
  <2>2. Wrap(last + num) = first + num - 1
    BY <1>2, <2>1
  <2> QED
    BY <1>3, <1>5, <2>2
<1> QED
  BY <1>4, <1>5

\* The least of a set of numbers is one of them.
LEMMA LeastIsIn ==
  ASSUME NEW S \in SUBSET Nat, S # {}
  PROVE  Min(S) \in S
<1>1. \E x \in S : \A y \in S : ~(<<y, x>> \in OpToRel(<, Nat))
  BY NatLessThanWellFounded, WFMin
<1>2. ASSUME NEW x \in Nat, NEW y \in Nat, y < x
      PROVE  <<y, x>> \in OpToRel(<, Nat)
  BY <1>2 DEF OpToRel
<1>3. \E x \in S : \A y \in S : x <= y
  <2>1. PICK x \in S : \A y \in S : ~(y < x)
    BY <1>1, <1>2
  <2> QED
    BY <2>1
<1> QED
  BY <1>3 DEF Min

\* Codes that are handed out later take nothing away.
LEMMA SoundMonotone ==
  ASSUME NEW codes, NEW more, codes \subseteq more
  PROVE  /\ \A f, n : Stands(f, n, codes) => Stands(f, n, more)
         /\ \A m : LinesStand(m, codes) => LinesStand(m, more)
         /\ \A t : Sound(t, codes) => Sound(t, more)
<1>1. ASSUME NEW f, NEW n, Stands(f, n, codes) PROVE Stands(f, n, more)
  BY <1>1 DEF Stands
<1>2. ASSUME NEW m, LinesStand(m, codes) PROVE LinesStand(m, more)
  BY <1>1, <1>2 DEF LinesStand
<1>3. ASSUME NEW t, Sound(t, codes) PROVE Sound(t, more)
  BY <1>1, <1>2, <1>3 DEF Sound
<1> QED
  BY <1>1, <1>2, <1>3


-----------------------------------------------------------------------------
(* The steps of a run.                                                     *)

SameOthers(r) == \A q \in Run \ {r} : tool'[q] = tool[q]

LEMMA ToolTyped ==
  ASSUME ToolTypes, NEW r \in Run
  PROVE  /\ tool[r] \in ToolState /\ tool[r].id2idx \in Lines
         /\ tool[r].fun \in Nat /\ tool[r].num \in 0 .. MaxNum /\ tool[r].last \in Nat
         /\ Active(r) <=> Works(tool[r])
         /\ handed \subseteq Nat \X Nat /\ history \in Lines
  BY DEF ToolTypes, ToolState, Active, Works

\* The run ends.
LEMMA EndedShape ==
  ASSUME ToolTypes, NEW r \in Run, tool' = [tool EXCEPT ![r] = [IdleRun EXCEPT !.pc = "done"]]
  PROVE  tool' \in [Run -> ToolState] /\ tool'[r].pc = "done" /\ SameOthers(r)
<1> DEFINE t == [IdleRun EXCEPT !.pc = "done"]
<1>1. t = [pc |-> "done", fun |-> 0, num |-> 0, id2idx |-> NoLines, last |-> 0]
  BY DEF IdleRun
<1>2. t \in ToolState /\ t.pc = "done"
  BY <1>1, LinesFacts, WrapFacts DEF ToolState
<1>3. tool' = [tool EXCEPT ![r] = t]
  OBVIOUS
<1> HIDE DEF t
<1> QED
  BY <1>2, <1>3 DEF ToolTypes, SameOthers

LEMMA ReadShape ==
  ASSUME ToolTypes, NEW r \in Run, NEW f \in Fun, NEW n \in 0 .. MaxNum, ReadHistory(r, f, n)
  PROVE  LET seen == [g \in DOMAIN history \ {0} |-> history[g]] IN
         /\ tool[r].pc = "none" /\ SameOthers(r) /\ tool' \in [Run -> ToolState]
         /\ tool'[r].pc = "write" /\ tool'[r].fun = f /\ tool'[r].num = n
         /\ tool'[r].id2idx = seen /\ seen \in Lines /\ DOMAIN seen = DOMAIN history \ {0}
         /\ \A g \in DOMAIN history \ {0} : seen[g] = history[g]
         /\ tool'[r].last = IF f \in DOMAIN seen THEN seen[f] ELSE NoNum
<1> DEFINE seen == [g \in DOMAIN history \ {0} |-> history[g]]
           last == IF f \in DOMAIN seen THEN seen[f] ELSE Word - 1
           t == [pc |-> "write", fun |-> f, num |-> n, id2idx |-> seen, last |-> last]
<1>1. /\ seen \in Lines /\ DOMAIN seen = DOMAIN history \ {0}
      /\ \A g \in DOMAIN history \ {0} : seen[g] = history[g]
  BY RestrictedFacts DEF ToolTypes
<1>2. \A g \in DOMAIN seen : seen[g] \in Nat
  BY <1>1, LinesFacts
<1>3. tool' = [tool EXCEPT ![r] = t] /\ tool[r].pc = "none"
  BY DEF ReadHistory
<1> HIDE DEF seen
<1>4. last \in Nat /\ f \in Nat
  BY <1>2, WrapFacts, RedeemConstants
<1>5. last = IF f \in DOMAIN seen THEN seen[f] ELSE NoNum
  BY DEF NoNum
<1> HIDE DEF last
<1>6. t \in ToolState
  BY <1>1, <1>4 DEF ToolState
<1> QED
  BY <1>1, <1>3, <1>5, <1>6 DEF ToolTypes, SameOthers, seen

\* The codes of fun_id f with numbers of N.
Codes(f, N) == {<<f, i>> : i \in N}

LEMMA WriteShape ==
  ASSUME ToolTypes, NEW r \in Run, NEW N \in SUBSET Numbers(r), WriteCodes(r, N)
  PROVE  /\ tool[r].pc = "write" /\ SameOthers(r) /\ tool' \in [Run -> ToolState]
         /\ handed' = handed \cup Codes(tool[r].fun, N)
         /\ repeated' = repeated \cup (Codes(tool[r].fun, N) \cap handed)
         /\ \A i \in Numbers(r) : i <= UniqueMax
         /\ UNCHANGED history
         /\ \/ /\ N = Numbers(r) /\ UNCHANGED faulty /\ tool'[r].pc = "reopen"
               /\ tool'[r].fun = tool[r].fun /\ tool'[r].num = tool[r].num
               /\ tool'[r].last = tool[r].last /\ tool'[r].id2idx = tool[r].id2idx
            \/ faulty' /\ tool'[r].pc = "done"
<1>1. /\ tool[r].pc = "write" /\ \A i \in Numbers(r) : i <= UniqueMax
      /\ handed' = handed \cup Codes(tool[r].fun, N)
      /\ repeated' = repeated \cup (Codes(tool[r].fun, N) \cap handed)
      /\ UNCHANGED history
  BY DEF WriteCodes, Creatable, Codes
<1>2. CASE N = Numbers(r)
  <2>1. tool' = [tool EXCEPT ![r].pc = "reopen"] /\ UNCHANGED faulty
    BY <1>2 DEF WriteCodes
  <2> QED
    BY <1>1, <1>2, <2>1 DEF ToolTypes, ToolState, SameOthers
<1>3. CASE N # Numbers(r)
  <2>1. tool' = [tool EXCEPT ![r] = [IdleRun EXCEPT !.pc = "done"]] /\ faulty'
    BY <1>3 DEF WriteCodes
  <2> QED
    BY <1>1, <2>1, EndedShape
<1> QED
  BY <1>2, <1>3

LEMMA ReopenShape ==
  ASSUME ToolTypes, NEW r \in Run, ReopenHistory(r)
  PROVE  LET m == With(tool[r].id2idx, tool[r].fun, Final(tool[r])) IN
         /\ tool[r].pc = "reopen" /\ SameOthers(r) /\ tool' \in [Run -> ToolState]
         /\ history' = NoLines /\ UNCHANGED <<handed, repeated, faulty>>
         /\ tool'[r].pc = "save" /\ tool'[r].id2idx = m /\ m \in Lines
         /\ DOMAIN m = DOMAIN tool[r].id2idx \cup {tool[r].fun}
         /\ m[tool[r].fun] = Final(tool[r])
         /\ \A g \in DOMAIN tool[r].id2idx \ {tool[r].fun} : m[g] = tool[r].id2idx[g]
<1> DEFINE m == With(tool[r].id2idx, tool[r].fun, Final(tool[r]))
<1>1. Final(tool[r]) \in Nat /\ tool[r] \in ToolState /\ tool[r].id2idx \in Lines
      /\ tool[r].fun \in Nat
  BY ToolTyped, WrapFacts DEF Final
<1>2. /\ m \in Lines /\ DOMAIN m = DOMAIN tool[r].id2idx \cup {tool[r].fun}
      /\ m[tool[r].fun] = Final(tool[r])
      /\ \A g \in DOMAIN tool[r].id2idx \ {tool[r].fun} : m[g] = tool[r].id2idx[g]
  <2>1. \A i \in Nat :
           LET w == With(tool[r].id2idx, tool[r].fun, i) IN
           /\ w \in Lines /\ DOMAIN w = DOMAIN tool[r].id2idx \cup {tool[r].fun}
           /\ w[tool[r].fun] = i
           /\ \A g \in DOMAIN tool[r].id2idx \ {tool[r].fun} : w[g] = tool[r].id2idx[g]
    BY <1>1, WithFacts
  <2> QED
    BY <1>1, <2>1
<1>3. tool' = [tool EXCEPT ![r].pc = "save", ![r].id2idx = m]
  BY DEF ReopenHistory, Final
<1>4. tool[r].pc = "reopen" /\ history' = NoLines /\ UNCHANGED <<handed, repeated, faulty>>
  BY DEF ReopenHistory
<1> HIDE DEF m
<1>5. /\ tool' \in [Run -> ToolState] /\ tool'[r].pc = "save" /\ tool'[r].id2idx = m
      /\ SameOthers(r)
  BY <1>1, <1>2, <1>3 DEF ToolTypes, ToolState, SameOthers
<1> QED
  BY <1>2, <1>4, <1>5 DEF m

\* The line of f goes from what the run holds to the history.
LineSaved(r, f) ==
  LET m == tool[r].id2idx IN
  /\ history' \in Lines /\ DOMAIN history' = DOMAIN history \cup {f}
  /\ history'[f] = m[f] /\ \A g \in DOMAIN history \ {f} : history'[g] = history[g]
  /\ \/ DOMAIN m = {f} /\ tool'[r].pc = "done"
     \/ /\ DOMAIN m # {f} /\ tool'[r].pc = "save"
        /\ DOMAIN tool'[r].id2idx = DOMAIN m \ {f}
        /\ \A g \in DOMAIN m \ {f} : tool'[r].id2idx[g] = m[g]

LEMMA SaveShape ==
  ASSUME ToolTypes, NumbersStand, NEW r \in Run, SaveLine(r)
  PROVE  /\ tool[r].pc = "save" /\ SameOthers(r) /\ tool' \in [Run -> ToolState]
         /\ UNCHANGED <<handed, repeated, faulty>>
         /\ \E f \in DOMAIN tool[r].id2idx : LineSaved(r, f)
<1> DEFINE m == tool[r].id2idx
           f == Min(DOMAIN m)
           rest == DOMAIN m \ {f}
           h == With(history, f, m[f])
           p == [g \in rest |-> m[g]]
<1>1. tool[r] \in ToolState /\ m \in Lines /\ history \in Lines
  BY ToolTyped
<1>2. DOMAIN m \subseteq Nat /\ \A g \in DOMAIN m : m[g] \in Nat
  BY <1>1, LinesFacts
<1>3. DOMAIN m # {}
  <2>1. m # NoLines
    BY DEF SaveLine, NumbersStand, Sound, Works
  <2>2. DOMAIN m = {} => m = NoLines
    BY <1>1 DEF Lines, NoLines
  <2> QED
    BY <2>1, <2>2
<1>4. f \in DOMAIN m /\ f \in Nat /\ m[f] \in Nat
  BY <1>2, <1>3, LeastIsIn
<1>5. /\ tool[r].pc = "save" /\ UNCHANGED <<handed, repeated, faulty>>
      /\ history' = h
      /\ tool' = [tool EXCEPT ![r] = IF rest = {} THEN [IdleRun EXCEPT !.pc = "done"]
                                     ELSE [tool[r] EXCEPT !.id2idx = p]]
  BY DEF SaveLine
<1>6. /\ h \in Lines /\ DOMAIN h = DOMAIN history \cup {f}
      /\ h[f] = m[f] /\ \A g \in DOMAIN history \ {f} : h[g] = history[g]
  <2>1. \A g, i \in Nat :
           LET w == With(history, g, i) IN
           /\ w \in Lines /\ DOMAIN w = DOMAIN history \cup {g}
           /\ w[g] = i /\ \A k \in DOMAIN history \ {g} : w[k] = history[k]
    BY <1>1, WithFacts
  <2> QED
    BY <1>4, <2>1
<1>7. p \in Lines /\ DOMAIN p = rest /\ \A g \in rest : p[g] = m[g]
  BY <1>1, RestrictedFacts
<1> HIDE DEF p, h, f
<1>8. CASE rest = {}
  <2>1. DOMAIN m = {f}
    BY <1>4, <1>8
  <2>2. tool' \in [Run -> ToolState] /\ tool'[r].pc = "done" /\ SameOthers(r)
    BY <1>5, <1>8, EndedShape
  <2> QED
    BY <1>4, <1>5, <1>6, <2>1, <2>2 DEF LineSaved
<1>9. CASE rest # {}
  <2>1. /\ tool' \in [Run -> ToolState] /\ tool'[r].pc = "save" /\ tool'[r].id2idx = p
        /\ SameOthers(r)
    BY <1>1, <1>5, <1>7, <1>9 DEF ToolTypes, ToolState, SameOthers
  <2> QED
    BY <1>4, <1>5, <1>6, <1>7, <1>9, <2>1 DEF LineSaved
<1> QED
  BY <1>8, <1>9


-----------------------------------------------------------------------------
(* The inductive invariant.                                                *)

\* A step of one run that keeps, of what the others rely on, codes and its own
\* soundness.
LEMMA StandStep ==
  ASSUME RedeemInv, NEW r \in Run, SameOthers(r), tool' \in [Run -> ToolState],
         history' \in Lines, handed \subseteq handed', handed' \subseteq Nat \X Nat,
         LinesStand(history', handed'), Sound(tool'[r], handed')
  PROVE  ToolTypes' /\ NumbersStand'
<1>1. ASSUME NEW q \in Run PROVE Sound(tool'[q], handed')
  <2>1. CASE q = r
    BY <2>1
  <2>2. CASE q # r
    <3>1. tool'[q] = tool[q] /\ Sound(tool[q], handed)
      BY <2>2 DEF SameOthers, RedeemInv, NumbersStand
    <3> QED
      BY <3>1, SoundMonotone
  <2> QED
    BY <2>1, <2>2
<1>2. NumbersStand'
  BY <1>1 DEF NumbersStand
<1> QED
  BY <1>2 DEF ToolTypes

\* A run that is alone at work takes a step, or the first run starts.
LEMMA AloneStep ==
  ASSUME RedeemInv, NEW r \in Run, SameOthers(r), tool' \in [Run -> ToolState],
         \A q \in Run \ {r} : ~Active(q)
  PROVE  /\ Alone'
         /\ (\A pair \in handed' : pair[1] # 0 =>
               /\ ~Works(tool'[r]) => Listed(history', pair)
               /\ Works(tool'[r]) => Known(tool'[r], history', pair)) => CodesKnown'
<1>1. \A q \in Run : Active(q)' <=> q = r /\ Works(tool'[r])
  BY DEF SameOthers, Active, Works
<1>2. Alone'
  BY <1>1 DEF Alone
<1>3. ASSUME \A pair \in handed' : pair[1] # 0 =>
               /\ ~Works(tool'[r]) => Listed(history', pair)
               /\ Works(tool'[r]) => Known(tool'[r], history', pair)
      PROVE  CodesKnown'
  BY <1>1, <1>3 DEF CodesKnown
<1> QED
  BY <1>2, <1>3

LEMMA ReadInv ==
  ASSUME RedeemInv, NEW r \in Run, NEW f \in Fun, NEW n \in 0 .. MaxNum, ReadHistory(r, f, n)
  PROVE  RedeemInv'
<1> DEFINE seen == [g \in DOMAIN history \ {0} |-> history[g]]
<1>0. ToolTypes /\ LinesStand(history, handed)
  BY DEF RedeemInv, NumbersStand
<1>1. /\ tool[r].pc = "none" /\ SameOthers(r) /\ tool' \in [Run -> ToolState]
      /\ tool'[r].pc = "write" /\ tool'[r].fun = f /\ tool'[r].num = n
      /\ tool'[r].id2idx = seen /\ seen \in Lines /\ DOMAIN seen = DOMAIN history \ {0}
      /\ \A g \in DOMAIN history \ {0} : seen[g] = history[g]
      /\ tool'[r].last = IF f \in DOMAIN seen THEN seen[f] ELSE NoNum
  BY <1>0, ReadShape
<1>2. /\ UNCHANGED <<history, handed, repeated>>
      /\ faulty' = (faulty \/ \E q \in Run : Active(q))
  BY DEF ReadHistory
<1> HIDE DEF seen
<1>3. LinesStand(seen, handed)
  BY <1>0, <1>1 DEF LinesStand
<1>4. Sound(tool'[r], handed')
  BY <1>1, <1>2, <1>3 DEF Sound
<1>5. ToolTypes' /\ NumbersStand'
  BY <1>0, <1>1, <1>2, <1>4, StandStep DEF ToolTypes
<1>6. ASSUME ~faulty' PROVE Alone' /\ NoRepeats' /\ CodesKnown'
  <2>1. ~faulty /\ (\A q \in Run : ~Active(q)) /\ NoRepeats /\ CodesKnown
    BY <1>2, <1>6 DEF RedeemInv
  <2>2. ASSUME NEW pair \in handed', pair[1] # 0 PROVE Known(tool'[r], history', pair)
    <3>1. Listed(history, pair)
      BY <1>2, <2>1, <2>2 DEF CodesKnown
    <3>2. Listed(seen, pair)
      BY <1>1, <2>2, <3>1 DEF Listed
    <3> QED
      BY <1>1, <1>2, <3>1, <3>2 DEF Known
  <2>3. Works(tool'[r])
    BY <1>1 DEF Works
  <2> QED
    BY <1>1, <1>2, <2>1, <2>2, <2>3, AloneStep DEF NoRepeats
<1> QED
  BY <1>5, <1>6 DEF RedeemInv

\* A run that ends without touching the history leaves it in order.
LEMMA EndInv ==
  ASSUME RedeemInv, NEW r \in Run, UNCHANGED history, handed \subseteq handed',
         handed' \subseteq Nat \X Nat,
         SameOthers(r), tool' \in [Run -> ToolState], tool'[r].pc = "done",
         \/ faulty'
         \/ faulty' = faulty /\ UNCHANGED <<handed, repeated>> /\ tool[r].pc = "write"
  PROVE  RedeemInv'
<1>1. LinesStand(history', handed') /\ Sound(tool'[r], handed') /\ history' \in Lines
  BY SoundMonotone DEF RedeemInv, NumbersStand, ToolTypes, Sound, Works
<1>2. ToolTypes' /\ NumbersStand'
  BY <1>1, StandStep
<1>3. ASSUME ~faulty' PROVE Alone' /\ NoRepeats' /\ CodesKnown'
  <2>1. Alone /\ NoRepeats /\ CodesKnown /\ Active(r) /\ UNCHANGED <<handed, repeated>>
    BY <1>3 DEF RedeemInv, Active
  <2>2. \A q \in Run \ {r} : ~Active(q)
    BY <2>1 DEF Alone
  <2>3. ~Works(tool'[r])
    BY DEF Works
  <2>4. ASSUME NEW pair \in handed', pair[1] # 0 PROVE Listed(history', pair)
    BY <1>3, <2>1, <2>4 DEF CodesKnown, Known
  <2> QED
    BY <2>1, <2>2, <2>3, <2>4, AloneStep DEF NoRepeats
<1> QED
  BY <1>2, <1>3 DEF RedeemInv

\* What a run that may make its codes is about to do: the numbers follow those
\* of the codes made before, and the last of them is the one to be saved.
LEMMA NewNumbers ==
  ASSUME RedeemInv, NEW r \in Run, tool[r].pc = "write", \A i \in Numbers(r) : i <= UniqueMax
  PROVE  LET t == tool[r] IN
         /\ Numbers(r) \subseteq Nat /\ Numbered(Final(t))
         /\ \A i \in Numbers(r) : i <= Final(t) /\ Final(t) <= UniqueMax
         /\ t.last # NoNum => t.last <= UniqueMax /\ t.last <= Final(t) /\ Final(t) <= UniqueMax
                              /\ \A i \in Numbers(r) : t.last < i
         /\ Stands(t.fun, Final(t), handed \cup Codes(t.fun, Numbers(r)))
<1> DEFINE t == tool[r]
           first == IF t.last = NoNum THEN 0 ELSE t.last + 1
<1>1. t \in ToolState /\ t.last \in Nat /\ t.num \in 0 .. MaxNum /\ t.fun \in Nat
  BY ToolTyped DEF RedeemInv
<1>2. /\ Numbered(t.last) /\ Stands(t.fun, t.last, handed)
  <2>1. LinesStand(t.id2idx, handed)
        /\ t.last = IF t.fun \in DOMAIN t.id2idx THEN t.id2idx[t.fun] ELSE NoNum
    BY DEF RedeemInv, NumbersStand, Sound, Works
  <2> QED
    BY <2>1 DEF LinesStand, Numbered, Stands
<1>3. /\ Numbers(r) = first .. first + t.num - 1
      /\ Final(t) = IF t.num = 0 THEN t.last ELSE first + t.num - 1
  BY <1>1, <1>2, NumberFacts DEF Numbers, Final
<1>4. first \in Nat /\ NoNum \in Nat /\ UniqueMax < NoNum /\ UniqueMax \in Nat /\ MaxNum \in Nat
  BY <1>1, WrapFacts
<1>5. t.last # NoNum => t.last <= UniqueMax /\ t.last + 1 = first
  BY <1>2, <1>4 DEF Numbered
<1>6. t.last = NoNum => first = 0
  OBVIOUS
<1> DEFINE last == t.last
           num == t.num
           N == Numbers(r)
           F == Final(t)
           f == t.fun
           C == handed \cup Codes(f, N)
<1>7. /\ last \in Nat /\ num \in Nat /\ Numbered(last) /\ Stands(f, last, handed)
      /\ N = first .. first + num - 1
      /\ F = IF num = 0 THEN last ELSE first + num - 1
      /\ \A i \in N : i <= UniqueMax
      /\ last # NoNum => last <= UniqueMax /\ last + 1 = first
      /\ last = NoNum => first = 0
  BY <1>1, <1>2, <1>3, <1>4, <1>5, <1>6
<1>8. \A i \in N : <<f, i>> \in C
  BY DEF Codes
<1>9. handed \subseteq C
  OBVIOUS
<1> HIDE DEF last, num, N, F, f, C, first
<1>10. N \subseteq Nat
  BY <1>4, <1>7
<1>11. CASE num = 0
  <2>1. F = last /\ \A i \in N : FALSE
    BY <1>4, <1>7, <1>11
  <2>2. Stands(f, F, C)
    BY <1>7, <1>9, <2>1, SoundMonotone
  <2>3. Numbered(F) /\ (last # NoNum => last <= UniqueMax /\ last <= F /\ F <= UniqueMax)
    BY <1>7, <2>1
  <2> QED
    BY <1>10, <2>1, <2>2, <2>3 DEF last, num, N, F, f, C
<1>12. CASE num # 0
  <2>1. F = first + num - 1 /\ F \in N /\ F \in Nat /\ F <= UniqueMax /\ Numbered(F)
    BY <1>4, <1>7, <1>12 DEF Numbered
  <2>2. \A i \in N : i <= F
    BY <1>4, <1>7, <2>1
  <2>3. last # NoNum => last <= UniqueMax /\ last <= F /\ \A i \in N : last < i
    BY <1>4, <1>7, <2>1
  <2>4. Stands(f, F, C)
    <3>1. ASSUME f # 0, NEW i \in 0 .. F PROVE <<f, i>> \in C
      <4>1. CASE i \in N
        BY <1>8, <4>1
      <4>2. CASE i \notin N
        <5>1. last # NoNum /\ i \in 0 .. last
          BY <1>4, <1>7, <2>1, <4>2
        <5> QED
          BY <1>7, <1>9, <3>1, <5>1 DEF Stands
      <4> QED
        BY <4>1, <4>2
    <3> QED
      BY <2>1, <3>1 DEF Stands
  <2> QED
    BY <1>10, <2>1, <2>2, <2>3, <2>4 DEF last, num, N, F, f, C
<1> QED
  BY <1>11, <1>12


LEMMA WriteInv ==
  ASSUME RedeemInv, NEW r \in Run, NEW N \in SUBSET Numbers(r), WriteCodes(r, N)
  PROVE  RedeemInv'
<1> DEFINE t == tool[r]
           new == Codes(t.fun, N)
<1>1. /\ t.pc = "write" /\ SameOthers(r) /\ tool' \in [Run -> ToolState]
      /\ handed' = handed \cup new /\ repeated' = repeated \cup (new \cap handed)
      /\ \A i \in Numbers(r) : i <= UniqueMax
      /\ UNCHANGED history
      /\ \/ /\ N = Numbers(r) /\ UNCHANGED faulty /\ tool'[r].pc = "reopen"
            /\ tool'[r].fun = t.fun /\ tool'[r].num = t.num
            /\ tool'[r].last = t.last /\ tool'[r].id2idx = t.id2idx
         \/ faulty' /\ tool'[r].pc = "done"
  BY WriteShape DEF RedeemInv
<1>2. /\ Numbers(r) \subseteq Nat /\ Numbered(Final(t))
      /\ \A i \in Numbers(r) : i <= Final(t) /\ Final(t) <= UniqueMax
      /\ t.last # NoNum => t.last <= UniqueMax /\ t.last <= Final(t) /\ Final(t) <= UniqueMax
                           /\ \A i \in Numbers(r) : t.last < i
      /\ Stands(t.fun, Final(t), handed \cup Codes(t.fun, Numbers(r)))
  BY <1>1, NewNumbers
<1>3. /\ t.fun \in Nat /\ t.last \in Nat /\ handed \subseteq Nat \X Nat
      /\ LinesStand(t.id2idx, handed)
      /\ t.last = IF t.fun \in DOMAIN t.id2idx THEN t.id2idx[t.fun] ELSE NoNum
  BY <1>1, ToolTyped DEF RedeemInv, NumbersStand, Sound, Works
<1>4. handed \subseteq handed' /\ handed' \subseteq Nat \X Nat
  BY <1>1, <1>2, <1>3 DEF Codes
<1>5. CASE faulty' /\ tool'[r].pc = "done"
  BY <1>1, <1>4, <1>5, EndInv
<1>6. CASE /\ N = Numbers(r) /\ UNCHANGED faulty /\ tool'[r].pc = "reopen"
           /\ tool'[r].fun = t.fun /\ tool'[r].num = t.num
           /\ tool'[r].last = t.last /\ tool'[r].id2idx = t.id2idx
  <2>1. Final(tool'[r]) = Final(t)
    BY <1>6 DEF Final
  <2>2. LinesStand(history', handed') /\ LinesStand(t.id2idx, handed') /\ history' \in Lines
    BY <1>1, <1>3, <1>4, SoundMonotone DEF RedeemInv, NumbersStand, ToolTypes
  <2>3. Stands(t.fun, Final(t), handed')
    BY <1>1, <1>2, <1>6
  <2>4. Sound(tool'[r], handed')
    BY <1>2, <1>6, <2>1, <2>2, <2>3 DEF Sound
  <2>5. ToolTypes' /\ NumbersStand'
    BY <1>1, <1>4, <2>2, <2>4, StandStep
  <2>6. ASSUME ~faulty' PROVE Alone' /\ NoRepeats' /\ CodesKnown'
    <3>1. Alone /\ NoRepeats /\ CodesKnown /\ Active(r)
      BY <1>1, <1>6, <2>6 DEF RedeemInv, Active
    <3>2. \A q \in Run \ {r} : ~Active(q)
      BY <3>1 DEF Alone
    <3>3. ASSUME NEW pair \in handed, pair[1] # 0 PROVE Listed(t.id2idx, pair)
      BY <1>1, <3>1, <3>3 DEF CodesKnown, Known
    <3>4. ASSUME NEW pair \in handed, pair[1] # 0, pair[1] = t.fun
          PROVE  t.last # NoNum /\ pair[2] <= t.last
      BY <1>3, <3>3, <3>4, WrapFacts DEF Listed
    <3>5. ASSUME NEW i \in N, t.fun # 0 PROVE <<t.fun, i>> \notin handed
      <4>1. i \in Nat /\ i \in Numbers(r)
        BY <1>2
      <4>2. SUFFICES ASSUME <<t.fun, i>> \in handed PROVE FALSE
        OBVIOUS
      <4>3. t.last # NoNum /\ i <= t.last
        BY <3>4, <3>5, <4>2
      <4> QED
        BY <1>2, <1>3, <4>1, <4>3
    <3>6. NoRepeats'
      BY <1>1, <3>1, <3>5 DEF NoRepeats, Codes
    <3>7. ASSUME NEW pair \in handed', pair[1] # 0 PROVE Known(tool'[r], history', pair)
      <4>1. CASE pair \in handed
        <5>1. Listed(t.id2idx, pair) /\ pair[2] \in Nat
          BY <1>3, <3>3, <3>7, <4>1
        <5>2. pair[1] = t.fun => pair[2] <= Final(t) /\ Final(t) <= UniqueMax
          <6>1. ASSUME pair[1] = t.fun PROVE pair[2] <= Final(t) /\ Final(t) <= UniqueMax
            <7>1. t.last # NoNum /\ pair[2] <= t.last
              BY <3>4, <3>7, <4>1, <6>1
            <7>2. t.last <= Final(t) /\ Final(t) <= UniqueMax /\ Final(t) \in Nat
              BY <1>2, <7>1, WrapFacts DEF Numbered
            <7> QED
              BY <1>3, <5>1, <7>1, <7>2
          <6> QED
            BY <6>1
        <5> QED
          BY <1>6, <2>1, <5>1, <5>2 DEF Known
      <4>2. CASE pair \in new
        <5>1. PICK i \in N : pair = <<t.fun, i>>
          BY <4>2 DEF Codes
        <5>2. pair[1] = t.fun /\ pair[2] = i /\ i <= Final(t) /\ Final(t) <= UniqueMax
          BY <1>2, <5>1
        <5> QED
          BY <1>6, <2>1, <5>2 DEF Known
      <4> QED
        BY <1>1, <3>7, <4>1, <4>2
    <3>8. Works(tool'[r])
      BY <1>6 DEF Works
    <3> QED
      BY <1>1, <3>2, <3>6, <3>7, <3>8, AloneStep
  <2> QED
    BY <2>5, <2>6 DEF RedeemInv
<1> QED
  BY <1>1, <1>5, <1>6

LEMMA ReopenInv == ASSUME RedeemInv, NEW r \in Run, ReopenHistory(r) PROVE RedeemInv'
<1> DEFINE t == tool[r]
           m == With(t.id2idx, t.fun, Final(t))
<1>1. /\ t.pc = "reopen" /\ SameOthers(r) /\ tool' \in [Run -> ToolState]
      /\ history' = NoLines /\ UNCHANGED <<handed, repeated, faulty>>
      /\ tool'[r].pc = "save" /\ tool'[r].id2idx = m /\ m \in Lines
      /\ DOMAIN m = DOMAIN t.id2idx \cup {t.fun}
      /\ m[t.fun] = Final(t)
      /\ \A g \in DOMAIN t.id2idx \ {t.fun} : m[g] = t.id2idx[g]
  BY ReopenShape DEF RedeemInv
<1>2. LinesStand(t.id2idx, handed) /\ Numbered(Final(t)) /\ Stands(t.fun, Final(t), handed)
  BY <1>1 DEF RedeemInv, NumbersStand, Sound, Works
<1> HIDE DEF m
<1>3. LinesStand(m, handed) /\ m # NoLines
  BY <1>1, <1>2, LinesFacts DEF LinesStand
<1>4. LinesStand(NoLines, handed) /\ NoLines \in Lines
  BY LinesFacts DEF LinesStand
<1>5. Sound(tool'[r], handed')
  BY <1>1, <1>3 DEF Sound
<1>6. ToolTypes' /\ NumbersStand'
  BY <1>1, <1>4, <1>5, StandStep DEF RedeemInv, ToolTypes
<1>7. ASSUME ~faulty' PROVE Alone' /\ NoRepeats' /\ CodesKnown'
  <2>1. Alone /\ NoRepeats /\ CodesKnown /\ Active(r)
    BY <1>1, <1>7 DEF RedeemInv, Active
  <2>2. \A q \in Run \ {r} : ~Active(q)
    BY <2>1 DEF Alone
  <2>3. ASSUME NEW pair \in handed', pair[1] # 0 PROVE Known(tool'[r], history', pair)
    <3>1. IF pair[1] = t.fun THEN pair[2] <= Final(t) /\ Final(t) <= UniqueMax
          ELSE Listed(t.id2idx, pair)
      BY <1>1, <2>1, <2>3 DEF CodesKnown, Known
    <3>2. Listed(m, pair)
      BY <1>1, <3>1 DEF Listed
    <3> QED
      BY <1>1, <3>2 DEF Known, Listed
  <2>4. Works(tool'[r])
    BY <1>1 DEF Works
  <2> QED
    BY <1>1, <2>1, <2>2, <2>3, <2>4, AloneStep DEF NoRepeats
<1> QED
  BY <1>6, <1>7 DEF RedeemInv

LEMMA SaveInv == ASSUME RedeemInv, NEW r \in Run, SaveLine(r) PROVE RedeemInv'
<1> DEFINE m == tool[r].id2idx
<1>1. PICK f \in DOMAIN m :
        /\ tool[r].pc = "save" /\ SameOthers(r) /\ tool' \in [Run -> ToolState]
        /\ UNCHANGED <<handed, repeated, faulty>>
        /\ history' \in Lines /\ DOMAIN history' = DOMAIN history \cup {f}
        /\ history'[f] = m[f] /\ \A g \in DOMAIN history \ {f} : history'[g] = history[g]
        /\ \/ DOMAIN m = {f} /\ tool'[r].pc = "done"
           \/ /\ DOMAIN m # {f} /\ tool'[r].pc = "save"
              /\ DOMAIN tool'[r].id2idx = DOMAIN m \ {f}
              /\ \A g \in DOMAIN m \ {f} : tool'[r].id2idx[g] = m[g]
  BY SaveShape DEF RedeemInv, LineSaved
<1>2. LinesStand(m, handed) /\ LinesStand(history, handed)
  BY <1>1 DEF RedeemInv, NumbersStand, Sound, Works
<1>3. LinesStand(history', handed')
  BY <1>1, <1>2 DEF LinesStand
<1>4. Sound(tool'[r], handed')
  <2>1. CASE tool'[r].pc = "done"
    BY <2>1 DEF Sound, Works
  <2>2. CASE /\ DOMAIN m # {f} /\ tool'[r].pc = "save"
             /\ DOMAIN tool'[r].id2idx = DOMAIN m \ {f}
             /\ \A g \in DOMAIN m \ {f} : tool'[r].id2idx[g] = m[g]
    <3>1. LinesStand(tool'[r].id2idx, handed')
      BY <1>1, <1>2, <2>2 DEF LinesStand
    <3>2. tool'[r].id2idx # NoLines
      BY <2>2, LinesFacts
    <3> QED
      BY <2>2, <3>1, <3>2 DEF Sound
  <2> QED
    BY <1>1, <2>1, <2>2
<1>5. ToolTypes' /\ NumbersStand'
  BY <1>1, <1>3, <1>4, StandStep DEF RedeemInv, ToolTypes
<1>6. ASSUME ~faulty' PROVE Alone' /\ NoRepeats' /\ CodesKnown'
  <2>1. Alone /\ NoRepeats /\ CodesKnown /\ Active(r)
    BY <1>1, <1>6 DEF RedeemInv, Active
  <2>2. \A q \in Run \ {r} : ~Active(q)
    BY <2>1 DEF Alone
  <2>3. ASSUME NEW pair \in handed', pair[1] # 0
        PROVE  /\ pair[1] \in DOMAIN m => Listed(m, pair)
               /\ pair[1] \notin DOMAIN m => Listed(history, pair)
    BY <1>1, <2>1, <2>3 DEF CodesKnown, Known
  <2>4. ASSUME NEW pair \in handed', pair[1] # 0,
               pair[1] = f \/ pair[1] \notin DOMAIN m
        PROVE  Listed(history', pair)
    BY <1>1, <2>3, <2>4 DEF Listed
  <2>5. CASE DOMAIN m = {f} /\ tool'[r].pc = "done"
    <3>1. ~Works(tool'[r])
      BY <2>5 DEF Works
    <3>2. \A pair \in handed' : pair[1] # 0 => Listed(history', pair)
      BY <2>4, <2>5
    <3> QED
      BY <1>1, <2>1, <2>2, <3>1, <3>2, AloneStep DEF NoRepeats
  <2>6. CASE /\ tool'[r].pc = "save" /\ DOMAIN tool'[r].id2idx = DOMAIN m \ {f}
             /\ \A g \in DOMAIN m \ {f} : tool'[r].id2idx[g] = m[g]
    <3>1. Works(tool'[r])
      BY <2>6 DEF Works
    <3>2. ASSUME NEW pair \in handed', pair[1] # 0 PROVE Known(tool'[r], history', pair)
      <4>1. CASE pair[1] \in DOMAIN m \ {f}
        <5>1. Listed(tool'[r].id2idx, pair)
          BY <2>3, <2>6, <3>2, <4>1 DEF Listed
        <5> QED
          BY <2>6, <4>1, <5>1 DEF Known
      <4>2. CASE pair[1] \notin DOMAIN m \ {f}
        <5>1. Listed(history', pair)
          BY <2>4, <3>2, <4>2
        <5> QED
          BY <2>6, <4>2, <5>1 DEF Known
      <4> QED
        BY <4>1, <4>2
    <3> QED
      BY <1>1, <2>1, <2>2, <3>1, <3>2, AloneStep DEF NoRepeats
  <2> QED
    BY <1>1, <2>5, <2>6
<1> QED
  BY <1>5, <1>6 DEF RedeemInv

LEMMA RedeemStepInv == RedeemInv /\ [RedeemNext]_redeemVars => RedeemInv'
<1> SUFFICES ASSUME RedeemInv, [RedeemNext]_redeemVars PROVE RedeemInv'
  OBVIOUS
<1>1. CASE Tick \/ UNCHANGED redeemVars
  <2>1. UNCHANGED <<history, tool, handed, repeated, faulty>>
    BY <1>1 DEF Tick, redeemVars
  <2> QED
    BY <2>1 DEF RedeemInv, ToolTypes, NumbersStand, Alone, NoRepeats, CodesKnown, Active
<1>2. ASSUME NEW r \in Run, NEW f \in Fun, NEW n \in 0 .. MaxNum, ReadHistory(r, f, n)
      PROVE  RedeemInv'
  BY <1>2, ReadInv
<1>3. ASSUME NEW r \in Run, NEW N \in SUBSET Numbers(r), WriteCodes(r, N) PROVE RedeemInv'
  BY <1>3, WriteInv
<1>4. ASSUME NEW r \in Run, CreateFails(r) \/ ReopenFails(r) \/ Killed(r) PROVE RedeemInv'
  <2>1. /\ tool' = [tool EXCEPT ![r] = [IdleRun EXCEPT !.pc = "done"]]
        /\ UNCHANGED <<history, handed, repeated>>
        /\ \/ faulty'
           \/ faulty' = faulty /\ tool[r].pc = "write"
    BY <1>4 DEF CreateFails, ReopenFails, Killed
  <2>2. ToolTypes /\ handed' \subseteq Nat \X Nat /\ handed \subseteq handed'
    BY <2>1 DEF RedeemInv, ToolTypes
  <2>3. tool' \in [Run -> ToolState] /\ tool'[r].pc = "done" /\ SameOthers(r)
    BY <2>1, <2>2, EndedShape
  <2> QED
    BY <2>1, <2>2, <2>3, EndInv
<1>5. ASSUME NEW r \in Run, ReopenHistory(r) PROVE RedeemInv'
  BY <1>5, ReopenInv
<1>6. ASSUME NEW r \in Run, SaveLine(r) PROVE RedeemInv'
  BY <1>6, SaveInv
<1> QED
  BY <1>1, <1>2, <1>3, <1>4, <1>5, <1>6 DEF RedeemNext, ToolStep

LEMMA RedeemInitInv == RedeemInit => RedeemInv
<1> SUFFICES ASSUME RedeemInit PROVE RedeemInv
  OBVIOUS
<1>1. /\ history = NoLines /\ handed = {} /\ repeated = {} /\ ~faulty
      /\ tool = [r \in Run |-> IdleRun]
  BY DEF RedeemInit
<1>2. IdleRun \in ToolState /\ IdleRun.pc = "none"
  BY LinesFacts, WrapFacts DEF IdleRun, ToolState
<1>3. \A r \in Run : ~Active(r) /\ ~Works(tool[r])
  BY <1>1, <1>2 DEF Active, Works
<1>4. ToolTypes /\ NumbersStand
  BY <1>1, <1>2, <1>3, LinesFacts DEF ToolTypes, NumbersStand, LinesStand, Sound
<1> QED
  BY <1>1, <1>3, <1>4 DEF RedeemInv, Alone, NoRepeats, CodesKnown

\* What the tool hands out, for any number of runs, fun_ids and codes: while runs
\* end and do not overlap no code repeats (but for fun_id 0) and the history knows
\* all; and whatever runs are killed, fail or overlap, no number is skipped.
THEOREM HistoryStaysExact == RedeemSpec => []HistoryExact
<1>1. RedeemInv => HistoryExact
  <2> SUFFICES ASSUME RedeemInv PROVE HistoryExact
    OBVIOUS
  <2>1. ASSUME NEW f \in DOMAIN history \ {0}
        PROVE  history[f] = Word - 1 \/ \A i \in 0 .. history[f] : <<f, i>> \in handed
    BY <2>1 DEF RedeemInv, NumbersStand, LinesStand, Stands, NoNum
  <2>2. ~faulty => NoRepeats /\ HistoryCovers
    BY DEF RedeemInv, CodesKnown, Listed, HistoryCovers
  <2> QED
    BY <2>1, <2>2 DEF HistoryExact, NoNumberSkipped
<1> QED
  BY <1>1, RedeemInitInv, RedeemStepInv, PTL DEF RedeemSpec

(***************************************************************************)
(* Redeem codes.                                                           *)
(***************************************************************************)

\* The segments fill a code, and the sign is made from bits a code has.
LEMMA Widths ==
  /\ SIGN_BIT_LEN \in 1 .. 30 /\ FUN_ID_BIT_LEN \in 1 .. 30 /\ UNIQUE_CODE_BIT_LEN \in 2 .. 30
  /\ REDEEM_CODE_BIT_LEN = SIGN_BIT_LEN + UNIQUE_CODE_BIT_LEN + FUN_ID_BIT_LEN
  /\ REDEEM_CODE_BIT_LEN \in Nat /\ SIGN_BIT_LEN <= UNIQUE_CODE_BIT_LEN + FUN_ID_BIT_LEN
  /\ UNIQUE_CODE_BIT_START_IDX = SIGN_BIT_LEN
  /\ FUN_ID_BIT_START_IDX = SIGN_BIT_LEN + UNIQUE_CODE_BIT_LEN
  /\ REDEEM_CODE_LEN \in Nat /\ CharBits \in Nat /\ CharBits > 0
  /\ REDEEM_CODE_BIT_LEN = CharBits * REDEEM_CODE_LEN
<1>1. REDEEM_CODE_BIT_LEN \in Nat /\ REDEEM_CODE_BIT_LEN = CharBits * REDEEM_CODE_LEN
  BY RedeemCfg DEF REDEEM_CODE_BIT_LEN
<1> QED
  BY <1>1, RedeemCfg
     DEF UNIQUE_CODE_BIT_LEN, UNIQUE_CODE_BIT_START_IDX, FUN_ID_BIT_START_IDX

\* Dividing by the width of a character.
LEMMA DivisionByWidth ==
  ASSUME NEW c \in Nat, c > 0, NEW q \in Nat, NEW b \in 0 .. c - 1
  PROVE  (c * q + b) \div c = q /\ (c * q + b) % c = b
<1> DEFINE n == c * q + b
<1>1. c * q \in Nat /\ n \in Nat
  OBVIOUS
<1>2. n \div c \in Int /\ n % c \in 0 .. c - 1 /\ n = c * (n \div c) + (n % c)
  BY <1>1
<1>3. n \div c = q
  <2>1. ASSUME n \div c < q PROVE FALSE
    <3>1. (n \div c) + 1 <= q
      BY <2>1, <1>2
    <3>2. c * ((n \div c) + 1) <= c * q
      BY <3>1, <1>2
    <3> QED
      BY <3>2, <1>2, <1>1
  <2>2. ASSUME n \div c > q PROVE FALSE
    <3>1. q + 1 <= n \div c
      BY <2>2, <1>2
    <3>2. c * (q + 1) <= c * (n \div c)
      BY <3>1, <1>2
    <3> QED
      BY <3>2, <1>2, <1>1
  <2> QED
    BY <2>1, <2>2, <1>2
<1>4. n % c = b
  BY <1>2, <1>3, <1>1
<1> QED
  BY <1>3, <1>4

\* Where a bit of the code is in the text.
LEMMA BitInText ==
  ASSUME NEW j \in 0 .. REDEEM_CODE_BIT_LEN - 1
  PROVE  /\ REDEEM_CODE_LEN - (j \div CharBits) \in 1 .. REDEEM_CODE_LEN
         /\ j % CharBits \in 0 .. CharBits - 1
         /\ CharBits * (REDEEM_CODE_LEN - (REDEEM_CODE_LEN - (j \div CharBits))) + (j % CharBits) = j
<1>1. /\ j \div CharBits \in Int /\ j % CharBits \in 0 .. CharBits - 1
      /\ j = CharBits * (j \div CharBits) + (j % CharBits)
  BY Widths
<1>2. j \div CharBits >= 0
  BY Widths
<1>3. ASSUME j \div CharBits >= REDEEM_CODE_LEN PROVE FALSE
  <2>1. CharBits * (j \div CharBits) >= CharBits * REDEEM_CODE_LEN
    BY <1>1, <1>3, Widths
  <2> QED
    BY <2>1, <1>1, Widths
<1>4. REDEEM_CODE_LEN - (REDEEM_CODE_LEN - (j \div CharBits)) = j \div CharBits
  BY <1>1, Widths
<1> QED
  BY <1>1, <1>2, <1>3, <1>4, Widths

\* Which bit of the code a bit of the text is.
LEMMA BitOfText ==
  ASSUME NEW i \in 1 .. REDEEM_CODE_LEN, NEW b \in 0 .. CharBits - 1
  PROVE  LET j == CharBits * (REDEEM_CODE_LEN - i) + b
         IN  /\ j \in 0 .. REDEEM_CODE_BIT_LEN - 1
             /\ REDEEM_CODE_LEN - (j \div CharBits) = i /\ j % CharBits = b
<1> DEFINE q == REDEEM_CODE_LEN - i
           j == CharBits * q + b
<1>1. q \in Nat /\ q + 1 <= REDEEM_CODE_LEN /\ REDEEM_CODE_LEN - q = i
  BY Widths
<1>2. CharBits * q \in Nat /\ CharBits * (q + 1) <= CharBits * REDEEM_CODE_LEN
  BY <1>1, Widths
<1>3. j \in 0 .. REDEEM_CODE_BIT_LEN - 1
  BY <1>1, <1>2, Widths
<1>4. j \div CharBits = q /\ j % CharBits = b
  BY <1>1, Widths, DivisionByWidth
<1> QED
  BY <1>1, <1>3, <1>4

\* Text and number determine each other.
LEMMA TextOfCode ==
  ASSUME NEW w \in Segment(REDEEM_CODE_BIT_LEN)
  PROVE  /\ Uint64ToCode(w) \in [1 .. REDEEM_CODE_LEN -> Character]
         /\ CodeToUint64(Uint64ToCode(w)) = w
<1> DEFINE t == Uint64ToCode(w)
<1>1. ASSUME NEW i \in 1 .. REDEEM_CODE_LEN, NEW b \in 0 .. CharBits - 1
      PROVE  /\ t[i][b] = w[CharBits * (REDEEM_CODE_LEN - i) + b]
             /\ t[i][b] \in {0, 1}
  BY BitOfText DEF Uint64ToCode, Cut, Bit, Segment
<1>2. t \in [1 .. REDEEM_CODE_LEN -> Character]
  BY <1>1 DEF Uint64ToCode, Cut, Character, Segment
<1>3. \A k \in 1 .. REDEEM_CODE_LEN : t[k] # Bad
  BY <1>2, Widths DEF Character, Segment, Bad
<1>4. CodeToUint64(t) = w
  <2>1. ASSUME NEW j \in 0 .. REDEEM_CODE_BIT_LEN - 1
        PROVE  CodeToUint64(t)[j] = w[j]
    <3>1. CodeToUint64(t)[j] = t[REDEEM_CODE_LEN - (j \div CharBits)][j % CharBits]
      BY <1>3 DEF CodeToUint64
    <3> QED
      BY <3>1, <1>1, BitInText
  <2> QED
    BY <2>1 DEF CodeToUint64, Segment
<1> QED
  BY <1>2, <1>4

LEMMA CodeOfText ==
  ASSUME NEW t \in [1 .. REDEEM_CODE_LEN -> Character]
  PROVE  /\ CodeToUint64(t) \in Segment(REDEEM_CODE_BIT_LEN)
         /\ Uint64ToCode(CodeToUint64(t)) = t
<1>1. \A k \in 1 .. REDEEM_CODE_LEN : t[k] # Bad
  BY Widths DEF Character, Segment, Bad
<1> DEFINE w == CodeToUint64(t)
<1>2. w = [j \in 0 .. REDEEM_CODE_BIT_LEN - 1 |->
             t[REDEEM_CODE_LEN - (j \div CharBits)][j % CharBits]]
  BY <1>1 DEF CodeToUint64
<1>3. ASSUME NEW j \in 0 .. REDEEM_CODE_BIT_LEN - 1 PROVE w[j] \in {0, 1}
  <2> DEFINE i == REDEEM_CODE_LEN - (j \div CharBits)
             b == j % CharBits
  <2>1. i \in 1 .. REDEEM_CODE_LEN /\ b \in 0 .. CharBits - 1
    BY BitInText
  <2>2. w[j] = t[i][b]
    BY <1>2
  <2> HIDE DEF i, b
  <2>3. t[i] \in [0 .. CharBits - 1 -> {0, 1}]
    BY <2>1 DEF Character, Segment
  <2> QED
    BY <2>1, <2>2, <2>3
<1>4. w \in Segment(REDEEM_CODE_BIT_LEN)
  BY <1>2, <1>3 DEF Segment
<1>5. ASSUME NEW i \in 1 .. REDEEM_CODE_LEN PROVE Uint64ToCode(w)[i] = t[i]
  <2>1. Uint64ToCode(w)[i] = [b \in 0 .. CharBits - 1 |-> Bit(w, CharBits * (REDEEM_CODE_LEN - i) + b)]
    BY DEF Uint64ToCode, Cut
  <2>2. ASSUME NEW b \in 0 .. CharBits - 1
        PROVE  Bit(w, CharBits * (REDEEM_CODE_LEN - i) + b) = t[i][b]
    BY <1>2, BitOfText DEF Bit
  <2> QED
    BY <2>1, <2>2 DEF Character, Segment
<1>6. Uint64ToCode(w) = t
  BY <1>5 DEF Uint64ToCode
<1> QED
  BY <1>4, <1>6

\* The bits of the keys that matter: the last two of the four, the last of the sign's.
LEMMA Keys ==
  /\ \A k \in 1 .. 4, i \in 0 .. 31 : UNIQUE_CODE_XOR_KEY[k][i] \in {0, 1}
  /\ \A k \in 1 .. 4 : DOMAIN UNIQUE_CODE_XOR_KEY[k] = 0 .. 31
  /\ UNIQUE_CODE_XOR_KEY[1][0] = 1 /\ UNIQUE_CODE_XOR_KEY[1][1] = 1
  /\ UNIQUE_CODE_XOR_KEY[2][0] = 1 /\ UNIQUE_CODE_XOR_KEY[2][1] = 1
  /\ UNIQUE_CODE_XOR_KEY[3][0] = 0 /\ UNIQUE_CODE_XOR_KEY[3][1] = 1
  /\ UNIQUE_CODE_XOR_KEY[4][0] = 0 /\ UNIQUE_CODE_XOR_KEY[4][1] = 1
  /\ SIGN_XOR_KEY[0] = 1 /\ DOMAIN SIGN_XOR_KEY = 0 .. 31
<1>1. ASSUME NEW d \in [1 .. 8 -> 0 .. 15]
      PROVE  /\ Hex(d) \in [0 .. 31 -> {0, 1}]
             /\ Hex(d)[0] = d[8] % 2 /\ Hex(d)[1] = (d[8] \div 2) % 2
  <2>1. ASSUME NEW i \in 0 .. 31 PROVE Hex(d)[i] \in {0, 1}
    <3>1. 8 - (i \div 4) \in 1 .. 8 /\ 1 + (i % 4) \in 1 .. 4
      OBVIOUS
    <3>2. d[8 - (i \div 4)] \in 0 .. 15
      BY <3>1
    <3>3. ASSUME NEW e \in 0 .. 15, NEW p \in 1 .. 4
          PROVE  (e \div <<1, 2, 4, 8>>[p]) % 2 \in {0, 1}
      OBVIOUS
    <3> QED
      BY <3>1, <3>2, <3>3 DEF Hex
  <2>2. Hex(d)[0] = d[8] % 2
    <3>1. Hex(d)[0] = (d[8] \div 1) % 2
      BY DEF Hex
    <3>2. d[8] \in 0 .. 15
      OBVIOUS
    <3> QED
      BY <3>1, <3>2
  <2>3. Hex(d)[1] = (d[8] \div 2) % 2
    BY DEF Hex
  <2> QED
    BY <2>1, <2>2, <2>3 DEF Hex
<1>2. /\ <<7, 15, 8, 10, 4, 2, 3, 3>> \in [1 .. 8 -> 0 .. 15]
      /\ <<11, 10, 5, 6, 3, 14, 7, 3>> \in [1 .. 8 -> 0 .. 15]
      /\ <<10, 15, 15, 10, 3, 2, 12, 14>> \in [1 .. 8 -> 0 .. 15]
      /\ <<5, 15, 8, 10, 3, 13, 13, 2>> \in [1 .. 8 -> 0 .. 15]
      /\ <<7, 15, 8, 10, 1, 2, 3, 1>> \in [1 .. 8 -> 0 .. 15]
  OBVIOUS
<1>3. /\ UNIQUE_CODE_XOR_KEY[1] = Hex(<<7, 15, 8, 10, 4, 2, 3, 3>>)
      /\ UNIQUE_CODE_XOR_KEY[2] = Hex(<<11, 10, 5, 6, 3, 14, 7, 3>>)
      /\ UNIQUE_CODE_XOR_KEY[3] = Hex(<<10, 15, 15, 10, 3, 2, 12, 14>>)
      /\ UNIQUE_CODE_XOR_KEY[4] = Hex(<<5, 15, 8, 10, 3, 13, 13, 2>>)
  BY DEF UNIQUE_CODE_XOR_KEY
<1>4. /\ UNIQUE_CODE_XOR_KEY[1] \in [0 .. 31 -> {0, 1}]
      /\ UNIQUE_CODE_XOR_KEY[1][0] = 1 /\ UNIQUE_CODE_XOR_KEY[1][1] = 1
  BY <1>1, <1>2, <1>3
<1>5. /\ UNIQUE_CODE_XOR_KEY[2] \in [0 .. 31 -> {0, 1}]
      /\ UNIQUE_CODE_XOR_KEY[2][0] = 1 /\ UNIQUE_CODE_XOR_KEY[2][1] = 1
  BY <1>1, <1>2, <1>3
<1>6. /\ UNIQUE_CODE_XOR_KEY[3] \in [0 .. 31 -> {0, 1}]
      /\ UNIQUE_CODE_XOR_KEY[3][0] = 0 /\ UNIQUE_CODE_XOR_KEY[3][1] = 1
  BY <1>1, <1>2, <1>3
<1>7. /\ UNIQUE_CODE_XOR_KEY[4] \in [0 .. 31 -> {0, 1}]
      /\ UNIQUE_CODE_XOR_KEY[4][0] = 0 /\ UNIQUE_CODE_XOR_KEY[4][1] = 1
  BY <1>1, <1>2, <1>3
<1>8. SIGN_XOR_KEY[0] = 1 /\ DOMAIN SIGN_XOR_KEY = 0 .. 31
  BY <1>1, <1>2 DEF SIGN_XOR_KEY
<1>9. \A k \in 1 .. 4 : k = 1 \/ k = 2 \/ k = 3 \/ k = 4
  OBVIOUS
<1>10. \A k \in 1 .. 4 : UNIQUE_CODE_XOR_KEY[k] \in [0 .. 31 -> {0, 1}]
  BY <1>4, <1>5, <1>6, <1>7, <1>9
<1> QED
  BY <1>4, <1>5, <1>6, <1>7, <1>8, <1>10

\* The four keys send the last two bits 00, 01, 10, 11 to 11, 10, 00, 01, so the
\* disguised unique code tells which key was used: no two unique codes meet, and
\* every segment is the disguise of one.
LEMMA DisguiseOneToOne ==
  /\ \A u \in UniqueCodes : Disguised(u) \in UniqueCodes
  /\ \A u, v \in UniqueCodes : Disguised(u) = Disguised(v) => u = v
  /\ \A d \in UniqueCodes : \E u \in UniqueCodes : Disguised(u) = d
<1> DEFINE Which(u) == 1 + u[0] + 2 * u[1]
           Key(k) == UNIQUE_CODE_XOR_KEY[k]
           Sum(a, b) == IF a = b THEN 0 ELSE 1
           Span == 0 .. UNIQUE_CODE_BIT_LEN - 1
<1>1. /\ 0 \in Span /\ 1 \in Span
      /\ \A i \in Span : i \in 0 .. 31
  BY Widths
<1>2. UniqueCodes = [Span -> {0, 1}]
  BY DEF UniqueCodes, Segment
<1>3. \A u \in UniqueCodes : Which(u) \in 1 .. 4 /\ u[0] \in {0, 1} /\ u[1] \in {0, 1}
  BY <1>1, <1>2
<1>4. ASSUME NEW u \in UniqueCodes
      PROVE  Disguised(u) = [i \in Span |-> Sum(u[i], Key(Which(u))[i])]
  <2>1. \A i \in Span : Bit(u, i) = u[i] /\ Bit(Key(Which(u)), i) = Key(Which(u))[i]
    BY <1>1, <1>2, <1>3, Keys DEF Bit
  <2> QED
    BY <2>1 DEF Disguised, Xor
<1>5. \A u \in UniqueCodes : Disguised(u) \in UniqueCodes
  BY <1>2, <1>4
<1>6. /\ Key(1)[0] = 1 /\ Key(1)[1] = 1 /\ Key(2)[0] = 1 /\ Key(2)[1] = 1
      /\ Key(3)[0] = 0 /\ Key(3)[1] = 1 /\ Key(4)[0] = 0 /\ Key(4)[1] = 1
      /\ \A k \in 1 .. 4, i \in Span : Key(k)[i] \in {0, 1}
  BY Keys, <1>1
<1> HIDE DEF Key, Span
<1>7. ASSUME NEW u \in UniqueCodes
      PROVE  /\ Which(u) = 1 <=> Disguised(u)[0] = 1 /\ Disguised(u)[1] = 1
             /\ Which(u) = 2 <=> Disguised(u)[0] = 0 /\ Disguised(u)[1] = 1
             /\ Which(u) = 3 <=> Disguised(u)[0] = 0 /\ Disguised(u)[1] = 0
             /\ Which(u) = 4 <=> Disguised(u)[0] = 1 /\ Disguised(u)[1] = 0
  <2>1. /\ Disguised(u)[0] = Sum(u[0], Key(Which(u))[0])
        /\ Disguised(u)[1] = Sum(u[1], Key(Which(u))[1])
    BY <1>1, <1>4
  <2>2. u[0] \in {0, 1} /\ u[1] \in {0, 1}
    BY <1>3
  <2> QED
    BY <2>1, <2>2, <1>6
<1>8. ASSUME NEW u \in UniqueCodes, NEW v \in UniqueCodes, Disguised(u) = Disguised(v)
      PROVE  u = v
  <2>1. Which(u) = Which(v)
    BY <1>3, <1>7, <1>8
  <2> DEFINE k == Which(u)
  <2>2. k \in 1 .. 4
    BY <1>3
  <2>3. /\ Disguised(u) = [i \in Span |-> Sum(u[i], Key(k)[i])]
        /\ Disguised(v) = [i \in Span |-> Sum(v[i], Key(k)[i])]
    BY <1>4, <2>1
  <2> HIDE DEF k
  <2>4. ASSUME NEW i \in Span PROVE u[i] = v[i]
    <3>1. u[i] \in {0, 1} /\ v[i] \in {0, 1} /\ Key(k)[i] \in {0, 1}
      BY <1>2, <1>6, <2>2
    <3>2. Sum(u[i], Key(k)[i]) = Sum(v[i], Key(k)[i])
      BY <2>3, <1>8
    <3> QED
      BY <3>1, <3>2
  <2> QED
    BY <2>4, <1>2
<1>9. ASSUME NEW d \in UniqueCodes PROVE \E u \in UniqueCodes : Disguised(u) = d
  <2> DEFINE k == IF d[1] = 1 THEN 2 - d[0] ELSE 3 + d[0]
             u == [i \in Span |-> Sum(d[i], Key(k)[i])]
  <2>1. k \in 1 .. 4 /\ d[0] \in {0, 1} /\ d[1] \in {0, 1}
    BY <1>3
  <2>2. u \in UniqueCodes
    BY <1>2
  <2>3. u[0] = Sum(d[0], Key(k)[0]) /\ u[1] = Sum(d[1], Key(k)[1])
    BY <1>1
  <2>4. Which(u) = k
    BY <2>1, <2>3, <1>6
  <2>5. Disguised(u) = [i \in Span |-> Sum(u[i], Key(k)[i])]
    BY <1>4, <2>2, <2>4
  <2> HIDE DEF k
  <2>6. ASSUME NEW i \in Span PROVE Disguised(u)[i] = d[i]
    <3>1. d[i] \in {0, 1} /\ Key(k)[i] \in {0, 1}
      BY <1>2, <1>6, <2>1
    <3>2. Disguised(u)[i] = Sum(Sum(d[i], Key(k)[i]), Key(k)[i])
      BY <2>5
    <3> QED
      BY <3>1, <3>2
  <2>7. Disguised(u) \in [Span -> {0, 1}] /\ d \in [Span -> {0, 1}]
    BY <1>2, <1>5, <2>2
  <2>8. Disguised(u) = d
    BY <2>6, <2>7
  <2> QED
    BY <2>2, <2>8
<1> QED
  BY <1>5, <1>8, <1>9

\* The number CreateRedeemCode makes of its arguments.
CodeValue(fun_id, unique_code) ==
  LET unique == Disguised(unique_code)
      sign_src == Join(Xor(unique, fun_id, FUN_ID_BIT_LEN), unique, UNIQUE_CODE_BIT_LEN)
  IN Join(sign_src, GetSign(sign_src), SIGN_BIT_LEN)

\* Bit by bit.
LEMMA CodeBits ==
  ASSUME NEW f \in FunIds, NEW u \in UniqueCodes
  PROVE  /\ CodeValue(f, u) \in Segment(REDEEM_CODE_BIT_LEN)
         /\ Cut(CodeValue(f, u), UNIQUE_CODE_BIT_START_IDX, UNIQUE_CODE_BIT_LEN) = Disguised(u)
         /\ Cut(CodeValue(f, u), FUN_ID_BIT_START_IDX, FUN_ID_BIT_LEN)
              = Xor(Disguised(u), f, FUN_ID_BIT_LEN)
         /\ Cut(CodeValue(f, u), 0, SIGN_BIT_LEN)
              = GetSign(Cut(CodeValue(f, u), SIGN_BIT_LEN, REDEEM_CODE_BIT_LEN))
<1> DEFINE d == Disguised(u)
           x == Xor(d, f, FUN_ID_BIT_LEN)
           src == Join(x, d, UNIQUE_CODE_BIT_LEN)
           g == GetSign(src)
           w == CodeValue(f, u)
<1>1. /\ d \in [0 .. UNIQUE_CODE_BIT_LEN - 1 -> {0, 1}]
      /\ x \in [0 .. FUN_ID_BIT_LEN - 1 -> {0, 1}]
      /\ g \in [0 .. SIGN_BIT_LEN - 1 -> {0, 1}]
  BY DisguiseOneToOne DEF UniqueCodes, Segment, Xor, GetSign
<1>2. /\ DOMAIN src = 0 .. REDEEM_CODE_BIT_LEN - 1
      /\ \A i \in 0 .. UNIQUE_CODE_BIT_LEN - 1 : src[i] = d[i]
      /\ \A i \in 0 .. FUN_ID_BIT_LEN - 1 : src[UNIQUE_CODE_BIT_LEN + i] = x[i]
  <2> HIDE DEF d, x
  <2>1. ASSUME NEW i \in 0 .. UNIQUE_CODE_BIT_LEN - 1 PROVE src[i] = d[i]
    BY <1>1, Widths DEF Join, Bit
  <2>2. ASSUME NEW i \in 0 .. FUN_ID_BIT_LEN - 1 PROVE src[UNIQUE_CODE_BIT_LEN + i] = x[i]
    BY <1>1, Widths DEF Join, Bit
  <2> QED
    BY <2>1, <2>2 DEF Join
<1>3. w = Join(src, g, SIGN_BIT_LEN)
  BY DEF CodeValue
<1>4. /\ DOMAIN w = 0 .. REDEEM_CODE_BIT_LEN - 1
      /\ \A i \in 0 .. SIGN_BIT_LEN - 1 : w[i] = g[i]
      /\ \A i \in 0 .. UNIQUE_CODE_BIT_LEN + FUN_ID_BIT_LEN - 1 : w[SIGN_BIT_LEN + i] = src[i]
  <2> HIDE DEF src, g, w
  <2>1. ASSUME NEW i \in 0 .. SIGN_BIT_LEN - 1 PROVE w[i] = g[i]
    BY <1>1, <1>3, Widths DEF Join, Bit
  <2>2. ASSUME NEW i \in 0 .. UNIQUE_CODE_BIT_LEN + FUN_ID_BIT_LEN - 1
        PROVE  w[SIGN_BIT_LEN + i] = src[i]
    BY <1>2, <1>3, Widths DEF Join, Bit
  <2> QED
    BY <1>3, <2>1, <2>2 DEF Join
<1>5. w \in Segment(REDEEM_CODE_BIT_LEN)
  <2> HIDE DEF d, x, g, src
  <2>1. ASSUME NEW i \in 0 .. REDEEM_CODE_BIT_LEN - 1 PROVE w[i] \in {0, 1}
    <3>1. CASE i < SIGN_BIT_LEN
      BY <3>1, <1>1, <1>4, Widths
    <3>2. CASE i >= SIGN_BIT_LEN /\ i < SIGN_BIT_LEN + UNIQUE_CODE_BIT_LEN
      <4> DEFINE k == i - SIGN_BIT_LEN
      <4>1. k \in 0 .. UNIQUE_CODE_BIT_LEN - 1 /\ SIGN_BIT_LEN + k = i
            /\ k \in 0 .. UNIQUE_CODE_BIT_LEN + FUN_ID_BIT_LEN - 1
        BY <3>2, Widths
      <4> HIDE DEF k, w
      <4>2. w[i] = d[k]
        BY <4>1, <1>2, <1>4
      <4> QED
        BY <4>1, <4>2, <1>1
    <3>3. CASE i >= SIGN_BIT_LEN + UNIQUE_CODE_BIT_LEN
      <4> DEFINE k == i - SIGN_BIT_LEN - UNIQUE_CODE_BIT_LEN
      <4>1. k \in 0 .. FUN_ID_BIT_LEN - 1 /\ SIGN_BIT_LEN + (UNIQUE_CODE_BIT_LEN + k) = i
            /\ UNIQUE_CODE_BIT_LEN + k \in 0 .. UNIQUE_CODE_BIT_LEN + FUN_ID_BIT_LEN - 1
        BY <3>3, Widths
      <4> HIDE DEF k, w
      <4>2. w[i] = x[k]
        BY <4>1, <1>2, <1>4
      <4> QED
        BY <4>1, <4>2, <1>1
    <3> QED
      BY <3>1, <3>2, <3>3, Widths
  <2>2. w = [i \in 0 .. REDEEM_CODE_BIT_LEN - 1 |-> w[i]]
    BY <1>3 DEF Join
  <2> QED
    BY <2>1, <2>2 DEF Segment
<1> HIDE DEF d, x, g, src, w
<1>6. Cut(w, UNIQUE_CODE_BIT_START_IDX, UNIQUE_CODE_BIT_LEN) = d
  <2>1. ASSUME NEW i \in 0 .. UNIQUE_CODE_BIT_LEN - 1 PROVE Bit(w, SIGN_BIT_LEN + i) = d[i]
    <3>1. i \in 0 .. UNIQUE_CODE_BIT_LEN + FUN_ID_BIT_LEN - 1
          /\ SIGN_BIT_LEN + i \in 0 .. REDEEM_CODE_BIT_LEN - 1
      BY Widths
    <3> QED
      BY <3>1, <1>2, <1>4 DEF Bit
  <2> QED
    BY <2>1, <1>1, Widths DEF Cut
<1>7. Cut(w, FUN_ID_BIT_START_IDX, FUN_ID_BIT_LEN) = x
  <2>1. ASSUME NEW i \in 0 .. FUN_ID_BIT_LEN - 1
        PROVE  Bit(w, SIGN_BIT_LEN + UNIQUE_CODE_BIT_LEN + i) = x[i]
    <3>1. /\ UNIQUE_CODE_BIT_LEN + i \in 0 .. UNIQUE_CODE_BIT_LEN + FUN_ID_BIT_LEN - 1
          /\ SIGN_BIT_LEN + UNIQUE_CODE_BIT_LEN + i \in 0 .. REDEEM_CODE_BIT_LEN - 1
          /\ SIGN_BIT_LEN + (UNIQUE_CODE_BIT_LEN + i) = SIGN_BIT_LEN + UNIQUE_CODE_BIT_LEN + i
      BY Widths
    <3> QED
      BY <3>1, <1>2, <1>4 DEF Bit
  <2> QED
    BY <2>1, <1>1, Widths DEF Cut
<1>8. Cut(w, 0, SIGN_BIT_LEN) = GetSign(Cut(w, SIGN_BIT_LEN, REDEEM_CODE_BIT_LEN))
  <2> DEFINE v == Cut(w, SIGN_BIT_LEN, REDEEM_CODE_BIT_LEN)
  <2>1. ASSUME NEW i \in 0 .. SIGN_BIT_LEN - 1 PROVE Bit(v, i) = Bit(src, i)
    <3>1. /\ i \in 0 .. UNIQUE_CODE_BIT_LEN + FUN_ID_BIT_LEN - 1
          /\ i \in 0 .. REDEEM_CODE_BIT_LEN - 1
          /\ SIGN_BIT_LEN + i \in 0 .. REDEEM_CODE_BIT_LEN - 1
      BY Widths
    <3> QED
      BY <3>1, <1>2, <1>4 DEF Bit, Cut
  <2>2. GetSign(v) = GetSign(src)
    <3> HIDE DEF v
    <3> QED
      BY <2>1 DEF GetSign, Xor
  <2>3. ASSUME NEW i \in 0 .. SIGN_BIT_LEN - 1 PROVE Bit(w, 0 + i) = g[i]
    BY <1>4, Widths DEF Bit
  <2>4. Cut(w, 0, SIGN_BIT_LEN) = g
    BY <2>3, <1>1 DEF Cut
  <2> QED
    BY <2>2, <2>4 DEF g
<1> QED
  BY <1>5, <1>6, <1>7, <1>8 DEF d, x, w

\* A number whose sign is right is made of a fun_id and a unique code.
LEMMA SignedIsMade ==
  ASSUME NEW w \in Segment(REDEEM_CODE_BIT_LEN),
         Cut(w, 0, SIGN_BIT_LEN) = GetSign(Cut(w, SIGN_BIT_LEN, REDEEM_CODE_BIT_LEN))
  PROVE  \E f \in FunIds, u \in UniqueCodes : CodeValue(f, u) = w
<1> DEFINE d == Cut(w, UNIQUE_CODE_BIT_START_IDX, UNIQUE_CODE_BIT_LEN)
           x == Cut(w, FUN_ID_BIT_START_IDX, FUN_ID_BIT_LEN)
           f == Xor(d, x, FUN_ID_BIT_LEN)
<1>1. /\ d \in UniqueCodes /\ d \in [0 .. UNIQUE_CODE_BIT_LEN - 1 -> {0, 1}]
      /\ x \in [0 .. FUN_ID_BIT_LEN - 1 -> {0, 1}]
  BY Widths DEF Cut, Bit, Segment, UniqueCodes
<1>2. f \in FunIds
  BY DEF FunIds, Segment, Xor
<1>3. PICK u \in UniqueCodes : Disguised(u) = d
  BY <1>1, DisguiseOneToOne
<1>4. /\ \A i \in 0 .. UNIQUE_CODE_BIT_LEN - 1 : d[i] = w[SIGN_BIT_LEN + i]
      /\ \A i \in 0 .. FUN_ID_BIT_LEN - 1 : x[i] = w[SIGN_BIT_LEN + UNIQUE_CODE_BIT_LEN + i]
      /\ \A i \in 0 .. SIGN_BIT_LEN - 1 : Cut(w, 0, SIGN_BIT_LEN)[i] = w[i]
  BY Widths DEF Cut, Bit, Segment
<1> DEFINE e == CodeValue(f, u)
<1> HIDE DEF d, x
<1>5. Xor(d, f, FUN_ID_BIT_LEN) = x
  <2>1. ASSUME NEW i \in 0 .. FUN_ID_BIT_LEN - 1
        PROVE  (IF Bit(d, i) = Bit(f, i) THEN 0 ELSE 1) = x[i]
    <3>1. Bit(f, i) = (IF Bit(d, i) = Bit(x, i) THEN 0 ELSE 1)
      BY DEF Xor, Bit
    <3>2. Bit(x, i) = x[i] /\ x[i] \in {0, 1}
      BY <1>1 DEF Bit
    <3>3. Bit(d, i) \in {0, 1}
      BY <1>1 DEF Bit
    <3> QED
      BY <3>1, <3>2, <3>3
  <2> HIDE DEF f
  <2> QED
    BY <2>1, <1>1 DEF Xor
<1> HIDE DEF f
<1>6. /\ e \in Segment(REDEEM_CODE_BIT_LEN)
      /\ Cut(e, UNIQUE_CODE_BIT_START_IDX, UNIQUE_CODE_BIT_LEN) = d
      /\ Cut(e, FUN_ID_BIT_START_IDX, FUN_ID_BIT_LEN) = x
      /\ Cut(e, 0, SIGN_BIT_LEN) = GetSign(Cut(e, SIGN_BIT_LEN, REDEEM_CODE_BIT_LEN))
  BY <1>2, <1>3, <1>5, CodeBits
<1> HIDE DEF e
<1>7. /\ \A i \in 0 .. UNIQUE_CODE_BIT_LEN - 1 : d[i] = e[SIGN_BIT_LEN + i]
      /\ \A i \in 0 .. FUN_ID_BIT_LEN - 1 : x[i] = e[SIGN_BIT_LEN + UNIQUE_CODE_BIT_LEN + i]
      /\ \A i \in 0 .. SIGN_BIT_LEN - 1 : Cut(e, 0, SIGN_BIT_LEN)[i] = e[i]
  <2>1. e \in [0 .. REDEEM_CODE_BIT_LEN - 1 -> {0, 1}]
    BY <1>6 DEF Segment
  <2>2. ASSUME NEW i \in 0 .. UNIQUE_CODE_BIT_LEN - 1 PROVE d[i] = e[SIGN_BIT_LEN + i]
    <3>1. Cut(e, UNIQUE_CODE_BIT_START_IDX, UNIQUE_CODE_BIT_LEN)[i] = e[SIGN_BIT_LEN + i]
      BY <2>1, Widths DEF Cut, Bit
    <3> QED
      BY <3>1, <1>6
  <2>3. ASSUME NEW i \in 0 .. FUN_ID_BIT_LEN - 1
        PROVE  x[i] = e[SIGN_BIT_LEN + UNIQUE_CODE_BIT_LEN + i]
    <3>1. Cut(e, FUN_ID_BIT_START_IDX, FUN_ID_BIT_LEN)[i] = e[SIGN_BIT_LEN + UNIQUE_CODE_BIT_LEN + i]
      BY <2>1, Widths DEF Cut, Bit
    <3> QED
      BY <3>1, <1>6
  <2>4. ASSUME NEW i \in 0 .. SIGN_BIT_LEN - 1 PROVE Cut(e, 0, SIGN_BIT_LEN)[i] = e[i]
    BY <2>1, Widths DEF Cut, Bit
  <2> QED
    BY <2>2, <2>3, <2>4
<1>8. ASSUME NEW i \in 0 .. REDEEM_CODE_BIT_LEN - 1, i >= SIGN_BIT_LEN PROVE e[i] = w[i]
  <2>1. CASE i < SIGN_BIT_LEN + UNIQUE_CODE_BIT_LEN
    <3> DEFINE k == i - SIGN_BIT_LEN
    <3>1. k \in 0 .. UNIQUE_CODE_BIT_LEN - 1 /\ SIGN_BIT_LEN + k = i
      BY <2>1, <1>8, Widths
    <3> HIDE DEF k
    <3> QED
      BY <3>1, <1>4, <1>7
  <2>2. CASE i >= SIGN_BIT_LEN + UNIQUE_CODE_BIT_LEN
    <3> DEFINE k == i - SIGN_BIT_LEN - UNIQUE_CODE_BIT_LEN
    <3>1. k \in 0 .. FUN_ID_BIT_LEN - 1 /\ SIGN_BIT_LEN + UNIQUE_CODE_BIT_LEN + k = i
      BY <2>2, <1>8, Widths
    <3> HIDE DEF k
    <3> QED
      BY <3>1, <1>4, <1>7
  <2> QED
    BY <2>1, <2>2, Widths
<1>9. Cut(e, SIGN_BIT_LEN, REDEEM_CODE_BIT_LEN) = Cut(w, SIGN_BIT_LEN, REDEEM_CODE_BIT_LEN)
  <2>1. DOMAIN e = 0 .. REDEEM_CODE_BIT_LEN - 1 /\ DOMAIN w = 0 .. REDEEM_CODE_BIT_LEN - 1
    BY <1>6 DEF Segment
  <2>2. ASSUME NEW i \in 0 .. REDEEM_CODE_BIT_LEN - 1
        PROVE  Bit(e, SIGN_BIT_LEN + i) = Bit(w, SIGN_BIT_LEN + i)
    <3>1. CASE SIGN_BIT_LEN + i \in 0 .. REDEEM_CODE_BIT_LEN - 1
      BY <3>1, <2>1, <1>8, Widths DEF Bit
    <3>2. CASE SIGN_BIT_LEN + i \notin 0 .. REDEEM_CODE_BIT_LEN - 1
      BY <3>2, <2>1 DEF Bit
    <3> QED
      BY <3>1, <3>2
  <2> QED
    BY <2>2 DEF Cut
<1>10. ASSUME NEW i \in 0 .. REDEEM_CODE_BIT_LEN - 1 PROVE e[i] = w[i]
  <2>1. CASE i >= SIGN_BIT_LEN
    BY <2>1, <1>8
  <2>2. CASE i < SIGN_BIT_LEN
    <3>1. Cut(e, 0, SIGN_BIT_LEN) = Cut(w, 0, SIGN_BIT_LEN)
      BY <1>6, <1>9
    <3>2. i \in 0 .. SIGN_BIT_LEN - 1
      BY <2>2, Widths
    <3> QED
      BY <3>1, <3>2, <1>4, <1>7
  <2> QED
    BY <2>1, <2>2, Widths
<1>11. e = w
  <2>1. /\ e \in [0 .. REDEEM_CODE_BIT_LEN - 1 -> {0, 1}]
        /\ w \in [0 .. REDEEM_CODE_BIT_LEN - 1 -> {0, 1}]
    BY <1>6 DEF Segment
  <2>2. /\ e = [i \in 0 .. REDEEM_CODE_BIT_LEN - 1 |-> e[i]]
        /\ w = [i \in 0 .. REDEEM_CODE_BIT_LEN - 1 |-> w[i]]
    BY <2>1
  <2>3. [i \in 0 .. REDEEM_CODE_BIT_LEN - 1 |-> e[i]] = [i \in 0 .. REDEEM_CODE_BIT_LEN - 1 |-> w[i]]
    BY <1>10
  <2> QED
    BY <2>2, <2>3, Zenon
<1> QED
  BY <1>2, <1>3, <1>11 DEF e

\* What each of the two makes of the other's result.
LEMMA MadeTexts ==
  /\ \A f \in FunIds, u \in UniqueCodes :
       /\ CreateRedeemCode(f, u) = Uint64ToCode(CodeValue(f, u))
       /\ CreateRedeemCode(f, u) \in [1 .. REDEEM_CODE_LEN -> Character]
       /\ CodeToUint64(CreateRedeemCode(f, u)) = CodeValue(f, u)
       /\ CheckCodeValid(CreateRedeemCode(f, u))
       /\ GetFunId(CreateRedeemCode(f, u)) = f
  /\ \A f, g \in FunIds, u, v \in UniqueCodes :
       CreateRedeemCode(f, u) = CreateRedeemCode(g, v) => f = g /\ u = v
<1>1. ASSUME NEW f \in FunIds, NEW u \in UniqueCodes
      PROVE  CreateRedeemCode(f, u) = Uint64ToCode(CodeValue(f, u))
  <2>1. f # TooLarge /\ u # TooLarge
    BY Widths DEF FunIds, UniqueCodes, Segment, TooLarge
  <2> QED
    BY <2>1 DEF CreateRedeemCode, CodeValue
<1>2. ASSUME NEW f \in FunIds, NEW u \in UniqueCodes
      PROVE  /\ CreateRedeemCode(f, u) \in [1 .. REDEEM_CODE_LEN -> Character]
             /\ CodeToUint64(CreateRedeemCode(f, u)) = CodeValue(f, u)
  BY <1>1, CodeBits, TextOfCode
<1>3. ASSUME NEW f \in FunIds, NEW u \in UniqueCodes
      PROVE  CheckCodeValid(CreateRedeemCode(f, u))
  <2>1. Len(CreateRedeemCode(f, u)) = REDEEM_CODE_LEN
    BY <1>2, Widths
  <2> QED
    BY <2>1, <1>2, CodeBits DEF CheckCodeValid
<1>4. ASSUME NEW f \in FunIds, NEW u \in UniqueCodes
      PROVE  Xor(Disguised(u), Xor(Disguised(u), f, FUN_ID_BIT_LEN), FUN_ID_BIT_LEN) = f
  <2> DEFINE d == Disguised(u)
             x == Xor(d, f, FUN_ID_BIT_LEN)
  <2>1. /\ d \in [0 .. UNIQUE_CODE_BIT_LEN - 1 -> {0, 1}]
        /\ f \in [0 .. FUN_ID_BIT_LEN - 1 -> {0, 1}]
    BY DisguiseOneToOne DEF FunIds, UniqueCodes, Segment
  <2> HIDE DEF d
  <2>2. ASSUME NEW i \in 0 .. FUN_ID_BIT_LEN - 1
        PROVE  (IF Bit(d, i) = Bit(x, i) THEN 0 ELSE 1) = f[i]
    <3>1. Bit(x, i) = (IF Bit(d, i) = Bit(f, i) THEN 0 ELSE 1)
      BY DEF Xor, Bit
    <3>2. Bit(f, i) = f[i] /\ f[i] \in {0, 1} /\ Bit(d, i) \in {0, 1}
      BY <2>1 DEF Bit
    <3> QED
      BY <3>1, <3>2
  <2> HIDE DEF x
  <2>3. Xor(d, x, FUN_ID_BIT_LEN) = f
    BY <2>1, <2>2 DEF Xor
  <2> QED
    BY <2>3 DEF d, x
<1>5. ASSUME NEW f \in FunIds, NEW u \in UniqueCodes
      PROVE  GetFunId(CreateRedeemCode(f, u)) = f
  BY <1>2, <1>4, CodeBits DEF GetFunId
<1>6. ASSUME NEW f \in FunIds, NEW g \in FunIds, NEW u \in UniqueCodes, NEW v \in UniqueCodes,
             CreateRedeemCode(f, u) = CreateRedeemCode(g, v)
      PROVE  f = g /\ u = v
  <2>1. f = g
    BY <1>5, <1>6
  <2>2. CodeValue(f, u) = CodeValue(g, v)
    BY <1>2, <1>6
  <2>3. Disguised(u) = Disguised(v)
    BY <2>2, CodeBits
  <2> QED
    BY <2>1, <2>3, DisguiseOneToOne
<1> QED
  BY <1>1, <1>2, <1>3, <1>5, <1>6

\* A text is accepted only if it was made of something.
LEMMA ValidIsMade ==
  ASSUME NEW n \in Nat, NEW text \in [1 .. n -> Character \cup {Bad}], CheckCodeValid(text)
  PROVE  \E f \in FunIds, u \in UniqueCodes : CreateRedeemCode(f, u) = text
<1> DEFINE w == CodeToUint64(text)
           v == Cut(w, SIGN_BIT_LEN, REDEEM_CODE_BIT_LEN)
<1>1. text \in [1 .. REDEEM_CODE_LEN -> Character \cup {Bad}]
  <2>1. Len(text) = n
    OBVIOUS
  <2> QED
    BY <2>1 DEF CheckCodeValid
<1>2. Cut(w, 0, SIGN_BIT_LEN) = GetSign(v)
  BY DEF CheckCodeValid
<1>3. ASSUME NEW k \in 1 .. REDEEM_CODE_LEN, text[k] = Bad PROVE FALSE
  <2>1. \A j \in DOMAIN w : w[j] = 0
    BY <1>3 DEF CodeToUint64
  <2>2. \A j \in Int : Bit(w, j) = 0
    BY <2>1 DEF Bit
  <2> HIDE DEF w
  <2>3. \A j \in 0 .. REDEEM_CODE_BIT_LEN - 1 : v[j] = 0
    BY <2>2, Widths DEF Cut
  <2>4. Bit(SIGN_XOR_KEY, 0) = 1
    BY Keys DEF Bit
  <2>5. Bit(v, 0) = 0
    <3>1. 0 \in 0 .. REDEEM_CODE_BIT_LEN - 1
      BY Widths
    <3>2. v[0] = 0
      BY <2>3, <3>1
    <3> HIDE DEF v
    <3> QED
      BY <3>2 DEF Bit
  <2>6. GetSign(v)[0] = 1
    BY <2>4, <2>5, Widths DEF GetSign, Xor
  <2>7. Cut(w, 0, SIGN_BIT_LEN)[0] = 0
    BY <2>2, Widths DEF Cut
  <2> QED
    BY <2>6, <2>7, <1>2
<1>4. text \in [1 .. REDEEM_CODE_LEN -> Character]
  BY <1>1, <1>3
<1>5. w \in Segment(REDEEM_CODE_BIT_LEN) /\ Uint64ToCode(w) = text
  BY <1>4, CodeOfText
<1>6. PICK f \in FunIds, u \in UniqueCodes : CodeValue(f, u) = w
  BY <1>2, <1>5, SignedIsMade
<1>7. CreateRedeemCode(f, u) = text
  BY <1>5, <1>6, MadeTexts
<1> QED
  BY <1>7

\* The states: nothing yet, an answer of CreateRedeemCode, or a text that was typed.
CodeInv ==
  \/ asked = <<>> /\ code = Failed
  \/ asked = <<>> /\ code \in Texts
  \/ \E f \in FunIds \cup {TooLarge}, u \in UniqueCodes \cup {TooLarge} :
       asked = <<f, u>> /\ code = CreateRedeemCode(f, u)

LEMMA CodeInvExact ==
  ASSUME CodeInv PROVE CodesExact
<1>1. \A text : MadeBy(text) = {p \in FunIds \X UniqueCodes : CreateRedeemCode(p[1], p[2]) = text}
  BY DEF MadeBy, Made
<1>2. \A p, q \in MadeBy(code) : p = q
  <2>1. ASSUME NEW p \in MadeBy(code), NEW q \in MadeBy(code) PROVE p = q
    <3>1. /\ p = <<p[1], p[2]>> /\ q = <<q[1], q[2]>>
          /\ p[1] \in FunIds /\ q[1] \in FunIds /\ p[2] \in UniqueCodes /\ q[2] \in UniqueCodes
          /\ CreateRedeemCode(p[1], p[2]) = CreateRedeemCode(q[1], q[2])
      BY <1>1
    <3>2. p[1] = q[1] /\ p[2] = q[2]
      BY <3>1, MadeTexts
    <3> QED
      BY <3>1, <3>2
  <2> QED
    BY <2>1
<1>3. \A p \in MadeBy(code) : GetFunId(code) = p[1] /\ CheckCodeValid(code)
  <2>1. ASSUME NEW p \in MadeBy(code) PROVE GetFunId(code) = p[1] /\ CheckCodeValid(code)
    <3>1. p[1] \in FunIds /\ p[2] \in UniqueCodes /\ CreateRedeemCode(p[1], p[2]) = code
      BY <1>1
    <3> QED
      BY <3>1, MadeTexts
  <2> QED
    BY <2>1
<1>4. ASSUME NEW f \in FunIds, NEW u \in UniqueCodes, code = CreateRedeemCode(f, u)
      PROVE  <<f, u>> \in MadeBy(code)
  BY <1>1, <1>4
<1>5. ASSUME NEW f \in FunIds \cup {TooLarge}, NEW u \in UniqueCodes \cup {TooLarge},
             asked = <<f, u>>, code = CreateRedeemCode(f, u)
      PROVE  /\ \/ asked \in MadeBy(code)
                \/ code = Failed /\ TooLarge \in {asked[1], asked[2]}
             /\ code # Failed => MadeBy(code) # {}
  <2>1. CASE f = TooLarge \/ u = TooLarge
    <3>1. code = Failed
      BY <1>5, <2>1 DEF CreateRedeemCode
    <3>2. TooLarge \in {asked[1], asked[2]}
      BY <1>5, <2>1
    <3> QED
      BY <3>1, <3>2
  <2>2. CASE f \in FunIds /\ u \in UniqueCodes
    BY <1>4, <1>5, <2>2
  <2> QED
    BY <2>1, <2>2
<1>6. ASSUME code \in Texts, CheckCodeValid(code) PROVE MadeBy(code) # {}
  <2>1. PICK n \in 0 .. MaxText : code \in [1 .. n -> Character \cup {Bad}]
    BY <1>6 DEF Texts
  <2>2. n \in Nat
    BY RedeemCfg
  <2>3. PICK f \in FunIds, u \in UniqueCodes : CreateRedeemCode(f, u) = code
    BY <1>6, <2>1, <2>2, ValidIsMade
  <2> QED
    BY <2>3, <1>4
<1>7. asked # <<>> => \/ asked \in MadeBy(code)
                      \/ code = Failed /\ TooLarge \in {asked[1], asked[2]}
  BY <1>5 DEF CodeInv
<1>8. code # Failed /\ CheckCodeValid(code) => MadeBy(code) # {}
  BY <1>5, <1>6 DEF CodeInv
<1> QED
  BY <1>2, <1>3, <1>7, <1>8 DEF CodesExact

\* For all widths the configuration may have: the codes the tool makes differ, the
\* server accepts these and no other text, and reads the fun_id from them.
THEOREM CodesStayExact == CodeSpec => []CodesExact
<1>1. CodeInit => CodeInv
  BY DEF CodeInit, CodeInv
<1>2. CodeInv /\ [CodeNext]_codeVars => CodeInv'
  <2> SUFFICES ASSUME CodeInv, [CodeNext]_codeVars PROVE CodeInv'
    OBVIOUS
  <2>1. CASE UNCHANGED codeVars
    BY <2>1 DEF codeVars, CodeInv
  <2>2. ASSUME NEW f \in FunIds \cup {TooLarge}, NEW u \in UniqueCodes \cup {TooLarge}, Create(f, u)
        PROVE  CodeInv'
    BY <2>2 DEF Create, CodeInv
  <2>3. ASSUME NEW text \in Texts, Type(text) PROVE CodeInv'
    BY <2>3 DEF Type, CodeInv
  <2> QED
    BY <2>1, <2>2, <2>3 DEF CodeNext
<1>3. CodeInv => CodesExact
  BY CodeInvExact
<1> QED
  BY <1>1, <1>2, <1>3, PTL DEF CodeSpec

=============================================================================
