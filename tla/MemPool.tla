------------------------------ MODULE MemPool ------------------------------
(***************************************************************************)
(* Neo::MemPool<T> (mem_pool.h), the allocator behind the operator new and *)
(* operator delete that NEWCLASS and DELETECLASS give a class.  The pool   *)
(* takes blocks from malloc, when its size is set and whenever it has none *)
(* left, and keeps them; the program holds those of its objects.           *)
(***************************************************************************)
EXTENDS Naturals, FiniteSets, SequencesExt

CONSTANTS
  Block,     \* addresses malloc can return
  Grow       \* bound: blocks by which an empty pool grows (1000 in the code)

ASSUME PoolConstants == Grow \in Nat \ {0}

VARIABLES
  m_vec_all_obj,   \* every block the pool took from malloc
  m_vec_free_obj,  \* those it can hand out, the last one first
  inUse,           \* the blocks the program's objects live in
  aborted          \* an assertion of Free failed

poolVars == <<m_vec_all_obj, m_vec_free_obj, inUse, aborted>>

PoolInit ==
  /\ m_vec_all_obj = <<>> /\ m_vec_free_obj = <<>>
  /\ inUse = {} /\ aborted = FALSE

\* n blocks malloc may return now, in any order: all different, none given out.
Mallocs(n) ==
  {s \in [1 .. n -> Block \ ToSet(m_vec_all_obj)] : IsInjective(s)}

\* MEM_POOL_SET_SIZE; refused once the pool has blocks.
SetBufferSize(obj_num) ==
  /\ ~aborted /\ m_vec_all_obj = <<>>
  /\ \E s \in Mallocs(obj_num) : m_vec_all_obj' = s /\ m_vec_free_obj' = s
  /\ UNCHANGED <<inUse, aborted>>

\* operator new: an empty pool grows first.
Allocate ==
  /\ ~aborted
  /\ \E s \in IF m_vec_free_obj = <<>> THEN Mallocs(Grow) ELSE {<<>>} :
       LET free == m_vec_free_obj \o s
       IN /\ m_vec_all_obj' = m_vec_all_obj \o s
          /\ m_vec_free_obj' = Front(free)
          /\ inUse' = inUse \cup {Last(free)}
  /\ UNCHANGED aborted

\* Mutant: a block that is free already is taken back again.
FreeAgain(pT) ==
  /\ ~aborted
  /\ IF pT \in ToSet(m_vec_all_obj)
     THEN /\ m_vec_free_obj' = Append(m_vec_free_obj, pT)
          /\ inUse' = inUse \ {pT}
          /\ UNCHANGED <<m_vec_all_obj, aborted>>
     ELSE aborted' = TRUE /\ UNCHANGED <<m_vec_all_obj, m_vec_free_obj, inUse>>

\* operator delete, of a block the program holds or, by mistake, of any other:
\* CHECK_FREE_ERROR lets only blocks of the pool through, and each only once.
Free(pT) ==
  /\ ~aborted
  /\ IF pT \in ToSet(m_vec_all_obj) \ ToSet(m_vec_free_obj)
     THEN /\ m_vec_free_obj' = Append(m_vec_free_obj, pT)
          /\ inUse' = inUse \ {pT}
          /\ UNCHANGED <<m_vec_all_obj, aborted>>
     ELSE aborted' = TRUE /\ UNCHANGED <<m_vec_all_obj, m_vec_free_obj, inUse>>

\* ~MemPool; the program is taken to have deleted its objects before.
Clear ==
  /\ ~aborted /\ inUse = {}
  /\ m_vec_all_obj' = <<>> /\ m_vec_free_obj' = <<>>
  /\ UNCHANGED <<inUse, aborted>>

PoolNext ==
  \/ \E n \in 0 .. Grow : SetBufferSize(n)
  \/ Allocate \/ Clear
  \/ \E pT \in Block : Free(pT)

PoolSpec == PoolInit /\ [][PoolNext]_poolVars

GetAllocateNum == Len(m_vec_all_obj) - Len(m_vec_free_obj)

(***************************************************************************)
(* Properties.                                                             *)
(***************************************************************************)
PoolTypeOK ==
  /\ m_vec_all_obj \in Seq(Block) /\ m_vec_free_obj \in Seq(Block)
  /\ inUse \subseteq Block /\ aborted \in BOOLEAN

\* No block is lost and none is handed out twice: across growth, deletion in
\* any order and deletion by mistake, the blocks the pool took from malloc are
\* those it can hand out and those the program holds, each in one place once,
\* and GetAllocateNum (mem_pool.h:48) is the number of objects that exist.
BlocksConserved ==
  /\ IsInjective(m_vec_all_obj) /\ IsInjective(m_vec_free_obj)
  /\ ToSet(m_vec_free_obj) \cap inUse = {}
  /\ ToSet(m_vec_all_obj) = ToSet(m_vec_free_obj) \cup inUse
  /\ GetAllocateNum = Cardinality(inUse)
=============================================================================
