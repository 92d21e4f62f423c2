---------------------------- MODULE PthreadProofs ----------------------------
(***************************************************************************)
(* Proofs about the mutexes of Pthread, for any number of threads, mutexes *)
(* and handles: they exclude, and a lock that was granted stays the one    *)
(* its mutex names.  Two hypotheses, each of which the code needs:         *)
(*   - FirstUseAlone: the check and the making of a mutex are two steps    *)
(*     with no lock around them (run pthr_first_lock shows what two first  *)
(*     calls at once can do);                                              *)
(*   - Room: rememberObject says nothing when its table is full, and the   *)
(*     next call on the mutex it left out makes it anew.                   *)
(***************************************************************************)
EXTENDS Pthread, FiniteSetTheorems, WellFoundedInduction, TLAPS

\* A slot of initializedObjects for every mutex.
Room ==
  /\ IsFiniteSet(Mutexes) /\ IsFiniteSet(Slots)
  /\ Cardinality(Mutexes) <= Cardinality(Slots)

\* No mutex is in the table twice.
TableUnique == \A r, s \in Slots : table[r] = table[s] /\ table[r] # Nothing => r = s

TableOK == table \in [Slots -> Mutexes \cup {Nothing}] /\ TableUnique

\* A set of slots has a first one: of the segments 0..n that end in it, one is
\* least in the order of strict inclusion.
LEMMA FirstExists ==
  ASSUME NEW S, S \subseteq Nat, S # {}
  PROVE  \E n \in S : \A m \in S : n <= m
<1> DEFINE segments == {0..n : n \in S}
<1>1. segments \subseteq FiniteSubsetsOf(Nat) /\ segments # {}
  <2>1. \A n \in Nat : IsFiniteSet(0..n) /\ 0..n \in SUBSET Nat
    BY FS_Interval
  <2> QED BY <2>1 DEF FiniteSubsetsOf
<1>2. PICK x \in segments : \A y \in segments : <<y, x>> \notin StrictSubsetOrdering(Nat)
  BY <1>1, FS_StrictSubsetOrderingWellFounded, WFMin
<1>3. PICK n \in S : x = 0..n
  BY <1>2
<1>4. ASSUME NEW m \in S PROVE n <= m
  <2>1. <<0..m, 0..n>> \notin StrictSubsetOrdering(Nat)
    BY <1>2, <1>3
  <2>2. 0..m \in SUBSET Nat /\ 0..n \in SUBSET Nat
    OBVIOUS
  <2>3. ~(0..m \subseteq 0..n /\ 0..m # 0..n)
    BY <2>1, <2>2 DEF StrictSubsetOrdering
  <2>4. m \in Nat /\ n \in Nat
    OBVIOUS
  <2>5. SUFFICES ASSUME m < n PROVE FALSE
    BY <2>4
  <2>6. n \in 0..n /\ n \notin 0..m /\ 0..m \subseteq 0..n
    BY <2>4, <2>5
  <2> QED BY <2>3, <2>6
<1> QED BY <1>4

\* The scan of the table stops at a slot with what it looks for.
LEMMA FirstSlotIs ==
  ASSUME NEW content, \E s \in Slots : table[s] = content
  PROVE  FirstSlot(content) \in Slots /\ table[FirstSlot(content)] = content
<1> DEFINE S == {s \in Slots : table[s] = content}
<1>1. S \subseteq Nat /\ S # {}
  BY MutexAssumption
<1>2. PICK n \in S : \A m \in S : n <= m
  <2> HIDE DEF S
  <2> QED BY <1>1, FirstExists
<1>3. n \in Slots /\ table[n] = content /\ \A r \in Slots : table[r] = content => n <= r
  BY <1>2
<1> QED BY <1>3 DEF FirstSlot

\* As long as a mutex is missing from the table there is a free slot: otherwise
\* two slots would hold the same one.
LEMMA TableHasRoom ==
  ASSUME TableOK, Room, NEW m \in Mutexes, ~IsObjectInitialized(m)
  PROVE  IsObjectInitialized(Nothing)
<1> SUFFICES ASSUME ~IsObjectInitialized(Nothing) PROVE FALSE
  OBVIOUS
<1>1. table \in [Slots -> Mutexes \ {m}]
  BY DEF TableOK, IsObjectInitialized
<1>2. IsFiniteSet(Mutexes \ {m}) /\ Cardinality(Mutexes \ {m}) = Cardinality(Mutexes) - 1
  BY FS_RemoveElement DEF Room
<1>3. Cardinality(Mutexes) \in Nat /\ Cardinality(Slots) \in Nat
  BY FS_CardinalityType DEF Room
<1>4. Cardinality(Mutexes \ {m}) < Cardinality(Slots)
  BY <1>2, <1>3 DEF Room
<1>5. \E x, y \in Slots : x # y /\ table[x] = table[y]
  BY <1>1, <1>2, <1>4, FS_PigeonHole DEF Room
<1> QED BY <1>5 DEF TableOK, TableUnique, IsObjectInitialized

\* rememberObject adds its mutex and forgets none.
LEMMA Remembered ==
  ASSUME TableOK, Room, NEW m \in Mutexes, ~IsObjectInitialized(m), RememberObject(m)
  PROVE  /\ TableOK'
         /\ \A n \in Mutexes : IsObjectInitialized(n)' <=> n = m \/ IsObjectInitialized(n)
<1> DEFINE s == FirstSlot(Nothing)
<1>1. s \in Slots /\ table[s] = Nothing
  BY TableHasRoom, FirstSlotIs DEF IsObjectInitialized
<1>2. table' = [table EXCEPT ![s] = m]
  BY TableHasRoom DEF RememberObject
<1> HIDE DEF s
<1>3. TableOK'
  BY <1>1, <1>2 DEF TableOK, TableUnique, IsObjectInitialized
<1>4. \A n \in Mutexes : IsObjectInitialized(n)' <=> n = m \/ IsObjectInitialized(n)
  BY <1>1, <1>2, MutexAssumption DEF TableOK, IsObjectInitialized
<1> QED BY <1>3, <1>4

\* pthr_forgetObject leaves no second entry behind.
LEMMA Forgotten ==
  ASSUME TableOK, NEW m \in Mutexes, ForgetObject(m)
  PROVE  /\ TableOK'
         /\ \A n \in Mutexes : IsObjectInitialized(n)' <=> n # m /\ IsObjectInitialized(n)
<1>1. CASE ~IsObjectInitialized(m)
  BY <1>1 DEF ForgetObject, TableOK, TableUnique, IsObjectInitialized
<1>2. CASE IsObjectInitialized(m)
  <2> DEFINE s == FirstSlot(m)
  <2>1. s \in Slots /\ table[s] = m
    BY <1>2, FirstSlotIs DEF IsObjectInitialized
  <2>2. table' = [table EXCEPT ![s] = Nothing]
    BY <1>2 DEF ForgetObject
  <2> HIDE DEF s
  <2> QED BY <2>1, <2>2, MutexAssumption DEF TableOK, TableUnique, IsObjectInitialized
<1> QED BY <1>1, <1>2

-----------------------------------------------------------------------------
(* The invariant.  A mutex word that holds a handle holds one of its own; a  *)
(* mutex still being made is known to one thread only; and the newlib mutex  *)
(* of a mutex the game shares is the one its lock calls counted in.          *)

WordsApart ==
  \A m \in Mutexes : word[m] \in Handles =>
    word[m] \in used /\ \A n \in Mutexes : word[n] = word[m] => n = m

Using(t, m) == pc[t] # "game" /\ call[t].mutex = m

Sound(m) ==
  /\ word[m] \in used
  /\ real[word[m]] # Nothing
  /\ real[word[m]].kind = asked[m]
  /\ real[word[m]].owner = Nothing <=> real[word[m]].depth = 0
  /\ \A t \in Threads :
       inside[t][m] = IF real[word[m]].owner = t THEN real[word[m]].depth ELSE 0

MutexInv(m) ==
  /\ life[m] \in {"raw", "static"} =>
       ~IsObjectInitialized(m) /\ word[m] \in Kinds /\ \A t \in Threads : ~Using(t, m)
  /\ life[m] = "static" => word[m] = asked[m]
  /\ life[m] = "live" => IsObjectInitialized(m) /\ Sound(m)
  /\ life[m] # "live" => \A t \in Threads : inside[t][m] = 0
  /\ life[m] = "busy" => \A t, u \in Threads : Using(t, m) /\ Using(u, m) => t = u

CallInv(t, m) ==
  /\ call[t] \in Calls
  /\ pc[t] = "check" => call[t].op # "destroy"
  /\ pc[t] = "check" /\ call[t].op = "init" => life[m] = "busy"
  /\ pc[t] \in {"check", "alloc"} /\ life[m] = "busy" =>
       /\ ~IsObjectInitialized(m) /\ word[m] \in Kinds
       /\ asked[m] = IF call[t].kind = Nothing THEN word[m] ELSE call[t].kind
  /\ pc[t] \in {"alloc", "make", "remember", "release"} =>
       life[m] = "busy" /\ ~IsObjectInitialized(m)
  /\ pc[t] = "make" => word[m] \in used /\ call[t].kind = asked[m]
  /\ pc[t] \in {"remember", "enter", "wait", "release"} => Sound(m)
  /\ pc[t] \in {"enter", "wait"} => IsObjectInitialized(m)
  /\ pc[t] = "wait" => call[t].handle = word[m]

ThreadInv(t) == pc[t] # "game" => CallInv(t, call[t].mutex)

Inv ==
  /\ TypeOK /\ TableUnique /\ WordsApart
  /\ \A m \in Mutexes : MutexInv(m)
  /\ \A t \in Threads : ThreadInv(t)

\* What a step leaves alone of a mutex, as far as the threads in it can tell.
Same(m) ==
  /\ word'[m] = word[m] /\ asked'[m] = asked[m] /\ life'[m] = life[m]
  /\ IsObjectInitialized(m)' <=> IsObjectInitialized(m)
  /\ word[m] \in used => word[m] \in used'
  /\ Sound(m) => Sound(m)'

\* An untouched mutex keeps its invariant, unless it is private and a thread
\* came to use it.
LEMMA MutexFrame ==
  ASSUME NEW m \in Mutexes, MutexInv(m), Same(m),
         life[m] # "live" => \A t \in Threads :
            /\ inside'[t][m] = inside[t][m]
            /\ Using(t, m)' => Using(t, m)
  PROVE  MutexInv(m)'
<1> USE DEF Same
<1>1. (life[m] \in {"raw", "static"} =>
       ~IsObjectInitialized(m) /\ word[m] \in Kinds /\ \A t \in Threads : ~Using(t, m))'
  BY DEF MutexInv
<1>2. (life[m] = "static" => word[m] = asked[m])'
  BY DEF MutexInv
<1>3. (life[m] = "live" => IsObjectInitialized(m) /\ Sound(m))'
  BY DEF MutexInv
<1>4. (life[m] # "live" => \A t \in Threads : inside[t][m] = 0)'
  BY DEF MutexInv
<1>5. (life[m] = "busy" => \A t, u \in Threads : Using(t, m) /\ Using(u, m) => t = u)'
  BY DEF MutexInv
<1> QED BY <1>1, <1>2, <1>3, <1>4, <1>5 DEF MutexInv

\* So does a thread that did not move.
LEMMA ThreadFrame ==
  ASSUME NEW t \in Threads, ThreadInv(t), pc'[t] = pc[t], call'[t] = call[t],
         pc[t] # "game" => Same(call[t].mutex)
  PROVE  ThreadInv(t)'
<1> SUFFICES ASSUME pc[t] # "game" PROVE CallInv(t, call[t].mutex)'
  BY DEF ThreadInv
<1> DEFINE m == call[t].mutex
<1>1. CallInv(t, m) /\ Same(m) /\ m' = m
  BY DEF ThreadInv
<1> HIDE DEF m
<1>2. CallInv(t, m)'
  BY <1>1 DEF CallInv, Same
<1> QED BY <1>2 DEF m

\* Sound depends on the mutex's own word, its newlib mutex and who is in it.
LEMMA SoundFrame ==
  ASSUME NEW m \in Mutexes, Sound(m), word'[m] = word[m], asked'[m] = asked[m],
         real'[word[m]] = real[word[m]], word[m] \in used',
         \A t \in Threads : inside'[t][m] = inside[t][m]
  PROVE  Sound(m)'
BY DEF Sound

\* A step of t on m leaves the other mutexes and the other threads alone.
OnlyAt(t, m) ==
  /\ \A n \in Mutexes \ {m} :
       /\ word'[n] = word[n] /\ asked'[n] = asked[n] /\ life'[n] = life[n]
       /\ IsObjectInitialized(n)' <=> IsObjectInitialized(n)
       /\ word[n] \in used => word[n] \in used' /\ real'[word[n]] = real[word[n]]
       /\ \A u \in Threads : inside'[u][n] = inside[u][n]
  /\ \A u \in Threads \ {t} : pc'[u] = pc[u] /\ call'[u] = call[u]
  /\ pc'[t] # "game" => call'[t].mutex = m

\* What is left to show of such a step: the types, the table, the words, and
\* the invariant of its own thread and mutex.
LEMMA Local ==
  ASSUME Inv, NEW t \in Threads, NEW m \in Mutexes, OnlyAt(t, m),
         TypeOK', TableUnique', WordsApart', MutexInv(m)', ThreadInv(t)',
         Same(m) \/ \A u \in Threads \ {t} : ~Using(u, m)
  PROVE  Inv'
<1>1. ASSUME NEW n \in Mutexes \ {m} PROVE Same(n) /\ MutexInv(n)'
  <2>1. Sound(n) => Sound(n)'
    <3> SUFFICES ASSUME Sound(n) PROVE Sound(n)'
      OBVIOUS
    <3>1. word[n] \in used
      BY DEF Sound
    <3> QED BY <3>1, SoundFrame DEF OnlyAt
  <2>2. Same(n)
    BY <2>1 DEF OnlyAt, Same
  <2>3. \A u \in Threads : inside'[u][n] = inside[u][n] /\ (Using(u, n)' => Using(u, n))
    BY DEF OnlyAt, Using
  <2> QED BY <2>2, <2>3, MutexFrame DEF Inv
<1>2. ASSUME NEW u \in Threads \ {t} PROVE ThreadInv(u)'
  <2>1. pc[u] # "game" => Same(call[u].mutex)
    <3> SUFFICES ASSUME pc[u] # "game" PROVE Same(call[u].mutex)
      OBVIOUS
    <3>1. call[u].mutex \in Mutexes
      BY DEF Inv, ThreadInv, CallInv, Calls
    <3> QED BY <1>1, <3>1 DEF Using
  <2> QED BY <2>1, ThreadFrame DEF Inv, OnlyAt
<1> QED BY <1>1, <1>2 DEF Inv

LEMMA InitInv == Init => Inv
<1> SUFFICES ASSUME Init PROVE Inv
  OBVIOUS
<1> USE MutexAssumption DEF Init
<1>1. TypeOK
  BY DEF TypeOK
<1>2. TableUnique /\ WordsApart
  BY DEF TableUnique, WordsApart, Kinds
<1>3. ASSUME NEW m \in Mutexes PROVE MutexInv(m)
  BY DEF MutexInv, IsObjectInitialized, Using
<1>4. \A t \in Threads : ThreadInv(t)
  BY DEF ThreadInv
<1> QED BY <1>1, <1>2, <1>3, <1>4 DEF Inv

LEMMA CallInitInv ==
  ASSUME Inv, NEW t \in Threads, NEW m \in Mutexes, NEW kind \in Kinds \cup {Nothing},
         CallInit(t, m, kind)
  PROVE  Inv'
<1> USE DEF CallInit, Begin, Goto
<1>1. MutexInv(m) /\ word[m] \in Kinds /\ ~IsObjectInitialized(m)
      /\ \A u \in Threads : ~Using(u, m)
  BY DEF Inv, MutexInv
<1>2. TypeOK'
  BY <1>1 DEF Inv, TypeOK, Calls
<1>3. TableUnique' /\ WordsApart' /\ \A n \in Mutexes : IsObjectInitialized(n)' <=> IsObjectInitialized(n)
  BY DEF Inv, TableUnique, WordsApart, IsObjectInitialized
<1>4. OnlyAt(t, m)
  BY <1>3 DEF OnlyAt, Inv, TypeOK
<1>5. life'[m] = "busy" /\ asked'[m] = (IF kind = Nothing THEN word[m] ELSE kind)
  BY DEF Inv, TypeOK
<1>6. pc' = [pc EXCEPT ![t] = "check"] /\ call'[t] = [op |-> "init", mutex |-> m, kind |-> kind, handle |-> Nothing]
  BY DEF Inv, TypeOK
<1>7. MutexInv(m)'
  <2>1. \A u \in Threads : Using(u, m)' => u = t
    BY <1>1, <1>4 DEF OnlyAt, Using
  <2> QED BY <1>1, <1>5, <2>1 DEF MutexInv
<1>8. ThreadInv(t)'
  BY <1>1, <1>3, <1>5, <1>6 DEF ThreadInv, CallInv, Calls, Inv, TypeOK
<1> QED BY <1>1, <1>2, <1>3, <1>4, <1>7, <1>8, Local

LEMMA CallLockInv ==
  ASSUME Inv, NEW t \in Threads, NEW m \in Mutexes, NEW op \in {"lock", "trylock"},
         CallLock(t, m, op), FirstUseAlone
  PROVE  Inv'
<1> USE DEF CallLock, Begin, Goto
<1>1. TypeOK'
  BY DEF Inv, TypeOK, Calls
<1>2. TableUnique' /\ WordsApart' /\ \A n \in Mutexes : IsObjectInitialized(n)' <=> IsObjectInitialized(n)
  BY DEF Inv, TableUnique, WordsApart, IsObjectInitialized
<1>3. OnlyAt(t, m)
  BY <1>2 DEF OnlyAt, Inv, TypeOK
<1>4. /\ pc'[t] = "check" /\ m = call'[t].mutex
      /\ call'[t] = [op |-> op, mutex |-> m, kind |-> Nothing, handle |-> Nothing]
  BY DEF Inv, TypeOK
<1>5. MutexInv(m)
  BY DEF Inv
<1>6. CASE life[m] = "live"
  <2>1. life' = life
    BY <1>6
  <2>2. Sound(m) /\ IsObjectInitialized(m)
    BY <1>5, <1>6 DEF MutexInv
  <2>3. Sound(m)'
    BY <2>2 DEF Sound
  <2>4. Same(m) /\ MutexInv(m)'
    BY <1>2, <1>5, <1>6, <2>1, <2>3, MutexFrame DEF Same
  <2>5. ThreadInv(t)'
    BY <1>4, <1>6, <2>1 DEF ThreadInv, CallInv, Calls
  <2> QED BY <1>1, <1>2, <1>3, <2>4, <2>5, Local
<1>7. CASE life[m] = "static"
  <2>1. life'[m] = "busy"
    BY <1>7 DEF Inv, TypeOK
  <2>2. /\ ~IsObjectInitialized(m) /\ word[m] \in Kinds /\ word[m] = asked[m]
        /\ \A u \in Threads : ~Using(u, m) /\ inside[u][m] = 0
    BY <1>5, <1>7 DEF MutexInv
  <2>3. \A u \in Threads : Using(u, m)' => u = t
    BY <2>2, <1>3 DEF OnlyAt, Using
  <2>4. MutexInv(m)'
    BY <1>2, <2>1, <2>2, <2>3 DEF MutexInv
  <2>5. ThreadInv(t)'
    BY <1>2, <1>4, <2>1, <2>2 DEF ThreadInv, CallInv, Calls
  <2> QED BY <1>1, <1>2, <1>3, <2>2, <2>4, <2>5, Local
<1> QED BY <1>6, <1>7

LEMMA CallDestroyInv ==
  ASSUME Inv, NEW t \in Threads, NEW m \in Mutexes, CallDestroy(t, m)
  PROVE  Inv'
<1> USE DEF CallDestroy, Goto
<1>1. TableOK' /\ \A n \in Mutexes : IsObjectInitialized(n)' <=> n # m /\ IsObjectInitialized(n)
  BY Forgotten DEF Inv, TypeOK, TableOK
<1>2. TypeOK'
  BY <1>1 DEF Inv, TypeOK, Calls, TableOK
<1>3. TableUnique' /\ WordsApart'
  BY <1>1 DEF Inv, TableOK, WordsApart
<1>4. OnlyAt(t, m)
  BY <1>1 DEF OnlyAt, Inv, TypeOK
<1>5. /\ pc'[t] = "release" /\ life'[m] = "busy" /\ ~IsObjectInitialized(m)'
      /\ call'[t] = [op |-> "destroy", mutex |-> m, kind |-> Nothing, handle |-> Nothing]
  BY <1>1 DEF Inv, TypeOK
<1>6. Sound(m) /\ \A u \in Threads : ~Using(u, m) /\ inside[u][m] = 0
  BY DEF Inv, MutexInv, Idle, Using
<1>7. \A u \in Threads : Using(u, m)' => u = t
  BY <1>4, <1>6 DEF OnlyAt, Using
<1>8. MutexInv(m)'
  BY <1>5, <1>6, <1>7 DEF MutexInv
<1>9. Sound(m)'
  BY <1>6 DEF Sound
<1>10. ThreadInv(t)'
  BY <1>5, <1>9 DEF ThreadInv, CallInv, Calls
<1> QED BY <1>2, <1>3, <1>4, <1>6, <1>8, <1>10, Local

LEMMA UnlockInv ==
  ASSUME Inv, NEW t \in Threads, NEW m \in Mutexes, Unlock(t, m)
  PROVE  Inv'
<1> DEFINE h == word[m]
           unlocked == [kind |-> real[h].kind, depth |-> real[h].depth - 1,
                        owner |-> IF real[h].depth = 1 THEN Nothing ELSE real[h].owner]
<1> USE DEF Inv
<1>1. pc[t] = "game" /\ inside[t][m] > 0 /\ UNCHANGED <<word, table, used, pc, call, life, asked>>
      /\ inside' = [inside EXCEPT ![t][m] = @ - 1]
  BY DEF Unlock
<1>2. life[m] = "live" /\ IsObjectInitialized(m) /\ Sound(m) /\ MutexInv(m)
  BY <1>1 DEF MutexInv, TypeOK
<1>3. /\ h \in Handles /\ h \in used /\ real[h] \in RealMutexes /\ real[h].owner = t
      /\ real[h].depth \in 1..MaxDepth /\ inside[t][m] = real[h].depth
  BY <1>1, <1>2, MutexAssumption DEF Sound, TypeOK, RealMutexes
<1>4. real' = [real EXCEPT ![h] = unlocked]
  BY <1>3, MutexAssumption DEF Unlock
<1>5. unlocked \in RealMutexes /\ unlocked # Nothing
  <2>1. unlocked \in RealMutexes
    <3>1. /\ real[h].kind \in Kinds /\ real[h].depth - 1 \in 0..MaxDepth
          /\ real[h].owner \in Threads \cup {Nothing}
      BY <1>3, MutexAssumption DEF RealMutexes
    <3> QED BY <3>1 DEF RealMutexes
  <2> QED BY <2>1, MutexAssumption
<1>6. h = word[m] /\ real[h].kind = asked[m]
      /\ \A u \in Threads \ {t} : inside[u][m] = 0
  BY <1>2, <1>3 DEF Sound
<1> HIDE DEF h
<1>7. /\ real'[h] = unlocked /\ \A g \in Handles \ {h} : real'[g] = real[g]
      /\ \A u \in Threads, n \in Mutexes : u # t \/ n # m => inside'[u][n] = inside[u][n]
      /\ inside'[t][m] = inside[t][m] - 1
  BY <1>1, <1>3, <1>4 DEF TypeOK
<1>8. TypeOK'
  <2>1. real' \in [Handles -> RealMutexes \cup {Nothing}]
    BY <1>3, <1>4, <1>5 DEF TypeOK
  <2>2. inside' \in [Threads -> [Mutexes -> 0..MaxDepth]]
    BY <1>1, <1>3, MutexAssumption DEF TypeOK
  <2> QED BY <1>1, <2>1, <2>2 DEF TypeOK
<1>9. TableUnique' /\ WordsApart' /\ \A n \in Mutexes : IsObjectInitialized(n)' <=> IsObjectInitialized(n)
  BY <1>1 DEF TableUnique, WordsApart, IsObjectInitialized
<1>10. \A n \in Mutexes \ {m} : word[n] \in used => word[n] \in Handles \ {h}
  BY <1>6 DEF WordsApart, TypeOK
<1>11. OnlyAt(t, m)
  BY <1>1, <1>7, <1>9, <1>10 DEF OnlyAt
<1>12. Sound(m)'
  BY <1>1, <1>3, <1>5, <1>6, <1>7, MutexAssumption DEF Sound
<1>13. Same(m)
  BY <1>1, <1>9, <1>12 DEF Same
<1>14. MutexInv(m)'
  BY <1>2, <1>13, MutexFrame
<1>15. ThreadInv(t)'
  BY <1>1 DEF ThreadInv
<1> QED BY <1>8, <1>9, <1>11, <1>13, <1>14, <1>15, Local

\* A thread in the shim works on one mutex.
LEMMA CallersMutex ==
  ASSUME Inv, NEW t \in Threads, pc[t] # "game"
  PROVE  \E m \in Mutexes : m = call[t].mutex /\ CallInv(t, m) /\ Using(t, m)
BY DEF Inv, ThreadInv, CallInv, Calls, Using

\* While a mutex is being made, or unmade, its maker is alone with it.
LEMMA Alone ==
  ASSUME Inv, NEW t \in Threads, NEW m \in Mutexes, Using(t, m), life[m] = "busy"
  PROVE  /\ \A u \in Threads \ {t} : ~Using(u, m)
         /\ \A u \in Threads : inside[u][m] = 0
BY DEF Inv, MutexInv

\* A mutex in use is being made, or is shared.
LEMMA BusyOrLive ==
  ASSUME Inv, NEW t \in Threads, NEW m \in Mutexes, Using(t, m)
  PROVE  \/ life[m] = "busy"
         \/ life[m] = "live" /\ Sound(m) /\ IsObjectInitialized(m)
BY DEF Inv, MutexInv, TypeOK

LEMMA CheckInv ==
  ASSUME Inv, NEW t \in Threads, Check(t)
  PROVE  Inv'
<1> PICK m \in Mutexes : m = call[t].mutex /\ CallInv(t, m) /\ Using(t, m)
  BY CallersMutex DEF Check, At
<1>1. /\ pc[t] = "check" /\ call[t] \in Calls
      /\ UNCHANGED <<word, table, real, used, asked, inside>>
  BY DEF Check, At, CallInv
<1>2. TableUnique' /\ WordsApart' /\ \A n \in Mutexes :
        (IsObjectInitialized(n)' <=> IsObjectInitialized(n)) /\ (Sound(n)' <=> Sound(n))
  BY <1>1 DEF Inv, TableUnique, WordsApart, IsObjectInitialized, Sound
<1>3. CASE ~IsObjectInitialized(m)
  <2>1. pc' = [pc EXCEPT ![t] = "alloc"] /\ UNCHANGED <<call, life>>
    BY <1>3 DEF Check, Goto
  <2>2. TypeOK' /\ pc'[t] = "alloc"
    BY <1>1, <2>1 DEF Inv, TypeOK
  <2>3. life[m] = "busy"
    BY <1>1, <1>3, BusyOrLive
  <2>4. OnlyAt(t, m)
    BY <1>1, <1>2, <2>1 DEF OnlyAt, Inv, TypeOK, Using
  <2>5. Same(m)
    BY <1>1, <1>2, <2>1 DEF Same
  <2>6. MutexInv(m)'
    BY <1>1, <2>1, <2>2, <2>5, MutexFrame DEF Inv, Using
  <2>7. CallInv(t, m)'
    BY <1>1, <1>2, <1>3, <2>1, <2>2, <2>3 DEF CallInv
  <2>8. ThreadInv(t)'
    BY <2>2, <2>7, <2>1, <1>1 DEF ThreadInv, Using
  <2> QED BY <1>1, <1>2, <2>2, <2>4, <2>5, <2>6, <2>8, Local
<1>4. CASE IsObjectInitialized(m)
  <2>1. life[m] = "live" /\ Sound(m) /\ call[t].op # "init"
    <3>1. life[m] # "busy"
      BY <1>1, <1>4 DEF CallInv
    <3> QED BY <1>1, <3>1, BusyOrLive DEF CallInv
  <2>2. pc' = [pc EXCEPT ![t] = "enter"] /\ UNCHANGED <<call, life>>
    BY <1>4, <2>1 DEF Check, Initialized, Goto
  <2>3. TypeOK' /\ pc'[t] = "enter"
    BY <1>1, <2>2 DEF Inv, TypeOK
  <2>4. OnlyAt(t, m)
    BY <1>1, <1>2, <2>2 DEF OnlyAt, Inv, TypeOK, Using
  <2>5. Same(m)
    BY <1>1, <1>2, <2>2 DEF Same
  <2>6. MutexInv(m)'
    BY <1>1, <2>1, <2>5, MutexFrame DEF Inv
  <2>7. CallInv(t, m)'
    BY <1>1, <1>2, <1>4, <2>1, <2>2, <2>3 DEF CallInv
  <2>8. ThreadInv(t)'
    BY <2>3, <2>7, <2>2, <1>1 DEF ThreadInv, Using
  <2> QED BY <1>1, <1>2, <2>3, <2>4, <2>5, <2>6, <2>8, Local
<1> QED BY <1>3, <1>4

LEMMA AllocInv ==
  ASSUME Inv, NEW t \in Threads, Alloc(t)
  PROVE  Inv'
<1> PICK m \in Mutexes : m = call[t].mutex /\ CallInv(t, m) /\ Using(t, m)
  BY CallersMutex DEF Alloc
<1>1. /\ pc[t] = "alloc" /\ call[t] \in Calls
      /\ pc' = [pc EXCEPT ![t] = "make"] /\ UNCHANGED <<table, real, life, asked, inside>>
  BY DEF Alloc, CallInv, Goto
<1>2. life[m] = "busy" /\ word[m] \in Kinds /\ ~IsObjectInitialized(m)
  BY <1>1 DEF CallInv
<1>3. PICK h \in Handles \ used :
        /\ used' = used \cup {h} /\ word' = [word EXCEPT ![m] = h]
        /\ call' = [call EXCEPT ![t].kind = IF call[t].kind = Nothing THEN word[m] ELSE call[t].kind]
  BY <1>2 DEF Alloc
<1>4. call'[t] = [op |-> call[t].op, mutex |-> m, handle |-> call[t].handle, kind |-> asked[m]]
      /\ asked[m] \in Kinds /\ \A u \in Threads \ {t} : call'[u] = call[u]
  BY <1>1, <1>2, <1>3 DEF Inv, TypeOK, CallInv, Calls
<1>5. TypeOK'
  <2>1. call' \in [Threads -> Calls \cup {Nothing}]
    BY <1>1, <1>3, <1>4 DEF Inv, TypeOK, Calls
  <2> QED BY <1>1, <1>3, <2>1 DEF Inv, TypeOK
<1>6. call'[t].mutex = m /\ pc'[t] = "make" /\ call'[t] \in Calls /\ call'[t].kind = asked[m]
  BY <1>1, <1>4 DEF Inv, TypeOK, Calls
<1>7. word'[m] = h /\ \A n \in Mutexes \ {m} : word'[n] = word[n]
  BY <1>1, <1>3 DEF Inv, TypeOK
<1>8. TableUnique' /\ WordsApart' /\ \A n \in Mutexes : IsObjectInitialized(n)' <=> IsObjectInitialized(n)
  <2>1. WordsApart'
    BY <1>3, <1>7 DEF Inv, WordsApart
  <2> QED BY <1>1, <2>1 DEF Inv, TableUnique, IsObjectInitialized
<1>9. OnlyAt(t, m)
  BY <1>1, <1>3, <1>4, <1>6, <1>7, <1>8 DEF OnlyAt, Inv, TypeOK
<1>10. \A u \in Threads \ {t} : ~Using(u, m)
  BY <1>1, <1>2, Alone
<1>11. MutexInv(m)'
  <2>1. \A u \in Threads : Using(u, m)' => u = t
    BY <1>9, <1>10 DEF OnlyAt, Using
  <2>2. \A u \in Threads : inside'[u][m] = 0
    BY <1>1, <1>2, Alone
  <2> QED BY <1>1, <1>2, <2>1, <2>2 DEF MutexInv
<1>12. ThreadInv(t)'
  <2>1. CallInv(t, m)'
    BY <1>1, <1>2, <1>3, <1>6, <1>7, <1>8 DEF CallInv
  <2> QED BY <1>6, <2>1 DEF ThreadInv
<1> QED BY <1>1, <1>5, <1>8, <1>9, <1>10, <1>11, <1>12, Local

LEMMA MakeInv ==
  ASSUME Inv, NEW t \in Threads, Make(t)
  PROVE  Inv'
<1> PICK m \in Mutexes : m = call[t].mutex /\ CallInv(t, m) /\ Using(t, m)
  BY CallersMutex DEF Make
<1>1. /\ pc[t] = "make" /\ pc' = [pc EXCEPT ![t] = "remember"] /\ word[m] \in used
      /\ call[t].kind = asked[m] /\ asked[m] \in Kinds /\ word[m] \in Handles
      /\ UNCHANGED <<word, table, used, call, life, asked, inside>>
  BY DEF Make, CallInv, Goto, Inv, TypeOK
<1> DEFINE fresh == [kind |-> asked[m], owner |-> Nothing, depth |-> 0]
<1>2. real' = [real EXCEPT ![word[m]] = fresh]
  BY <1>1 DEF Make
<1>3. fresh \in RealMutexes /\ fresh # Nothing
  <2>1. fresh \in RealMutexes
    BY <1>1, MutexAssumption DEF RealMutexes
  <2> QED BY <2>1, MutexAssumption
<1>4. life[m] = "busy" /\ ~IsObjectInitialized(m)
  BY <1>1 DEF CallInv
<1>5. TypeOK'
  BY <1>1, <1>2, <1>3 DEF Inv, TypeOK
<1>6. TableUnique' /\ WordsApart' /\ \A n \in Mutexes : IsObjectInitialized(n)' <=> IsObjectInitialized(n)
  BY <1>1 DEF Inv, TableUnique, WordsApart, IsObjectInitialized
<1>7. OnlyAt(t, m)
  <2>1. \A n \in Mutexes \ {m} : word[n] # word[m]
    BY <1>1 DEF Inv, WordsApart
  <2>2. \A n \in Mutexes \ {m} : word[n] \in used => real'[word[n]] = real[word[n]]
    BY <1>2, <2>1 DEF Inv, TypeOK
  <2> QED BY <1>1, <1>6, <2>2 DEF OnlyAt, Inv, TypeOK
<1>8. /\ \A u \in Threads \ {t} : ~Using(u, m)
      /\ \A u \in Threads : inside[u][m] = 0
  BY <1>4, Alone
<1>9. Sound(m)'
  <2> HIDE DEF fresh
  <2>1. real'[word[m]] = fresh /\ fresh.kind = asked[m] /\ fresh.owner = Nothing /\ fresh.depth = 0
    BY <1>1, <1>2 DEF Inv, TypeOK, fresh
  <2> QED BY <1>1, <1>3, <1>8, <2>1, MutexAssumption DEF Sound
<1>10. MutexInv(m)'
  BY <1>1, <1>4, <1>7, <1>8 DEF MutexInv, Using, OnlyAt
<1>11. ThreadInv(t)'
  <2>1. CallInv(t, m)' /\ call'[t].mutex = m
    BY <1>1, <1>4, <1>6, <1>9 DEF CallInv, Inv, TypeOK
  <2> QED BY <2>1 DEF ThreadInv
<1> QED BY <1>5, <1>6, <1>7, <1>8, <1>10, <1>11, Local

\* A call that returns leaves its thread with nothing to say.
LEMMA Returned ==
  ASSUME TypeOK, NEW t \in Threads, Return(t)
  PROVE  /\ pc' \in [Threads -> {"game", "check", "alloc", "make", "remember", "enter",
                                 "wait", "release"}]
         /\ call' \in [Threads -> Calls \cup {Nothing}]
         /\ pc'[t] = "game" /\ ThreadInv(t)'
         /\ \A u \in Threads \ {t} : pc'[u] = pc[u] /\ call'[u] = call[u]
BY DEF Return, Goto, TypeOK, ThreadInv

LEMMA RememberInv ==
  ASSUME Inv, NEW t \in Threads, Remember(t), Room
  PROVE  Inv'
<1> PICK m \in Mutexes : m = call[t].mutex /\ CallInv(t, m) /\ Using(t, m)
  BY CallersMutex DEF Remember
<1>1. /\ pc[t] = "remember" /\ life[m] = "busy" /\ ~IsObjectInitialized(m) /\ Sound(m)
      /\ UNCHANGED <<word, real, used, asked, inside>> /\ RememberObject(m) /\ Initialized(t)
  BY DEF Remember, CallInv
<1>2. TableOK' /\ \A n \in Mutexes : IsObjectInitialized(n)' <=> n = m \/ IsObjectInitialized(n)
  BY <1>1, Remembered DEF Inv, TypeOK, TableOK
<1>3. TableUnique' /\ WordsApart'
  BY <1>1, <1>2 DEF Inv, TableOK, WordsApart
<1>4. Sound(m)'
  BY <1>1 DEF Sound
<1>5. /\ \A u \in Threads \ {t} : ~Using(u, m)
      /\ \A u \in Threads : inside[u][m] = 0
  BY <1>1, Alone
<1>6. CASE call[t].op = "init"
  <2>1. Return(t) /\ life' = [life EXCEPT ![m] = "live"]
    BY <1>1, <1>6 DEF Remember, Initialized, Settled
  <2>2. life'[m] = "live" /\ \A n \in Mutexes \ {m} : life'[n] = life[n]
    BY <2>1 DEF Inv, TypeOK
  <2>3. TypeOK' /\ ThreadInv(t)'
    BY <1>1, <1>2, <2>1, Returned DEF Inv, TypeOK, TableOK
  <2>4. OnlyAt(t, m)
    BY <1>1, <1>2, <2>1, <2>2, Returned DEF OnlyAt, Inv
  <2>5. MutexInv(m)'
    BY <1>2, <1>4, <2>2 DEF MutexInv
  <2> QED BY <1>3, <1>5, <2>3, <2>4, <2>5, Local
<1>7. CASE call[t].op # "init"
  <2>1. pc' = [pc EXCEPT ![t] = "enter"] /\ UNCHANGED <<call, life>>
    BY <1>1, <1>7 DEF Remember, Initialized, Goto
  <2>2. TypeOK' /\ call'[t].mutex = m /\ pc'[t] = "enter"
    BY <1>1, <1>2, <2>1 DEF Inv, TypeOK, TableOK
  <2>3. OnlyAt(t, m)
    BY <1>1, <1>2, <2>1, <2>2 DEF OnlyAt, Inv, TypeOK
  <2>4. MutexInv(m)'
    BY <1>1, <1>5, <2>1, <2>3 DEF MutexInv, Using, OnlyAt
  <2>5. CallInv(t, m)'
    BY <1>1, <1>2, <1>4, <2>1, <2>2 DEF CallInv
  <2> QED BY <1>3, <1>5, <2>2, <2>3, <2>4, <2>5, Local DEF ThreadInv
<1> QED BY <1>6, <1>7

LEMMA EnterInv ==
  ASSUME Inv, NEW t \in Threads, Enter(t)
  PROVE  Inv'
<1> PICK m \in Mutexes : m = call[t].mutex /\ CallInv(t, m) /\ Using(t, m)
  BY CallersMutex DEF Enter
<1>1. /\ pc[t] = "enter" /\ Sound(m) /\ IsObjectInitialized(m) /\ word[m] \in Handles
      /\ pc' = [pc EXCEPT ![t] = "wait"] /\ call' = [call EXCEPT ![t].handle = word[m]]
      /\ call[t] \in Calls /\ UNCHANGED <<word, table, real, used, life, asked, inside>>
  BY DEF Enter, CallInv, Goto, Sound, Inv, TypeOK
<1>2. call'[t] = [op |-> call[t].op, mutex |-> m, kind |-> call[t].kind, handle |-> word[m]]
      /\ \A u \in Threads \ {t} : call'[u] = call[u]
  BY <1>1 DEF Inv, TypeOK, Calls
<1>3. call'[t] \in Calls /\ pc'[t] = "wait"
  BY <1>1, <1>2 DEF Calls, Inv, TypeOK
<1>4. TypeOK'
  BY <1>1, <1>3 DEF Inv, TypeOK
<1>5. TableUnique' /\ WordsApart' /\ Sound(m)'
      /\ \A n \in Mutexes : IsObjectInitialized(n)' <=> IsObjectInitialized(n)
  BY <1>1 DEF Inv, TableUnique, WordsApart, IsObjectInitialized, Sound
<1>6. OnlyAt(t, m)
  BY <1>1, <1>2, <1>5 DEF OnlyAt, Inv, TypeOK
<1>7. Same(m)
  BY <1>1, <1>5 DEF Same
<1>8. MutexInv(m)'
  BY <1>1, <1>2, <1>6, <1>7, MutexFrame DEF Inv, OnlyAt, Using
<1>9. CallInv(t, m)'
  BY <1>1, <1>2, <1>3, <1>5 DEF CallInv
<1> QED BY <1>2, <1>4, <1>5, <1>6, <1>7, <1>8, <1>9, Local DEF ThreadInv

LEMMA AcquireInv ==
  ASSUME Inv, NEW t \in Threads, Acquire(t)
  PROVE  Inv'
<1> PICK m \in Mutexes : m = call[t].mutex /\ CallInv(t, m) /\ Using(t, m)
  BY CallersMutex DEF Acquire
<1> DEFINE h == word[m]
           locked == [kind |-> real[h].kind, owner |-> t, depth |-> real[h].depth + 1]
<1>1. /\ Sound(m) /\ IsObjectInitialized(m) /\ h \in Handles /\ h \in used /\ real[h] \in RealMutexes
      /\ real[h].owner \in {Nothing, t} /\ real[h].depth \in 0..(MaxDepth - 1)
      /\ real' = [real EXCEPT ![h] = locked]
      /\ inside' = [inside EXCEPT ![t][m] = @ + 1] /\ life' = [life EXCEPT ![m] = "live"]
      /\ Return(t) /\ UNCHANGED <<word, table, used, asked>>
  <2>1. call[t].handle = h /\ Sound(m) /\ IsObjectInitialized(m)
    BY DEF Acquire, CallInv
  <2>2. h \in Handles /\ h \in used /\ real[h] \in RealMutexes
        /\ (real[h].owner = Nothing <=> real[h].depth = 0)
    BY <2>1 DEF Sound, Inv, TypeOK
  <2>3. real[h].depth = 0 \/ (real[h].owner = t /\ real[h].depth < MaxDepth)
    BY <2>1 DEF Acquire
  <2>4. real[h].depth \in 0..MaxDepth
    BY <2>2 DEF RealMutexes
  <2>5. real[h].depth \in 0..(MaxDepth - 1) /\ real[h].owner \in {Nothing, t}
    BY <2>2, <2>3, <2>4, MutexAssumption
  <2> QED BY <2>1, <2>2, <2>5 DEF Acquire, Settled
<1>2. inside[t][m] = real[h].depth /\ real[h].kind = asked[m]
      /\ \A u \in Threads \ {t} : inside[u][m] = 0
  BY <1>1, MutexAssumption DEF Sound
<1>3. locked \in RealMutexes /\ locked # Nothing
  <2>1. /\ real[h].kind \in Kinds /\ real[h].depth + 1 \in 0..MaxDepth
        /\ t \in Threads \cup {Nothing}
    BY <1>1, MutexAssumption DEF RealMutexes
  <2>2. locked \in RealMutexes
    BY <2>1 DEF RealMutexes
  <2> QED BY <2>2, MutexAssumption
<1>4. h = word[m] /\ locked.kind = real[h].kind /\ locked.owner = t /\ locked.depth = real[h].depth + 1
  OBVIOUS
<1> HIDE DEF h, locked
<1>5. /\ real'[h] = locked /\ \A g \in Handles \ {h} : real'[g] = real[g]
      /\ \A u \in Threads, n \in Mutexes : u # t \/ n # m => inside'[u][n] = inside[u][n]
      /\ inside'[t][m] = inside[t][m] + 1
      /\ life'[m] = "live" /\ \A n \in Mutexes \ {m} : life'[n] = life[n]
  BY <1>1 DEF Inv, TypeOK
<1>6. TypeOK'
  <2>1. real' \in [Handles -> RealMutexes \cup {Nothing}]
    BY <1>1, <1>3 DEF Inv, TypeOK
  <2>2. inside' \in [Threads -> [Mutexes -> 0..MaxDepth]]
    BY <1>1, <1>2, MutexAssumption DEF Inv, TypeOK
  <2> QED BY <1>1, <2>1, <2>2, Returned DEF Inv, TypeOK
<1>7. TableUnique' /\ WordsApart' /\ \A n \in Mutexes : IsObjectInitialized(n)' <=> IsObjectInitialized(n)
  BY <1>1 DEF Inv, TableUnique, WordsApart, IsObjectInitialized
<1>8. \A n \in Mutexes \ {m} : word[n] \in used => word[n] \in Handles \ {h}
  BY <1>4 DEF Inv, WordsApart, TypeOK
<1>9. OnlyAt(t, m)
  BY <1>1, <1>5, <1>7, <1>8, Returned DEF OnlyAt, Inv
<1>10. Sound(m)'
  <2>1. word'[m] = h /\ h \in used' /\ real'[h] = locked /\ asked'[m] = asked[m]
    BY <1>1, <1>4, <1>5
  <2>2. real[h].depth \in Nat /\ t # Nothing
    BY <1>1, MutexAssumption
  <2>3. \A u \in Threads : inside'[u][m] = IF u = t THEN real[h].depth + 1 ELSE 0
    BY <1>2, <1>5, <2>2
  <2>4. \A u \in Threads : inside'[u][m] = IF locked.owner = u THEN locked.depth ELSE 0
    BY <1>4, <2>3
  <2> QED BY <1>2, <1>3, <1>4, <2>1, <2>2, <2>4 DEF Sound
<1>11. MutexInv(m)'
  BY <1>1, <1>5, <1>7, <1>10 DEF MutexInv
<1>12. Same(m) \/ \A u \in Threads \ {t} : ~Using(u, m)
  <2>1. CASE life[m] = "busy"
    BY <2>1, Alone
  <2>2. CASE life[m] = "live"
    BY <1>1, <1>5, <1>7, <1>10, <2>2 DEF Same
  <2> QED BY <2>1, <2>2, BusyOrLive
<1> QED BY <1>1, <1>6, <1>7, <1>9, <1>11, <1>12, Returned, Local DEF Inv

LEMMA RefuseInv ==
  ASSUME Inv, NEW t \in Threads, Refuse(t)
  PROVE  Inv'
<1> PICK m \in Mutexes : m = call[t].mutex /\ CallInv(t, m) /\ Using(t, m)
  BY CallersMutex DEF Refuse, At
<1>1. /\ Sound(m) /\ IsObjectInitialized(m) /\ Return(t) /\ life' = [life EXCEPT ![m] = "live"]
      /\ UNCHANGED <<word, table, real, used, asked, inside>>
  BY DEF Refuse, At, Settled, CallInv
<1>2. life'[m] = "live" /\ \A n \in Mutexes \ {m} : life'[n] = life[n]
  BY <1>1 DEF Inv, TypeOK
<1>3. TypeOK'
  BY <1>1, Returned DEF Inv, TypeOK
<1>4. TableUnique' /\ WordsApart' /\ Sound(m)'
      /\ \A n \in Mutexes : IsObjectInitialized(n)' <=> IsObjectInitialized(n)
  BY <1>1 DEF Inv, TableUnique, WordsApart, IsObjectInitialized, Sound
<1>5. OnlyAt(t, m)
  BY <1>1, <1>2, <1>4, Returned DEF OnlyAt, Inv
<1>6. MutexInv(m)'
  BY <1>1, <1>2, <1>4 DEF MutexInv
<1>7. Same(m) \/ \A u \in Threads \ {t} : ~Using(u, m)
  <2>1. CASE life[m] = "busy"
    BY <2>1, Alone
  <2>2. CASE life[m] = "live"
    BY <1>1, <1>2, <1>4, <2>2 DEF Same
  <2> QED BY <2>1, <2>2, BusyOrLive
<1> QED BY <1>1, <1>3, <1>4, <1>5, <1>6, <1>7, Returned, Local DEF Inv

LEMMA ReleaseInv ==
  ASSUME Inv, NEW t \in Threads, Release(t)
  PROVE  Inv'
<1> PICK m \in Mutexes : m = call[t].mutex /\ CallInv(t, m) /\ Using(t, m)
  BY CallersMutex DEF Release
<1> DEFINE h == word[m]
<1>1. /\ h \in Handles /\ Return(t) /\ life[m] = "busy" /\ ~IsObjectInitialized(m)
      /\ word' = [word EXCEPT ![m] = "normal"] /\ life' = [life EXCEPT ![m] = "raw"]
      /\ real' = [real EXCEPT ![h] = Nothing] /\ used' = used \ {h}
      /\ UNCHANGED <<table, asked, inside>>
  <2>1. Sound(m) /\ life[m] = "busy" /\ ~IsObjectInitialized(m)
    BY DEF Release, CallInv
  <2>2. h \in Handles
    BY <2>1 DEF Sound, Inv, TypeOK
  <2> QED BY <2>1, <2>2 DEF Release
<1>2. h = word[m] /\ \A n \in Mutexes \ {m} : word[n] # h
  BY <1>1 DEF Inv, WordsApart
<1> HIDE DEF h
<1>3. /\ word'[m] = "normal" /\ life'[m] = "raw"
      /\ \A n \in Mutexes \ {m} : word'[n] = word[n] /\ life'[n] = life[n]
      /\ \A g \in Handles \ {h} : real'[g] = real[g]
  BY <1>1 DEF Inv, TypeOK
<1>4. TypeOK'
  BY <1>1, Returned DEF Inv, TypeOK, Kinds
<1>5. TableUnique' /\ \A n \in Mutexes : IsObjectInitialized(n)' <=> IsObjectInitialized(n)
  BY <1>1 DEF Inv, TableUnique, IsObjectInitialized
<1>6. WordsApart'
  BY <1>1, <1>2, <1>3, MutexAssumption DEF Inv, WordsApart, Kinds
<1>7. OnlyAt(t, m)
  <2>1. \A n \in Mutexes \ {m} : word[n] \in used => word[n] \in used' /\ real'[word[n]] = real[word[n]]
    BY <1>1, <1>2, <1>3 DEF Inv, TypeOK
  <2> QED BY <1>1, <1>3, <1>5, <2>1, Returned DEF OnlyAt, Inv
<1>8. /\ \A u \in Threads \ {t} : ~Using(u, m)
      /\ \A u \in Threads : inside[u][m] = 0
  BY <1>1, Alone
<1>9. MutexInv(m)'
  <2>1. \A u \in Threads : ~Using(u, m)'
    BY <1>1, <1>7, <1>8, Returned DEF Inv, Using, OnlyAt
  <2> QED BY <1>1, <1>3, <1>5, <1>8, <2>1 DEF MutexInv, Kinds
<1> QED BY <1>1, <1>4, <1>5, <1>6, <1>7, <1>8, <1>9, Returned, Local DEF Inv

LEMMA StutterInv == Inv /\ UNCHANGED vars => Inv'
<1> SUFFICES ASSUME Inv, UNCHANGED vars PROVE Inv'
  OBVIOUS
<1>1. TypeOK' /\ TableUnique' /\ WordsApart'
  BY DEF vars, Inv, TypeOK, TableUnique, WordsApart
<1>2. \A m \in Mutexes : Same(m)
  BY DEF vars, Same, IsObjectInitialized, Sound
<1>3. \A m \in Mutexes : MutexInv(m)'
  BY <1>2, MutexFrame DEF vars, Inv, Using
<1>4. \A t \in Threads : ThreadInv(t)'
  <2> SUFFICES ASSUME NEW t \in Threads PROVE ThreadInv(t)'
    OBVIOUS
  <2>1. pc[t] # "game" => Same(call[t].mutex)
    BY <1>2, CallersMutex
  <2> QED BY <2>1, ThreadFrame DEF vars, Inv
<1> QED BY <1>1, <1>3, <1>4 DEF Inv

LEMMA StepInv == FirstUseAlone /\ Room /\ Inv /\ [Next]_vars => Inv'
BY CallInitInv, CallLockInv, CallDestroyInv, UnlockInv, CheckInv, AllocInv, MakeInv,
   RememberInv, EnterInv, AcquireInv, RefuseInv, ReleaseInv, StutterInv DEF Next

-----------------------------------------------------------------------------
(* The theorems.  They hold of a game whose first call on a static mutex    *)
(* returns before another thread uses it, on a table with a slot for every  *)
(* mutex.                                                                   *)

LEMMA Invariance ==
  ASSUME FirstUseAlone, Room
  PROVE  Spec => []Inv
<1>1. Init => Inv
  BY InitInv
<1>2. Inv /\ [Next]_vars => Inv'
  BY StepInv
<1> QED BY <1>1, <1>2, PTL DEF Spec

\* The types of the shim's state.
THEOREM TypeCorrect ==
  ASSUME FirstUseAlone, Room
  PROVE  Spec => []TypeOK
<1>1. Inv => TypeOK
  BY DEF Inv
<1> QED BY <1>1, Invariance, PTL

\* Two threads are never inside one mutex together.
THEOREM Excludes ==
  ASSUME FirstUseAlone, Room
  PROVE  Spec => []MutualExclusion
<1>1. Inv => MutualExclusion
  <2> SUFFICES ASSUME Inv, NEW m \in Mutexes, NEW t \in Threads, NEW u \in Threads,
                      inside[t][m] > 0, inside[u][m] > 0
               PROVE  t = u
    BY DEF MutualExclusion
  <2>1. Sound(m)
    BY DEF Inv, MutexInv, TypeOK
  <2> QED BY <2>1 DEF Sound
<1> QED BY <1>1, Invariance, PTL

\* The lock a thread holds is the one every later call on the mutex reaches.
THEOREM KeepsLock ==
  ASSUME FirstUseAlone, Room
  PROVE  Spec => []SameLock
<1>1. Inv => SameLock
  <2> SUFFICES ASSUME Inv, NEW m \in Mutexes, NEW t \in Threads, inside[t][m] > 0
               PROVE  /\ word[m] \in used /\ real[word[m]] # Nothing
                      /\ real[word[m]].owner = t /\ real[word[m]].depth = inside[t][m]
                      /\ real[word[m]].kind = asked[m]
                      /\ \A n \in Mutexes \ {m} : word[n] # word[m]
    BY DEF SameLock
  <2>1. Sound(m)
    BY DEF Inv, MutexInv, TypeOK
  <2>2. word[m] \in Handles
    BY <2>1 DEF Sound, Inv, TypeOK
  <2> QED BY <2>1, <2>2 DEF Sound, Inv, WordsApart
<1> QED BY <1>1, Invariance, PTL
=============================================================================
