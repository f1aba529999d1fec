----------------------------- MODULE BarrierProof -----------------------------
(***************************************************************************)
(* What the steps of the barrier keep, whoever takes them and whatever the *)
(* predicates are: its two users, Rendezvous and Control, cite this.       *)
(***************************************************************************)
EXTENDS Barrier, FiniteSetTheorems, TLAPS

(* The steps of a party, and what else moves parties: a notification.      *)
Moves(t) == (\E pred \in BOOLEAN : Arrive(t, pred) \/ Recheck(t, pred)) \/ Block(t) \/ SpuriousWakeup(t)

BarrierStep == NotifyAll \/ (\E t \in Party : Moves(t)) \/ UNCHANGED <<at, queued>>

BarrierShape == at \in [Party -> WaitState] /\ MutexExclusive

BarrierInv == BarrierShape /\ QueuedExact

(* The counter and the set of the parties inside move together.            *)
Together ==
    \/ Inside' = Inside /\ queued' = queued
    \/ \E t \in Party : t \notin Inside /\ Inside' = Inside \union {t} /\ queued' = queued + 1
    \/ \E t \in Party : t \in Inside /\ Inside' = Inside \ {t} /\ queued' = queued - 1

(* A notification moves nobody in or out, and nobody takes the mutex.      *)
LEMMA NotifiedKeeps ==
    ASSUME at \in [Party -> WaitState]
    PROVE  /\ Notified \in [Party -> WaitState]
           /\ \A t \in Party : /\ Notified[t] = "out" <=> at[t] = "out"
                               /\ Notified[t] = "block" <=> at[t] = "block"
  BY DEF Notified, WaitState

(* What a step of one party does to the mutex and to who is inside.        *)
LEMMA OneMoves ==
    ASSUME BarrierShape, NEW t \in Party, NEW w \in WaitState,
           NEW before \in [Party -> WaitState], at' = [before EXCEPT ![t] = w],
           \A u \in Party : /\ before[u] = "out" <=> at[u] = "out"
                            /\ before[u] = "block" <=> at[u] = "block"
    PROVE  /\ (w = "block" => MutexFree) => BarrierShape'
           /\ Inside' = IF w = "out" THEN Inside \ {t} ELSE Inside \union {t}
<1>1. at' \in [Party -> WaitState] /\ at'[t] = w
      /\ \A u \in Party : u # t => at'[u] = before[u]
  BY DEF BarrierShape
<1>2. Inside' = IF w = "out" THEN Inside \ {t} ELSE Inside \union {t}
  BY <1>1 DEF Inside
<1>3. (w = "block" => MutexFree) => MutexExclusive'
  BY <1>1 DEF BarrierShape, MutexExclusive, MutexFree
<1> QED
  BY <1>1, <1>2, <1>3 DEF BarrierShape

LEMMA MoveTogether ==
    ASSUME BarrierShape, NEW t \in Party, Moves(t)
    PROVE  BarrierShape' /\ Together
<1> USE DEF BarrierShape
<1>1. ASSUME NEW pred \in BOOLEAN, Arrive(t, pred) PROVE BarrierShape' /\ Together
  <2> DEFINE before == IF queued + 1 = parties THEN Notified ELSE at
             w == IF pred THEN "out" ELSE "block"
  <2>1. before \in [Party -> WaitState]
        /\ \A u \in Party : /\ before[u] = "out" <=> at[u] = "out"
                            /\ before[u] = "block" <=> at[u] = "block"
    BY NotifiedKeeps
  <2>2. /\ at[t] = "out" /\ MutexFree /\ at' = [before EXCEPT ![t] = w]
        /\ queued' = IF pred THEN queued ELSE queued + 1
    BY <1>1 DEF Arrive
  <2>3. w \in WaitState /\ (w = "out" <=> pred = TRUE) /\ t \notin Inside
    BY <2>2 DEF WaitState, Inside
  <2> HIDE DEF before, w
  <2>4. /\ BarrierShape'
        /\ Inside' = IF w = "out" THEN Inside \ {t} ELSE Inside \union {t}
    BY <2>1, <2>2, <2>3, OneMoves
  <2>5. Together
    <3>1. CASE pred = TRUE
      BY <2>2, <2>3, <2>4, <3>1 DEF Together
    <3>2. CASE pred = FALSE
      BY <2>2, <2>3, <2>4, <3>2 DEF Together
    <3> QED
      BY <3>1, <3>2
  <2> QED
    BY <2>4, <2>5
<1>2. ASSUME NEW pred \in BOOLEAN, Recheck(t, pred) PROVE BarrierShape' /\ Together
  <2> DEFINE w == IF pred THEN "out" ELSE "block"
  <2>1. /\ at[t] = "wake" /\ MutexFree /\ at' = [at EXCEPT ![t] = w]
        /\ queued' = IF pred THEN queued - 1 ELSE queued
    BY <1>2 DEF Recheck
  <2>2. w \in WaitState /\ (w = "out" <=> pred = TRUE) /\ t \in Inside
    BY <2>1 DEF WaitState, Inside
  <2> HIDE DEF w
  <2>3. /\ BarrierShape'
        /\ Inside' = IF w = "out" THEN Inside \ {t} ELSE Inside \union {t}
    BY <2>1, <2>2, OneMoves
  <2>4. Together
    <3>1. CASE pred = TRUE
      BY <2>1, <2>2, <2>3, <3>1 DEF Together
    <3>2. CASE pred = FALSE
      BY <2>1, <2>2, <2>3, <3>2 DEF Together
    <3> QED
      BY <3>1, <3>2
  <2> QED
    BY <2>3, <2>4
<1>3. ASSUME NEW w \in {"sleep", "wake"}, at[t] # "out",
             at' = [at EXCEPT ![t] = w], queued' = queued
      PROVE  BarrierShape' /\ Together
  <2>1. w \in WaitState
    BY DEF WaitState
  <2>2. BarrierShape' /\ Inside' = Inside \union {t}
    BY <1>3, <2>1, OneMoves
  <2>3. Inside' = Inside
    BY <1>3, <2>2 DEF Inside
  <2> QED
    BY <1>3, <2>2, <2>3 DEF Together
<1>4. ASSUME Block(t) PROVE BarrierShape' /\ Together
  BY <1>3, <1>4 DEF Block
<1>5. ASSUME SpuriousWakeup(t) PROVE BarrierShape' /\ Together
  BY <1>3, <1>5 DEF SpuriousWakeup
<1> QED
  BY <1>1, <1>2, <1>4, <1>5 DEF Moves

(* One mutex holder after every step, and a counter that moves with those  *)
(* it counts (barrier.cc:37-60).                                           *)
LEMMA StepTogether ==
    ASSUME BarrierShape, BarrierStep
    PROVE  BarrierShape' /\ Together
<1>1. ASSUME NotifyAll PROVE BarrierShape' /\ Together
  <2>1. at' = Notified /\ queued' = queued
    BY <1>1 DEF NotifyAll
  <2>2. /\ at' \in [Party -> WaitState]
        /\ \A t \in Party : /\ at'[t] = "out" <=> at[t] = "out"
                            /\ at'[t] = "block" <=> at[t] = "block"
    BY <2>1, NotifiedKeeps DEF BarrierShape
  <2>3. Inside' = Inside
    BY <2>2 DEF Inside
  <2>4. MutexExclusive'
    BY <2>2 DEF BarrierShape, MutexExclusive
  <2> QED
    BY <2>1, <2>2, <2>3, <2>4 DEF BarrierShape, Together
<1>2. ASSUME UNCHANGED <<at, queued>> PROVE BarrierShape' /\ Together
  BY <1>2 DEF BarrierShape, MutexExclusive, Together, Inside
<1> QED
  BY <1>1, <1>2, MoveTogether DEF BarrierStep

(* The counter is the number of those inside as long as it moves with them.*)
LEMMA StepKeeps ==
    ASSUME IsFiniteSet(Party), BarrierInv, BarrierStep
    PROVE  BarrierInv'
<1>1. BarrierShape' /\ Together
  BY StepTogether DEF BarrierInv
<1>2. IsFiniteSet(Inside) /\ Cardinality(Inside) \in Nat /\ queued = Cardinality(Inside)
  BY FS_Subset, FS_CardinalityType DEF BarrierInv, QueuedExact, Inside
<1>3. queued' = Cardinality(Inside')
  BY <1>1, <1>2, FS_AddElement, FS_RemoveElement DEF Together
<1> QED
  BY <1>1, <1>3 DEF BarrierInv, QueuedExact

(* Nobody is inside an empty barrier.                                      *)
LEMMA StartsEmpty ==
    ASSUME at = [t \in Party |-> "out"]
    PROVE  BarrierShape /\ Inside = {}
  BY DEF BarrierShape, MutexExclusive, WaitState, Inside

(* One party more or less.                                                 *)
LEMMA CountInside ==
    ASSUME IsFiniteSet(Party), NEW t \in Party, at[t] = "out"
    PROVE  /\ Cardinality(Inside) \in Nat
           /\ Cardinality(Inside \union {t}) = Cardinality(Inside) + 1
<1>1. IsFiniteSet(Inside) /\ t \notin Inside
  BY FS_Subset DEF Inside
<1> QED
  BY <1>1, FS_AddElement, FS_CardinalityType
==============================================================================
