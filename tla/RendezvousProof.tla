--------------------------- MODULE RendezvousProof ---------------------------
(***************************************************************************)
(* The one-argument barrier, for any finite set of parties that come and   *)
(* go.  The two counters the predicate compares are the sizes of two sets, *)
(* the parties inside and the attached ones, and the first is contained in *)
(* the second: when the counters agree, so do the sets.                    *)
(***************************************************************************)
EXTENDS Rendezvous, BarrierProof

Counters ==
    /\ attached \subseteq Party
    /\ parties = Cardinality(attached)
    /\ arrived \in [Party -> 0 .. MaxMeetings]
    /\ crossed \in [Party -> 0 .. MaxMeetings]

(* Only attached parties meet, and a meeting is counted when it ends.      *)
Meetings ==
    /\ Inside \subseteq attached
    /\ \A t \in Party : /\ crossed[t] <= arrived[t]
                        /\ at[t] # "out" => crossed[t] < arrived[t]

RendezvousInv == BarrierInv /\ Counters /\ Meetings

USE RendezvousAssumption

------------------------------------------------------------------------------
LEMMA FiniteSets == Counters => /\ IsFiniteSet(attached) /\ Cardinality(attached) \in Nat
                                /\ parties \in Nat
  BY FS_Subset, FS_CardinalityType DEF Counters

LEMMA RendezvousStart == Init => RendezvousInv
<1> SUFFICES ASSUME Init PROVE RendezvousInv
  OBVIOUS
<1>1. BarrierInv /\ Inside = {}
  BY StartsEmpty, FS_EmptySet DEF Init, BarrierInit, BarrierInv, BarrierShape, QueuedExact
<1>2. Counters
  BY FS_EmptySet DEF Init, BarrierInit, Counters
<1>3. Meetings
  BY <1>1 DEF Init, BarrierInit, Meetings
<1> QED
  BY <1>1, <1>2, <1>3 DEF RendezvousInv

(* A party that goes on inside the barrier, or leaves it.                  *)
LEMMA Continues ==
    ASSUME RendezvousInv, NEW t \in Party, BarrierInv', UNCHANGED <<parties, attached>>,
           t \in attached,
           \A u \in Party \ {t} : at'[u] = "out" <=> at[u] = "out",
           arrived' \in [Party -> 0 .. MaxMeetings],
           \A u \in Party \ {t} : arrived'[u] = arrived[u],
           crossed[t] < arrived'[t], Count(t)
    PROVE  RendezvousInv'
<1> USE DEF RendezvousInv, Counters, Meetings
<1>1. Inside' \subseteq Inside \union {t}
  BY DEF Inside
<1>2. CASE at'[t] = "out"
  <2>1. crossed' = [crossed EXCEPT ![t] = @ + 1]
    BY <1>2 DEF Count
  <2>2. crossed[t] + 1 \in 0 .. MaxMeetings /\ crossed[t] + 1 <= arrived'[t]
    OBVIOUS
  <2>3. /\ crossed' \in [Party -> 0 .. MaxMeetings] /\ crossed'[t] <= arrived'[t]
        /\ \A u \in Party \ {t} : crossed'[u] = crossed[u]
    BY <2>1, <2>2
  <2> QED
    BY <1>1, <1>2, <2>3
<1>3. CASE at'[t] # "out"
  <2>1. crossed' = crossed
    BY <1>3 DEF Count
  <2> QED
    BY <1>1, <1>3, <2>1
<1> QED
  BY <1>2, <1>3

LEMMA RendezvousSteps == RendezvousInv /\ [Next]_vars => RendezvousInv'
<1> SUFFICES ASSUME RendezvousInv, [Next]_vars PROVE RendezvousInv'
  OBVIOUS
<1>1. BarrierInv /\ Counters /\ Meetings
  BY DEF RendezvousInv
<1>2. ASSUME NEW t \in Party, Attach(t) PROVE RendezvousInv'
  <2>1. BarrierInv'
    BY <1>1, <1>2, StepKeeps DEF Attach, BarrierStep
  <2>2. /\ t \notin attached /\ attached' = attached \union {t} /\ parties' = parties + 1
        /\ UNCHANGED <<at, arrived, crossed>>
    BY <1>2 DEF Attach, AttachParty
  <2>3. Counters'
    BY <1>1, <2>2, FiniteSets, FS_AddElement DEF Counters
  <2>4. Meetings'
    BY <1>1, <2>2 DEF Meetings, Inside
  <2> QED
    BY <2>1, <2>3, <2>4 DEF RendezvousInv
<1>3. ASSUME NEW t \in Party, Detach(t) PROVE RendezvousInv'
  <2>1. BarrierInv'
    BY <1>1, <1>3, StepKeeps DEF Detach, BarrierStep
  <2>2. /\ t \in attached /\ at[t] = "out" /\ attached' = attached \ {t} /\ parties' = parties - 1
        /\ UNCHANGED <<at, arrived, crossed>>
    BY <1>3 DEF Detach, DetachParty
  <2>3. Counters'
    BY <1>1, <2>2, FiniteSets, FS_RemoveElement DEF Counters
  <2>4. Meetings'
    BY <1>1, <2>2 DEF Meetings, Inside
  <2> QED
    BY <2>1, <2>3, <2>4 DEF RendezvousInv
<1>4. ASSUME NEW t \in Party, Meet(t) PROVE RendezvousInv'
  <2> DEFINE pred == queued + 1 = parties
  <2>1. pred \in BOOLEAN /\ Arrive(t, pred)
    BY <1>4 DEF Meet
  <2>2. BarrierInv'
    <3>1. Moves(t)
      BY <2>1 DEF Moves
    <3> QED
      BY <1>1, <3>1, StepKeeps DEF BarrierStep
  <2>3. \A u \in Party \ {t} : at'[u] = "out" <=> at[u] = "out"
    BY <1>1, <2>1, NotifiedKeeps DEF Arrive, BarrierInv, BarrierShape
  <2>4. /\ t \in attached /\ arrived[t] < MaxMeetings /\ arrived' = [arrived EXCEPT ![t] = @ + 1]
        /\ Count(t) /\ attached' = attached /\ parties' = parties
    BY <1>4 DEF Meet, Arrive
  <2>5. /\ arrived' \in [Party -> 0 .. MaxMeetings] /\ crossed[t] < arrived'[t]
        /\ \A u \in Party \ {t} : arrived'[u] = arrived[u]
    BY <1>1, <2>4 DEF Counters, Meetings
  <2> QED
    BY <2>2, <2>3, <2>4, <2>5, Continues
<1>5. ASSUME NEW t \in Party, NEW pred \in BOOLEAN, Recheck(t, pred), Count(t),
             UNCHANGED <<attached, arrived>>
      PROVE  RendezvousInv'
  <2>1. BarrierInv'
    BY <1>1, <1>5, StepKeeps DEF BarrierStep, Moves
  <2>2. at[t] = "wake" /\ parties' = parties /\ \A u \in Party \ {t} : at'[u] = at[u]
    BY <1>1, <1>5 DEF Recheck, BarrierInv, BarrierShape
  <2>3. t \in attached /\ crossed[t] < arrived'[t] /\ arrived' \in [Party -> 0 .. MaxMeetings]
    BY <1>1, <1>5, <2>2 DEF Meetings, Inside, Counters
  <2> QED
    BY <1>5, <2>1, <2>2, <2>3, Continues
<1>6. ASSUME NEW t \in Party, MeetAgain(t) PROVE RendezvousInv'
  BY <1>5, <1>6 DEF MeetAgain
<1>7. ASSUME UNCHANGED <<parties, attached, arrived, crossed>>, BarrierInv',
             \A t \in Party : at'[t] = "out" <=> at[t] = "out"
      PROVE  RendezvousInv'
  <2>1. Inside' = Inside
    BY <1>7 DEF Inside
  <2> QED
    BY <1>1, <1>7, <2>1 DEF RendezvousInv, Counters, Meetings
<1>8. ASSUME NEW t \in Party, Sleep(t) PROVE RendezvousInv'
  <2>1. Block(t) /\ UNCHANGED <<attached, arrived, crossed>>
    BY <1>8 DEF Sleep
  <2>2. BarrierInv'
    BY <1>1, <2>1, StepKeeps DEF BarrierStep, Moves
  <2>3. parties' = parties /\ \A u \in Party : at'[u] = "out" <=> at[u] = "out"
    BY <1>1, <2>1 DEF Block, BarrierInv, BarrierShape
  <2> QED
    BY <1>7, <2>1, <2>2, <2>3
<1>9. ASSUME NEW t \in Party, Spurious(t) PROVE RendezvousInv'
  <2>1. SpuriousWakeup(t) /\ UNCHANGED <<attached, arrived, crossed>>
    BY <1>9 DEF Spurious
  <2>2. BarrierInv'
    BY <1>1, <2>1, StepKeeps DEF BarrierStep, Moves
  <2>3. parties' = parties /\ \A u \in Party : at'[u] = "out" <=> at[u] = "out"
    BY <1>1, <2>1 DEF SpuriousWakeup, BarrierInv, BarrierShape
  <2> QED
    BY <1>7, <2>1, <2>2, <2>3
<1>10. ASSUME vars' = vars PROVE RendezvousInv'
  <2>1. BarrierInv'
    BY <1>1, <1>10, StepKeeps DEF BarrierStep, vars
  <2> QED
    BY <1>7, <1>10, <2>1 DEF vars
<1> QED
  BY <1>2, <1>3, <1>4, <1>6, <1>8, <1>9, <1>10 DEF Next, Step

LEMMA RendezvousInvariant == Spec => []RendezvousInv
  BY RendezvousStart, RendezvousSteps, PTL DEF Spec

------------------------------------------------------------------------------
(* The counters agree with who has attached and who waits (barrier.cc:16-30, *)
(* 46-49).                                                                   *)
THEOREM CountersAgree == Spec => []TypeOK
<1>1. RendezvousInv => TypeOK
  <2> SUFFICES ASSUME RendezvousInv PROVE TypeOK
    OBVIOUS
  <2>1. Cardinality(Inside) \in Nat /\ Cardinality(Inside) <= Cardinality(attached)
    BY FiniteSets, FS_Subset, FS_CardinalityType DEF RendezvousInv, Meetings
  <2> QED
    BY <2>1, FiniteSets DEF RendezvousInv, BarrierInv, BarrierShape, QueuedExact, Counters, TypeOK
<1> QED
  BY <1>1, RendezvousInvariant, PTL

(* The number of the parties inside enqueue() is never off (barrier.cc:46,   *)
(* 49), whichever threads arrive and leave.                                  *)
THEOREM CountExact == Spec => []QueuedExact
  BY RendezvousInvariant, PTL DEF RendezvousInv, BarrierInv, BarrierShape

(* enqueue(lock) returns only while all attached parties are in it           *)
(* (barrier.h:14-22).                                                        *)
THEOREM AllMeet == Spec => LeavesOnlyWhenFull
<1> DEFINE Full(t) == crossed'[t] > crossed[t] => attached \subseteq Inside \union {t}
<1>1. RendezvousInv /\ [Next]_vars => [\A t \in Party : Full(t)]_vars
  <2> SUFFICES ASSUME RendezvousInv, Next, NEW u \in Party PROVE Full(u)
    OBVIOUS
  <2>1. crossed \in [Party -> 0 .. MaxMeetings]
    BY DEF RendezvousInv, Counters
  <2>2. CASE crossed' = crossed
    BY <2>1, <2>2
  <2>3. ASSUME NEW t \in Party, Count(t), at'[t] = "out" => attached \subseteq Inside \union {t}
        PROVE  Full(u)
    <3>1. CASE at'[t] = "out"
      BY <2>1, <2>3, <3>1 DEF Count
    <3>2. CASE at'[t] # "out"
      BY <2>2, <2>3, <3>2 DEF Count
    <3> QED
      BY <3>1, <3>2
  <2>4. /\ IsFiniteSet(attached) /\ Inside \subseteq attached
        /\ queued = Cardinality(Inside) /\ parties = Cardinality(attached)
    BY FiniteSets DEF RendezvousInv, Counters, Meetings, BarrierInv, BarrierShape, QueuedExact
  <2>5. ASSUME NEW t \in Party, Meet(t) PROVE Full(u)
    <3>1. /\ t \in attached /\ at[t] = "out" /\ Count(t)
          /\ at'[t] = "out" => queued + 1 = parties
      <4>1. /\ t \in attached /\ Count(t) /\ Arrive(t, queued + 1 = parties)
        BY <2>5 DEF Meet
      <4>2. at \in [Party -> WaitState] /\ Notified \in [Party -> WaitState]
        BY NotifiedKeeps DEF RendezvousInv, BarrierInv, BarrierShape
      <4> QED
        BY <4>1, <4>2 DEF Arrive
    <3>2. ASSUME queued + 1 = parties PROVE attached \subseteq Inside \union {t}
      <4>1. Cardinality(Inside \union {t}) = Cardinality(attached)
        BY <2>4, <3>1, <3>2, CountInside
      <4>2. Inside \union {t} \in SUBSET attached
        BY <2>4, <3>1
      <4> QED
        BY <2>4, <4>1, <4>2, FS_Subset
    <3> QED
      BY <2>3, <3>1, <3>2
  <2>6. ASSUME NEW t \in Party, MeetAgain(t) PROVE Full(u)
    <3>1. Count(t) /\ (at'[t] = "out" => queued = parties)
      BY <2>6 DEF MeetAgain, Recheck, RendezvousInv, BarrierInv, BarrierShape
    <3>2. ASSUME queued = parties PROVE attached \subseteq Inside \union {t}
      BY <2>4, <3>2, FS_Subset
    <3> QED
      BY <2>3, <3>1, <3>2
  <2>7. ASSUME NEW t \in Party, Attach(t) \/ Detach(t) \/ Sleep(t) \/ Spurious(t) PROVE Full(u)
    BY <2>2, <2>7 DEF Attach, Detach, Sleep, Spurious
  <2> QED
    BY <2>5, <2>6, <2>7 DEF Next, Step
<1> QED
  BY <1>1, RendezvousInvariant, PTL DEF Spec, LeavesOnlyWhenFull
==============================================================================
