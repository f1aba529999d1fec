------------------------------- MODULE Barrier -------------------------------
(***************************************************************************)
(* BVS::Barrier (lib/src/barrier.cc): one mutex, one condition variable    *)
(* and two counters.  A party attaches once and then waits with            *)
(*     enqueue(lock, predicate)                                            *)
(* until its own predicate holds.  The predicate is evaluated with the     *)
(* mutex held, but nothing else is protected by it: notify() and whoever   *)
(* changes the variables a predicate reads do not take the mutex.          *)
(*                                                                         *)
(* at[t] is where thread t is with respect to the barrier:                 *)
(*   "out"    not inside enqueue                                           *)
(*   "block"  inside cv.wait, mutex held, its predicate was just false     *)
(*   "sleep"  asleep on the condition variable, mutex released             *)
(*   "wake"   awake and contending for the mutex to test its predicate     *)
(* The mutex is held across steps only between a false predicate and the   *)
(* sleep that follows it.                                                  *)
(***************************************************************************)
EXTENDS Integers, FiniteSets

CONSTANT Party  \* the threads that may use the barrier

VARIABLES
    parties,    \* std::atomic<int> parties
    queued,     \* std::atomic<int> queued
    at          \* [Party -> WaitState]

WaitState == {"out", "block", "sleep", "wake"}

BarrierInit == /\ parties = 0
               /\ queued = 0
               /\ at = [t \in Party |-> "out"]

------------------------------------------------------------------------------
MutexFree == \A t \in Party : at[t] # "block"

(* cv.notify_all(): the threads asleep at this moment wake, no other does. *)
Notified == [t \in Party |-> IF at[t] = "sleep" THEN "wake" ELSE at[t]]

AttachParty == parties' = parties + 1

(* Fault: a party that leaves is still counted. *)
DetachIgnored == UNCHANGED parties

DetachParty == parties' = parties - 1

(* notify() does not lock: a party between its test and its sleep misses it. *)
NotifyAll == /\ at' = Notified
             /\ UNCHANGED <<parties, queued>>

(* Fault: the last party to arrive wakes nobody. *)
ArriveSilent(t, pred) ==
    /\ at[t] = "out"
    /\ MutexFree
    /\ at' = [at EXCEPT ![t] = IF pred THEN "out" ELSE "block"]
    /\ queued' = IF pred THEN queued ELSE queued + 1
    /\ UNCHANGED parties

(* enqueue up to the first test of the predicate.  The test either ends the  *)
(* wait (queued is decremented again, the mutex released) or leads to Block. *)
Arrive(t, pred) ==
    /\ at[t] = "out"
    /\ MutexFree
    /\ at' = [(IF queued + 1 = parties THEN Notified ELSE at)
                 EXCEPT ![t] = IF pred THEN "out" ELSE "block"]
    /\ queued' = IF pred THEN queued ELSE queued + 1
    /\ UNCHANGED parties

(* cv.wait releases the mutex and falls asleep in one step. *)
Block(t) ==
    /\ at[t] = "block"
    /\ at' = [at EXCEPT ![t] = "sleep"]
    /\ UNCHANGED <<parties, queued>>

(* Fault: a party that has slept leaves without lowering the counter. *)
RecheckUncounted(t, pred) ==
    /\ at[t] = "wake"
    /\ MutexFree
    /\ at' = [at EXCEPT ![t] = IF pred THEN "out" ELSE "block"]
    /\ UNCHANGED <<parties, queued>>

(* A woken party takes the mutex and tests its predicate again. *)
Recheck(t, pred) ==
    /\ at[t] = "wake"
    /\ MutexFree
    /\ at' = [at EXCEPT ![t] = IF pred THEN "out" ELSE "block"]
    /\ queued' = IF pred THEN queued - 1 ELSE queued
    /\ UNCHANGED parties

(* A condition variable may wake a thread nobody notified. *)
SpuriousWakeup(t) ==
    /\ at[t] = "sleep"
    /\ at' = [at EXCEPT ![t] = "wake"]
    /\ UNCHANGED <<parties, queued>>

------------------------------------------------------------------------------
Inside == {t \in Party : at[t] # "out"}

(* At most one party holds the mutex. *)
MutexExclusive == \A t, u \in Party : at[t] = "block" /\ at[u] = "block" => t = u

(* The counter the last party is recognised by is the number of parties that *)
(* are inside enqueue(): a lost update would let a round start with nobody   *)
(* woken, or wake everybody for ever.                                        *)
QueuedExact == queued = Cardinality(Inside)
==============================================================================
