-------------------------------- MODULE System --------------------------------
(***************************************************************************)
(* Loader and connectors in the rounds that Control gives them.            *)
(*                                                                         *)
(* The rounds are those of Rounds, which Control implements, without their *)
(* number: pending is the set of modules that still have to execute in the *)
(* round, and the next round begins when there are none.  The client loads *)
(* and connects before the first round, or in a pause once the round is    *)
(* over; the master unloads a module that is DONE before it begins a       *)
(* round.  Only a hot swap may meet a round.                               *)
(* The rounds end where the master leaves its loop: from then on nobody    *)
(* waits for pools any more.                                               *)
(***************************************************************************)
EXTENDS Loader

VARIABLE pending

systemVars == <<vars, pending>>

SystemInit == Init /\ pending = {}

(* The flags of all modules are raised and the pools notified (94-102).      *)
StartRound == /\ unloading = NoModule /\ pending = {}
              /\ pending' = loaded
              /\ UNCHANGED vars

(* A statement of execute().                                                 *)
Statement(m) == m \in pending /\ ModuleStep(m) /\ UNCHANGED pending

(* execute() returns, into its library; a module has by then unlocked the    *)
(* connections it has locked (241-249).                                      *)
Finish(m) == /\ m \in pending /\ ~Busy(m) /\ handles[LibraryOf[m]] # 0
             /\ pending' = pending \ {m}
             /\ UNCHANGED vars

(* The client's calls before run() or after pause(), checkModuleStatus.      *)
BetweenRounds == pending = {} /\ LoaderStep /\ UNCHANGED pending

(* BVS::hotSwap pauses and waits for the module's own pool, but a round may  *)
(* begin or be under way all the same (bvs.cc:305-309, SwapExclusive in      *)
(* Control).                                                                 *)
Swap == SwapStep /\ UNCHANGED pending

SystemNext ==
    /\ ended = "no"
    /\ \/ StartRound
       \/ BetweenRounds
       \/ Swap
       \/ \E m \in Modules : Statement(m) \/ Finish(m)

SystemSpec == SystemInit /\ [][SystemNext]_systemVars

(* A module finishes what it has begun, and the mutex goes to everybody who  *)
(* waits for it: pools are threads of their own, execute() and dlopen return.*)
FairModule(m) ==
    /\ WF_systemVars(ended = "no" /\ at[m] \in {"write", "read", "access"} /\ Statement(m))
    /\ SF_systemVars(ended = "no" /\ Waiting(m) /\ Statement(m))
    /\ \A c \in Of(m) :
           SF_systemVars(/\ ended = "no" /\ m \in pending /\ handles[LibraryOf[m]] # 0
                         /\ UnlockConnection(m, c)
                         /\ UNCHANGED <<loaderVars, pending>>)

Fairness == /\ \A m \in Modules : FairModule(m)
            /\ WF_systemVars(ended = "no" /\ SwapReopen /\ UNCHANGED pending)

FairSpec == SystemSpec /\ Fairness
------------------------------------------------------------------------------
(* A mutex is not held any longer than the execute() that has locked it, so  *)
(* the loader destroys none that is locked (connector.h:178, 198, 236;       *)
(* loader.cc:108).                                                           *)
LocksReturned == \A c \in Connectors : owns[c] => Owner[c] \in pending

(* Who waits for a mutex while others may wait for one of his has locked     *)
(* that one by lockConnection, and waits for another connector: send and     *)
(* receive alone, and modules that call nothing between lockConnection and   *)
(* unlockConnection, never wait for each other, however they are connected   *)
(* (connector.h:176-178, 194-196, 225).                                      *)
WaitersNest == \A c \in Connectors :
    owns[c] /\ at[Owner[c]] \in DOMAIN AfterLock => locked[c] /\ cur[Owner[c]] # c
==============================================================================
