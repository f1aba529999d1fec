------------------------------- MODULE Loader --------------------------------
(***************************************************************************)
(* The loader (lib/src/loader.cc) and the connectors it connects and       *)
(* disconnects while modules execute.                                      *)
(*                                                                         *)
(* The module map is walked in the order of its keys: Rank numbers the     *)
(* connectors in the order of their modules' ids, then their own names.    *)
(* The loops over the map are one step.  Spec lets the loader work at any  *)
(* time; when Control lets it work is in System.                           *)
(***************************************************************************)
EXTENDS Connector, FiniteSets

CONSTANTS
    Wish,         \* the output each input is to be connected to, by the options
    NoOutput,     \* it is not mentioned in the options
    Type,         \* the type of a connector
    TypeMatching, \* BVS.connectorTypeMatching
    Rank,         \* position of a connector in the module map
    Libraries,
    LibraryOf,    \* the library of a module
    HotSwappable, \* modules whose id is the name of their class
    Swappable,    \* modules the user hot swaps
    NoModule

ASSUME LoaderAssumption ==
    /\ IsFiniteSet(Modules)
    /\ NoOutput \notin Outputs
    /\ Wish \in [Inputs -> Outputs \union {NoOutput}]
    /\ \A i \in Inputs : Wish[i] # NoOutput => Owner[Wish[i]] # Owner[i]
    /\ Rank \in [Connectors -> Nat]
    /\ \A c, d \in Connectors : Rank[c] = Rank[d] => c = d
    /\ LibraryOf \in [Modules -> Libraries]
    /\ Swappable \subseteq Modules
    /\ NoModule \notin Modules

VARIABLES
    loaded,   \* keys of Loader::modules
    loads,    \* how often each module has been loaded
    handles,  \* dlopen's count of references to each library
    unloading, doing, \* the module in Loader::unload, and the next statement there
    swapping  \* the module in Loader::hotSwapModule, its library closed

loaderVars == <<loaded, loads, handles, unloading, doing, swapping>>
vars == <<connectorVars, loaderVars>>

Object(o) == <<o, loads[Owner[o]]>>

Init == /\ ConnectorInit
        /\ loaded = {}
        /\ loads = [m \in Modules |-> 0]
        /\ handles = [l \in Libraries |-> 0]
        /\ unloading = NoModule /\ doing = "none"
        /\ swapping = NoModule

Exit == End("exit") /\ UNCHANGED loaderVars

(* Loader::load: opens the library, runs bvsRegisterModule, which creates    *)
(* the module with its connectors, and keeps the handle (54-101).            *)
Load(m) ==
    /\ unloading = NoModule /\ swapping = NoModule
    /\ \/ m \in loaded /\ Exit
       \/ /\ m \notin loaded /\ loads[m] < MaxLoads
          /\ handles' = [handles EXCEPT ![LibraryOf[m]] = @ + 1]
          /\ loads' = [loads EXCEPT ![m] = @ + 1]
          /\ loaded' = loaded \union {m}
          /\ LET new(c) == <<c, loads[m] + 1>>
                 fresh(c) == IF c \in Outputs THEN new(c) ELSE NoObject
                 off(c) == FALSE
                 Renew(f, v(_)) == [c \in Connectors |-> IF Owner[c] = m THEN v(c) ELSE f[c]]
             IN /\ active' = Renew(active, off)
                /\ locked' = Renew(locked, off)
                /\ owns' = Renew(owns, off)
                /\ pointer' = Renew(pointer, fresh)
                /\ lockOn' = Renew(lockOn, fresh)
                /\ connection' = Renew(connection, fresh)
                /\ alive' = alive \union {new(o) : o \in Outputs \intersect Of(m)}
          /\ UNCHANGED <<at, cur, inside, ended, unloading, doing, swapping>>

(* Fault: an input that is active is connected anew.                         *)
ConnectErrorUnlessActive(i) == \/ Owner[Wish[i]] \notin loaded
                               \/ TypeMatching /\ Type[i] # Type[Wish[i]]

(* What connectModule logs with level 0: the input has an output already,    *)
(* the other module is not there, or the types differ (153-170).             *)
ConnectError(i) == \/ active[i]
                   \/ Owner[Wish[i]] \notin loaded
                   \/ TypeMatching /\ Type[i] # Type[Wish[i]]

Wishes(m) == {i \in Inputs \intersect Of(m) : Wish[i] # NoOutput}

(* The input's lock now refers to the output's mutex, its pointer to the     *)
(* output's object (172-175).                                                *)
ConnectInputs(m) ==
    /\ lockOn' = [c \in Connectors |-> IF c \in Wishes(m) THEN Object(Wish[c]) ELSE lockOn[c]]
    /\ pointer' = [c \in Connectors |-> IF c \in Wishes(m) THEN pointer[Wish[c]] ELSE pointer[c]]
    /\ owns' = [c \in Connectors |-> owns[c] /\ c \notin Wishes(m)]
    /\ active' = [c \in Connectors |-> active[c] \/ \E i \in Wishes(m) : Wish[i] = c]

(* Loader::connectModule.                                                    *)
Connect(m) ==
    /\ unloading = NoModule /\ swapping = NoModule /\ m \in loaded
    /\ \/ (\E i \in Wishes(m) : ConnectError(i)) /\ Exit
       \/ /\ \A i \in Wishes(m) : ~ConnectError(i)
          /\ ConnectInputs(m)
          /\ UNCHANGED <<locked, connection, alive, at, cur, inside, ended, loaderVars>>

(* Loader::disconnectModule.  An active output takes every connector with    *)
(* its pointer along, up to itself in the order of the map: then its own     *)
(* pointer is null and equals no other one (208-216).  An active input       *)
(* switches the output off if it was the only one to read it (193-205).      *)
Cut(m) == {c \in Connectors : Owner[c] \in loaded /\
             \E o \in Outputs \intersect Of(m) :
                 active[o] /\ pointer[c] = pointer[o] /\ Rank[c] <= Rank[o]}

(* Fault: the input does not look for other readers.                         *)
UnreadEvenIfShared(m) == {o \in Outputs : Owner[o] \in loaded /\
             \E i \in Inputs \intersect Of(m) : active[i] /\ pointer[i] = pointer[o]}

Unread(m) == {o \in Outputs : Owner[o] \in loaded /\
             \E i \in Inputs \intersect Of(m) :
                 /\ active[i] /\ pointer[i] = pointer[o]
                 /\ \A j \in Inputs \ {i} :
                        Owner[j] \in loaded => pointer[j] # pointer[i]}

(* Fault: the pointers are kept.                                             *)
DisconnectKeeping(m) ==
    /\ active' = [c \in Connectors |-> active[c] /\ c \notin Cut(m) \union Unread(m)]
    /\ UNCHANGED pointer

Disconnect(m) ==
    /\ active' = [c \in Connectors |-> active[c] /\ c \notin Cut(m) \union Unread(m)]
    /\ pointer' = [c \in Connectors |-> IF c \in Cut(m) THEN NoObject ELSE pointer[c]]

(* Loader::unload: disconnect (107),                                         *)
Unload(m) ==
    /\ unloading = NoModule /\ m \in loaded /\ ~Busy(m)
    /\ Disconnect(m)
    /\ unloading' = m /\ doing' = "destroy"
    /\ UNCHANGED <<lockOn, owns, locked, connection, alive, at, cur, inside, ended,
                   loaded, loads, handles, swapping>>

(* destroy the module and with it the data of its connectors, the mutexes    *)
(* of its outputs among them (108-109): its destructor is in the library,    *)
Destroy ==
    /\ doing = "destroy"
    /\ IF handles[LibraryOf[unloading]] = 0
       THEN End("crash") /\ UNCHANGED loaderVars
       ELSE LET Drop(f, v) == [c \in Connectors |-> IF Owner[c] = unloading THEN v ELSE f[c]]
            IN /\ active' = Drop(active, FALSE)
               /\ owns' = Drop(owns, FALSE)
               /\ locked' = Drop(locked, FALSE)
               /\ pointer' = Drop(pointer, NoObject)
               /\ lockOn' = Drop(lockOn, NoObject)
               /\ connection' = Drop(connection, NoObject)
               /\ alive' = {x \in alive : Owner[x[1]] # unloading}
               /\ doing' = "close"
               /\ UNCHANGED <<at, cur, inside, ended, loaded, loads, handles,
                              unloading, swapping>>

CloseLibrary(m) == handles' = [handles EXCEPT ![LibraryOf[m]] = @ - 1]

EraseEntry == /\ loaded' = loaded \ {unloading}
              /\ unloading' = NoModule /\ doing' = "none"
              /\ UNCHANGED <<connectorVars, loads, swapping>>

(* Fault: nobody asks whether the library could be closed.                   *)
CloseUnchecked == doing = "close" /\ CloseLibrary(unloading) /\ EraseEntry

(* close the library and erase the entry (110-111); a library that is not    *)
(* open any more cannot be closed (297-300).                                 *)
Close ==
    /\ doing = "close"
    /\ IF handles[LibraryOf[unloading]] = 0
       THEN (\E how \in {"exit", "crash"} : End(how)) /\ UNCHANGED loaderVars
       ELSE CloseLibrary(unloading) /\ EraseEntry

(* Loader::hotSwapModule closes the library of the module, whatever the      *)
(* module and the loader are at (232),                                       *)
SwapClose(m) ==
    /\ m \in Swappable /\ m \in loaded /\ swapping = NoModule
    /\ CloseLibrary(m)
    /\ swapping' = m
    /\ UNCHANGED <<connectorVars, loaded, loads, unloading, doing>>

SwapEnds == swapping' = NoModule
            /\ UNCHANGED <<connectorVars, loaded, loads, unloading, doing>>

(* Fault: the new handle is not kept open.                                   *)
SwapReopenForgotten == swapping # NoModule /\ SwapEnds /\ UNCHANGED handles

(* and opens it again, for an entry that has to be there still; the function *)
(* it then looks for is named after the id, where the macro of module.h      *)
(* names it after the class (233-248).  If nobody else used the library, it  *)
(* may be somewhere else now, and a call that was going on in it is lost.    *)
SwapReopen ==
    /\ swapping # NoModule
    /\ \/ /\ swapping \in loaded \intersect HotSwappable
          /\ handles' = [handles EXCEPT ![LibraryOf[swapping]] = @ + 1]
          /\ SwapEnds
       \/ swapping \in loaded \ HotSwappable /\ Exit
       \/ /\ \/ swapping \notin loaded
             \/ Busy(swapping) /\ handles[LibraryOf[swapping]] = 0
          /\ End("crash") /\ UNCHANGED loaderVars

LoaderStep == \/ \E m \in Modules : Load(m) \/ Connect(m) \/ Unload(m)
              \/ Destroy
              \/ Close

SwapStep == (\E m \in Modules : SwapClose(m)) \/ SwapReopen

Executes(m) ==
    \/ \E c \in Of(m) : \/ Send(m, c) \/ Receive(m, c) \/ Misuse(m, c)
                        \/ LockConnection(m, c) \/ Access(m, c) \/ UnlockConnection(m, c)
    \/ Lock(m)
    \/ Done(m)

(* A statement of a module that is executing; there is none without its      *)
(* library, only a mutex may keep the module from noticing.                  *)
ModuleStep(m) ==
    /\ m \in loaded /\ m # unloading
    /\ IF handles[LibraryOf[m]] = 0
       THEN (at[m] \in DOMAIN AfterLock => MayLock(m)) /\ End("crash")
       ELSE Executes(m)
    /\ UNCHANGED loaderVars

Next == /\ ended = "no"
        /\ LoaderStep \/ SwapStep \/ \E m \in Modules : ModuleStep(m)

Spec == Init /\ [][Next]_vars
------------------------------------------------------------------------------
TypeConnectors ==
    /\ pointer \in [Connectors -> MaybeObject] /\ lockOn \in [Connectors -> MaybeObject]
    /\ connection \in [Connectors -> MaybeObject]
    /\ alive \subseteq Objects
TypeFlags ==
    /\ active \in [Connectors -> BOOLEAN] /\ owns \in [Connectors -> BOOLEAN]
    /\ locked \in [Connectors -> BOOLEAN]
TypeModules ==
    /\ at \in [Modules -> {"idle", "write", "read", "access", "sendLock", "receiveLock", "lock"}]
    /\ cur \in [Modules -> Connectors \union {NoConnector}]
    /\ inside \subseteq Connectors
    /\ ended \in {"no", "exit", "throw", "crash"}
TypeLoader ==
    /\ loaded \subseteq Modules /\ loads \in [Modules -> 0 .. MaxLoads]
    /\ unloading \in Modules \union {NoModule}
    /\ doing \in {"none", "destroy", "close"}
    /\ swapping \in Modules \union {NoModule}
TypeHandles == handles \in [Libraries -> Nat]

(* A module that executes is in the map and works on its own connectors.     *)
BusyLoaded == \A m \in Modules : /\ Busy(m) => m \in loaded \ {unloading}
                                 /\ at[m] # "idle" => cur[m] \in Of(m)

TypeOK == /\ TypeConnectors /\ TypeFlags /\ TypeModules /\ TypeLoader /\ TypeHandles
          /\ BusyLoaded

Alters(m) == at[m] \in {"write", "access"}
Touches(m) == at[m] \in {"write", "read", "access"}

(* The input was not active yet when its module locked the connection, so    *)
(* nothing was locked, and became active afterwards (connector.h:205, 223).  *)
Unguarded(c) == c \in inside \intersect Inputs /\ ~locked[c]

(* Nobody touches an object that another module is writing, although the two *)
(* test `active` of different ConnectorData to decide whether to lock, and   *)
(* connecting and disconnecting change it (connector.h:176-178, 194-196).    *)
WholeValues == \A m, n \in Modules :
    (m # n /\ Alters(m) /\ Touches(n) /\ connection[cur[m]] = connection[cur[n]])
        => Unguarded(cur[m]) \/ Unguarded(cur[n])

(* An input that is active works on the object whose mutex it locks, and on  *)
(* the one it is connected to, through every unloading, reloading and        *)
(* connecting anew.                                                          *)
LockGuardsObject == \A i \in Inputs : active[i] =>
    connection[i] = lockOn[i] /\ connection[i] = pointer[i] /\ pointer[i] # NoObject

(* While an input is connected to an output, its module knows: send would    *)
(* not lock otherwise (loader.cc:175, 205).                                  *)
OutputKnows == \A i \in Inputs, o \in Outputs :
    /\ Owner[i] \in loaded \ {unloading} /\ Owner[o] \in loaded
    /\ pointer[i] # NoObject /\ pointer[i] = pointer[o]
    => active[o]

(* An input whose output is gone receives nothing, if the map lists it       *)
(* before the output.                                                        *)
EarlierReadersStop == \A i \in Inputs :
    active[i] /\ lockOn[i] \notin alive => Rank[i] > Rank[lockOn[i][1]]

(* Unlocking what is not locked ends the process; it happens only to a       *)
(* module that locks an input it has never received from.                    *)
ThrowsOnlyUnguarded == ended = "throw" => \E c \in Connectors : Unguarded(c)

(* The code of a module is there as long as the module is in the map, only    *)
(* a swap of a module of its library takes it away, and only if no other      *)
(* module of the map uses that library: bvs.h:229, "Only works if there is    *)
(* only ONE module instance of a library present" (loader.cc:110-111,         *)
(* 232-233).                                                                  *)
CodeStays == \A m \in loaded : handles[LibraryOf[m]] = 0 =>
    /\ swapping # NoModule /\ LibraryOf[swapping] = LibraryOf[m]
    /\ \A n \in loaded \ {m} : LibraryOf[n] # LibraryOf[m]

(* m waits for a mutex that n has locked.                                    *)
Waiting(m) == at[m] \in DOMAIN AfterLock
WaitsFor(m, n) == Waiting(m) /\ \E c \in Of(n) : owns[c] /\ lockOn[c] = lockOn[cur[m]]

(* Modules each of which waits for one of them: they nest locked connections *)
(* (WaitersNest in System) in an order that does not fit.                    *)
Circle == \E ring \in (SUBSET Modules) \ {{}} :
    \A m \in ring : \E n \in ring : WaitsFor(m, n)

(* A module that waits for a connection gets it, unless modules wait for     *)
(* each other in a circle, or for one that does: no mutex is kept for any    *)
(* other reason (connector.h:176-178, 194-196, 225-236).                     *)
LocksComeFree == \A m \in Modules : Waiting(m) ~> ~Waiting(m) \/ ended # "no" \/ Circle

(* receive() makes no use of memory that is gone: connector.h:26-34, "it     *)
(* guarantees that your programm will not crash due to non referenceable     *)
(* memory".                                                                  *)
ReceiveSafe == \A m \in Modules :
    at[m] = "receiveLock" => lockOn[cur[m]] \in alive
==============================================================================
