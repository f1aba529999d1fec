----------------------------- MODULE LoaderProof ------------------------------
(***************************************************************************)
(* The safety properties of Loader and of System, for any modules,         *)
(* connectors, wishes, libraries and order of the module map.              *)
(***************************************************************************)
EXTENDS System, FiniteSetTheorems, TLAPS

(***************************************************************************)
(* The invariant of what the loader builds.  It does not depend on when    *)
(* the loader works, nor on what the modules lock.                         *)
(***************************************************************************)
Phases == /\ doing = "none" <=> unloading = NoModule
          /\ doing # "none" => unloading \in loaded
Counted == \A m \in loaded : loads[m] >= 1

(* A module that is not there, or not any more, has no pointers.           *)
Gone(c) == Owner[c] \notin loaded \/ (doing = "close" /\ Owner[c] = unloading)
Blank == \A c \in Connectors : Gone(c) => pointer[c] = NoObject /\ ~active[c]

(* An output points to the object of its module's latest load, or to none. *)
Working(c) == Owner[c] \in loaded \ {unloading}
OwnObjects == \A o \in Outputs :
    /\ pointer[o] \in {NoObject, Object(o)}
    /\ Working(o) => /\ Object(o) \in alive /\ pointer[o] = Object(o)
                     /\ lockOn[o] = Object(o) /\ connection[o] = Object(o)

(* No pointer refers to an object of a load to come; what exists is of the *)
(* latest.                                                                 *)
NotNewer == \A c \in Connectors :
    pointer[c] # NoObject => pointer[c][2] <= loads[Owner[pointer[c][1]]]
AliveNow == \A x \in alive :
    /\ x = Object(x[1]) /\ Owner[x[1]] \in loaded
    /\ ~(doing = "close" /\ Owner[x[1]] = unloading)

(* Pointer and lock of an input are set together (loader.cc:173-174).      *)
LocksFollow == \A i \in Inputs : pointer[i] # NoObject => lockOn[i] = pointer[i]

(* The inputs disconnectModule leaves connected to an object that is gone, *)
(* or about to go, are behind the output in the map.                       *)
LaterLeft == \A i \in Inputs :
    pointer[i] # NoObject /\ (pointer[i] \notin alive \/ Owner[pointer[i][1]] = unloading)
        => Rank[i] > Rank[pointer[i][1]]

Types == TypeConnectors /\ TypeFlags /\ TypeModules /\ TypeLoader /\ BusyLoaded
Structure == /\ Phases /\ Counted /\ Blank /\ OwnObjects /\ NotNewer /\ AliveNow
             /\ LocksFollow /\ LockGuardsObject /\ OutputKnows /\ LaterLeft

(***************************************************************************)
(* The invariant of the locks, in the rounds of System.                    *)
(***************************************************************************)
OneOwner == \A c, d \in Connectors : owns[c] /\ owns[d] /\ lockOn[c] = lockOn[d] => c = d
OwnsInUse(m) == \A c \in Of(m) :
    owns[c] => locked[c] \/ (cur[m] = c /\ at[m] \in {"write", "read"})
LockedInside(m) == \A c \in Of(m) : locked[c] => owns[c] /\ active[c] /\ c \in inside

(* An output that is active stays so while a module executes: between      *)
(* lockConnection and unlockConnection it is locked.                       *)
InsideLocked(m) == \A c \in Of(m) :
    c \in inside /\ c \in Outputs /\ active[c] /\ ~(at[m] = "lock" /\ cur[m] = c)
        => locked[c]

(* What module m has established at each statement that works on c.        *)
Established(m, c) ==
    /\ at[m] = "write" => c \in Outputs /\ (active[c] <=> owns[c])
    /\ at[m] = "read" => c \in Inputs /\ active[c] /\ owns[c]
    /\ at[m] = "access" => c \in inside
    /\ at[m] = "sendLock" => c \in Outputs /\ active[c] /\ ~owns[c]
    /\ at[m] = "receiveLock" => c \in Inputs /\ active[c] /\ ~owns[c]
    /\ at[m] = "lock" => c \in inside /\ active[c] /\ ~owns[c]

Disciplined(m) == /\ OwnsInUse(m) /\ LockedInside(m) /\ InsideLocked(m)
                  /\ Established(m, cur[m])

(* Who executes has been told to in this round, and while the loader takes *)
(* a module apart nobody is: this is what the rounds give the locks.       *)
Turns == /\ pending \subseteq Modules
         /\ \A m \in Modules : Busy(m) => m \in pending
         /\ unloading # NoModule => pending = {}

Locking == OneOwner /\ \A m \in Modules : Disciplined(m)
------------------------------------------------------------------------------
(* What the step of a module leaves alone, whatever it is at: pointers,    *)
(* locks' mutexes and all of the loader; at most it activates a connector. *)
LEMMA ModuleFrame ==
    ASSUME BusyLoaded, NEW m \in Modules, ModuleStep(m)
    PROVE  /\ m \in loaded \ {unloading}
           /\ UNCHANGED <<pointer, lockOn, alive, loaderVars>>
           /\ \/ UNCHANGED <<active, connection>>
              \/ \E c \in Of(m) : ~active[c] /\ CanActivate(c) /\ Activate(c)
<1>1. m \in loaded \ {unloading} /\ UNCHANGED loaderVars
  BY DEF ModuleStep
<1>2. ASSUME NEW c \in Of(m), Send(m, c)
      PROVE  UNCHANGED <<pointer, lockOn, alive, active, connection>>
  BY <1>2 DEF Send, data
<1>3. ASSUME NEW c \in Of(m), Receive(m, c)
      PROVE  /\ UNCHANGED <<pointer, lockOn, alive>>
             /\ \/ UNCHANGED <<active, connection>>
                \/ ~active[c] /\ CanActivate(c) /\ Activate(c)
  BY <1>3 DEF Receive, data, connectorVars
<1>4. ASSUME NEW c \in Of(m), LockConnection(m, c) \/ Misuse(m, c)
      PROVE  UNCHANGED <<pointer, lockOn, alive, active, connection>>
  BY <1>4 DEF LockConnection, Misuse, End, data
<1>5. ASSUME NEW c \in Of(m), Access(m, c)
      PROVE  /\ UNCHANGED <<pointer, lockOn, alive>>
             /\ \/ UNCHANGED <<active, connection>>
                \/ ~active[c] /\ CanActivate(c) /\ Activate(c)
  BY <1>5 DEF Access, End, data
<1>6. ASSUME NEW c \in Of(m), UnlockConnection(m, c)
      PROVE  UNCHANGED <<pointer, lockOn, alive, active, connection>>
  BY <1>6 DEF UnlockConnection, End, data
<1>7. ASSUME Lock(m) \/ Done(m)
      PROVE  UNCHANGED <<pointer, lockOn, alive, active, connection>>
  BY <1>7 DEF Lock, Done, End, data
<1>8. ASSUME End("crash") PROVE UNCHANGED <<pointer, lockOn, alive, active, connection>>
  BY <1>8 DEF End, data
<1> QED
  BY <1>1, <1>2, <1>3, <1>4, <1>5, <1>6, <1>7, <1>8 DEF ModuleStep, Executes

(* The object of an output whose module is in the map.                     *)
LEMMA ObjectExists ==
    ASSUME TypeLoader, Counted, NEW o \in Outputs, Owner[o] \in loaded
    PROVE  Object(o) \in Objects /\ Object(o) # NoObject
           /\ Object(o)[1] = o /\ Object(o)[2] = loads[Owner[o]]
<1>1. Owner[o] \in Modules /\ loads[Owner[o]] \in 1 .. MaxLoads
  BY ConnectorAssumption DEF TypeLoader, Counted, Connectors
<1> QED
  BY <1>1, ConnectorAssumption DEF Object, Objects

(* Whatever a pointer refers to is an output's object.                     *)
LEMMA PointerShape ==
    ASSUME TypeConnectors, NEW c \in Connectors, pointer[c] # NoObject
    PROVE  /\ pointer[c] \in Objects /\ pointer[c][1] \in Outputs
           /\ pointer[c][2] \in 1 .. MaxLoads
           /\ pointer[c] = <<pointer[c][1], pointer[c][2]>>
  BY DEF TypeConnectors, MaybeObject, Objects

LEMMA StructureInit == Init => Structure
<1> SUFFICES ASSUME Init PROVE Structure
  OBVIOUS
<1> USE ConnectorAssumption, LoaderAssumption DEF Init, ConnectorInit
<1>1. Phases /\ Counted /\ Blank /\ OwnObjects
  BY DEF Phases, Counted, Blank, OwnObjects, Working, Connectors
<1>2. NotNewer /\ AliveNow /\ LocksFollow
  BY DEF NotNewer, AliveNow, LocksFollow, Connectors
<1>3. LockGuardsObject /\ OutputKnows /\ LaterLeft
  BY DEF LockGuardsObject, OutputKnows, LaterLeft, Connectors
<1> QED
  BY <1>1, <1>2, <1>3 DEF Structure

(* A step that leaves all of it alone, or activates a connector of a       *)
(* module that executes.                                                   *)
LEMMA StructureFrame ==
    ASSUME Types, Structure,
           UNCHANGED <<pointer, lockOn, alive, loaded, loads, unloading, doing>>,
           \/ UNCHANGED <<active, connection>>
           \/ \E c \in Connectors :
                Working(c) /\ ~active[c] /\ CanActivate(c) /\ Activate(c)
    PROVE  Structure'
<1> USE ConnectorAssumption DEF Types, Structure
<1>1. Phases' /\ Counted' /\ NotNewer' /\ AliveNow' /\ LocksFollow' /\ LaterLeft'
  BY DEF Phases, Counted, NotNewer, AliveNow, LocksFollow, LaterLeft, Object
<1>2. CASE UNCHANGED <<active, connection>>
  <2>1. Blank' /\ OwnObjects'
    BY <1>2 DEF Blank, OwnObjects, Gone, Working, Object
  <2>2. LockGuardsObject' /\ OutputKnows'
    BY <1>2 DEF LockGuardsObject, OutputKnows
  <2> QED
    BY <1>1, <2>1, <2>2
<1>3. ASSUME NEW c \in Connectors, Working(c), ~active[c], CanActivate(c), Activate(c)
      PROVE  Structure'
  <2>1. c \in Inputs
    <3>1. ASSUME c \in Outputs PROVE FALSE
      BY <1>3, <3>1, ObjectExists DEF OwnObjects, Working, CanActivate
    <3> QED
      BY <3>1 DEF Connectors
  <2>2. /\ active' = [active EXCEPT ![c] = TRUE]
        /\ connection' = [connection EXCEPT ![c] = pointer[c]]
        /\ pointer[c] # NoObject
    BY <1>3 DEF Activate, CanActivate
  <2>3. Blank'
    BY <1>3, <2>2 DEF Blank, Gone, Working, TypeFlags, Phases
  <2>4. OwnObjects'
    BY <2>1, <2>2 DEF OwnObjects, Working, Object, TypeConnectors, Connectors
  <2>5. LockGuardsObject'
    BY <2>1, <2>2 DEF LockGuardsObject, LocksFollow, TypeConnectors, TypeFlags, Connectors
  <2>6. OutputKnows'
    BY <2>1, <2>2 DEF OutputKnows, TypeFlags, Connectors
  <2> QED
    BY <1>1, <2>3, <2>4, <2>5, <2>6
<1> QED
  BY <1>2, <1>3

(* Loader::load (54-101): new objects, nobody refers to them yet.          *)
LEMMA StructureLoad ==
    ASSUME Types, Structure, NEW m \in Modules, Load(m), m \notin loaded
    PROVE  Structure'
<1> USE ConnectorAssumption, LoaderAssumption DEF Types, Structure
<1> DEFINE new(c) == <<c, loads[m] + 1>>
           fresh(c) == IF c \in Outputs THEN new(c) ELSE NoObject
<1>1. /\ unloading = NoModule /\ m \notin loaded
      /\ loads' = [loads EXCEPT ![m] = @ + 1]
      /\ loaded' = loaded \union {m}
      /\ UNCHANGED <<unloading, doing>>
  BY DEF Load, Exit, End
<1>2. /\ active' = [c \in Connectors |-> IF Owner[c] = m THEN FALSE ELSE active[c]]
      /\ pointer' = [c \in Connectors |-> IF Owner[c] = m THEN fresh(c) ELSE pointer[c]]
      /\ lockOn' = [c \in Connectors |-> IF Owner[c] = m THEN fresh(c) ELSE lockOn[c]]
      /\ connection' = [c \in Connectors |-> IF Owner[c] = m THEN fresh(c) ELSE connection[c]]
      /\ alive' = alive \union {new(o) : o \in Outputs \intersect Of(m)}
  BY DEF Load, Exit, End
<1>3. doing = "none"
  BY <1>1 DEF Phases
<1>4. loads[m] \in Nat /\ loads'[m] = loads[m] + 1
      /\ \A n \in Modules \ {m} : loads'[n] = loads[n]
  BY <1>1 DEF TypeLoader
<1>5. \A o \in Outputs : Owner[o] = m => Object(o)' = new(o)
  BY <1>4 DEF Object
<1>6. \A o \in Outputs : Owner[o] # m => Object(o)' = Object(o)
  BY <1>4 DEF Object, Connectors
<1>7. Phases' /\ Counted'
  BY <1>1, <1>3, <1>4 DEF Phases, Counted, TypeLoader
<1>8. Blank'
  BY <1>1, <1>2, <1>3 DEF Blank, Gone
<1>9. OwnObjects'
  <2> SUFFICES ASSUME NEW o \in Outputs
               PROVE  /\ pointer'[o] \in {NoObject, Object(o)'}
                      /\ Working(o)' => /\ Object(o)' \in alive' /\ pointer'[o] = Object(o)'
                                        /\ lockOn'[o] = Object(o)' /\ connection'[o] = Object(o)'
    BY DEF OwnObjects
  <2>1. CASE Owner[o] = m
    BY <1>2, <1>5, <2>1 DEF Of, Connectors
  <2>2. CASE Owner[o] # m
    BY <1>1, <1>2, <1>6, <2>2 DEF OwnObjects, Working, Connectors
  <2> QED
    BY <2>1, <2>2
<1>10. NotNewer'
  <2> SUFFICES ASSUME NEW c \in Connectors, pointer'[c] # NoObject
               PROVE  pointer'[c][2] <= loads'[Owner[pointer'[c][1]]]
    BY DEF NotNewer
  <2>1. CASE Owner[c] = m
    BY <1>2, <1>4, <2>1
  <2>2. CASE Owner[c] # m
    <3>1. pointer'[c] = pointer[c] /\ pointer[c] # NoObject
      BY <1>2, <2>2
    <3>2. Owner[pointer[c][1]] \in Modules
      BY <3>1, PointerShape DEF Connectors
    <3> QED
      BY <1>4, <3>1, <3>2, PointerShape DEF NotNewer, TypeLoader
  <2> QED
    BY <2>1, <2>2
<1>11. AliveNow'
  <2> SUFFICES ASSUME NEW x \in alive'
               PROVE  x = Object(x[1])' /\ Owner[x[1]] \in loaded'
    BY <1>1, <1>3 DEF AliveNow
  <2>1. CASE x \in alive
    <3>1. x[1] \in Outputs
      BY <2>1 DEF TypeConnectors, Objects
    <3> QED
      BY <1>1, <1>6, <2>1, <3>1 DEF AliveNow
  <2>2. ASSUME NEW o \in Outputs \intersect Of(m), x = new(o)
        PROVE  x = Object(x[1])' /\ Owner[x[1]] \in loaded'
    BY <1>1, <1>5, <2>2 DEF Of
  <2> QED
    BY <1>2, <2>1, <2>2
<1>12. LocksFollow' /\ LockGuardsObject'
  BY <1>2 DEF LocksFollow, LockGuardsObject, Connectors
<1>13. OutputKnows'
  <2> SUFFICES ASSUME NEW i \in Inputs, NEW o \in Outputs,
                      Owner[i] \in loaded', Owner[o] \in loaded',
                      pointer'[i] # NoObject, pointer'[i] = pointer'[o]
               PROVE  active'[o]
    BY <1>1 DEF OutputKnows
  <2>1. Owner[i] # m /\ pointer'[i] = pointer[i]
    BY <1>2 DEF Connectors
  <2>2. Owner[o] # m
    <3>1. ASSUME Owner[o] = m PROVE FALSE
      <4>1. pointer[i] = new(o)
        BY <1>2, <2>1, <3>1 DEF Connectors
      <4>2. loads[m] + 1 <= loads[m]
        <5>1. pointer[i] # NoObject /\ i \in Connectors
          BY <2>1 DEF Connectors
        <5>2. pointer[i][2] = loads[m] + 1 /\ pointer[i][1] = o
          BY <4>1
        <5> QED
          BY <3>1, <5>1, <5>2 DEF NotNewer
      <4> QED
        BY <1>4, <4>2
    <3> QED
      BY <3>1
  <2> QED
    BY <1>1, <1>2, <2>1, <2>2 DEF OutputKnows, Connectors
<1>14. LaterLeft'
  BY <1>1, <1>2 DEF LaterLeft, Connectors
<1> QED
  BY <1>7, <1>8, <1>9, <1>10, <1>11, <1>12, <1>13, <1>14

(* Loader::connectModule (124-183): each wish gets pointer and lock of an  *)
(* output that is there, and the output is switched on.                    *)
LEMMA StructureConnect ==
    ASSUME Types, Structure, NEW m \in Modules, Connect(m), ~Exit
    PROVE  Structure'
<1> USE ConnectorAssumption, LoaderAssumption DEF Types, Structure
<1>1. /\ unloading = NoModule /\ m \in loaded
      /\ \A i \in Wishes(m) : ~ConnectError(i)
      /\ UNCHANGED <<connection, alive, loaded, loads, unloading, doing>>
  BY DEF Connect, loaderVars
<1>2. /\ lockOn' = [c \in Connectors |-> IF c \in Wishes(m) THEN Object(Wish[c]) ELSE lockOn[c]]
      /\ pointer' = [c \in Connectors |-> IF c \in Wishes(m) THEN pointer[Wish[c]] ELSE pointer[c]]
      /\ active' = [c \in Connectors |-> active[c] \/ \E i \in Wishes(m) : Wish[i] = c]
  BY DEF Connect, ConnectInputs
<1>3. ASSUME NEW i \in Wishes(m)
      PROVE  /\ i \in Inputs /\ Owner[i] = m /\ Wish[i] \in Outputs
             /\ Owner[Wish[i]] \in loaded /\ ~active[i]
             /\ pointer[Wish[i]] = Object(Wish[i]) /\ Object(Wish[i]) \in alive
             /\ Object(Wish[i]) \in Objects /\ Object(Wish[i])[1] = Wish[i]
             /\ Object(Wish[i])[2] = loads[Owner[Wish[i]]]
  <2>1. i \in Inputs /\ Owner[i] = m /\ Wish[i] \in Outputs
    BY DEF Wishes, Of
  <2>2. Owner[Wish[i]] \in loaded /\ ~active[i]
    BY <1>1 DEF ConnectError
  <2>3. Working(Wish[i])
    BY <1>1, <2>2 DEF Working, TypeLoader
  <2> QED
    BY <2>1, <2>2, <2>3, ObjectExists DEF OwnObjects
<1>4. \A o \in Outputs : o \notin Wishes(m) /\ Object(o)' = Object(o)
  BY <1>1, <1>3 DEF Object
<1>5. Phases' /\ Counted' /\ AliveNow'
  BY <1>1 DEF Phases, Counted, AliveNow, Object
<1>6. Blank'
  BY <1>1, <1>2, <1>3 DEF Blank, Gone, Phases
<1>7. OwnObjects'
  BY <1>1, <1>2, <1>4 DEF OwnObjects, Working, Object, Connectors
<1>8. NotNewer'
  <2> SUFFICES ASSUME NEW c \in Connectors, pointer'[c] # NoObject
               PROVE  pointer'[c][2] <= loads[Owner[pointer'[c][1]]]
    BY <1>1 DEF NotNewer
  <2>1. CASE c \in Wishes(m)
    <3>1. pointer'[c] = Object(Wish[c]) /\ loads[Owner[Wish[c]]] \in Nat
      BY <1>2, <1>3, <2>1 DEF TypeLoader
    <3> QED
      BY <1>3, <2>1, <3>1
  <2>2. CASE c \notin Wishes(m)
    BY <1>2, <2>2 DEF NotNewer
  <2> QED
    BY <2>1, <2>2
<1>9. LocksFollow' /\ LockGuardsObject'
  <2>1. \A i \in Inputs : active'[i] = active[i]
    BY <1>2, <1>3 DEF Connectors, TypeFlags
  <2> QED
    BY <1>1, <1>2, <1>3, <2>1 DEF LocksFollow, LockGuardsObject, Connectors
<1>10. OutputKnows'
  <2> SUFFICES ASSUME NEW i \in Inputs, NEW o \in Outputs,
                      Owner[i] \in loaded, Owner[o] \in loaded,
                      pointer'[i] # NoObject, pointer'[i] = pointer'[o]
               PROVE  active'[o]
    BY <1>1 DEF OutputKnows
  <2>1. pointer'[o] = pointer[o] /\ Working(o)
    BY <1>1, <1>2, <1>4 DEF Connectors, Working, TypeLoader
  <2>2. pointer[o] = Object(o) /\ Object(o)[1] = o
    BY <2>1, ObjectExists DEF OwnObjects, Working
  <2>3. CASE i \in Wishes(m)
    <3>1. Wish[i] = o
      BY <1>2, <1>3, <2>1, <2>2, <2>3 DEF Connectors
    <3> QED
      BY <1>2, <2>3, <3>1 DEF Connectors
  <2>4. CASE i \notin Wishes(m)
    BY <1>1, <1>2, <2>1, <2>4 DEF OutputKnows, Connectors, TypeLoader
  <2> QED
    BY <2>3, <2>4
<1>11. LaterLeft'
  <2> SUFFICES ASSUME NEW i \in Inputs, pointer'[i] # NoObject,
                      pointer'[i] \notin alive \/ Owner[pointer'[i][1]] = unloading
               PROVE  Rank[i] > Rank[pointer'[i][1]]
    BY <1>1 DEF LaterLeft
  <2>1. i \notin Wishes(m)
    <3>1. ASSUME i \in Wishes(m) PROVE FALSE
      <4>1. pointer'[i] = Object(Wish[i])
        BY <1>2, <1>3, <3>1 DEF Connectors
      <4> QED
        BY <1>1, <1>3, <3>1, <4>1 DEF TypeLoader
    <3> QED
      BY <3>1
  <2> QED
    BY <1>2, <2>1 DEF LaterLeft, Connectors
<1> QED
  BY <1>5, <1>6, <1>7, <1>8, <1>9, <1>10, <1>11

(* Loader::unload, the first statement: disconnectModule (186-228).        *)
LEMMA StructureUnload ==
    ASSUME Types, Structure, NEW m \in Modules, Unload(m)
    PROVE  Structure'
<1> USE ConnectorAssumption, LoaderAssumption DEF Types, Structure
<1>1. /\ unloading = NoModule /\ m \in loaded
      /\ unloading' = m /\ doing' = "destroy"
      /\ UNCHANGED <<lockOn, connection, alive, loaded, loads>>
  BY DEF Unload
<1>2. /\ active' = [c \in Connectors |-> active[c] /\ c \notin Cut(m) \union Unread(m)]
      /\ pointer' = [c \in Connectors |-> IF c \in Cut(m) THEN NoObject ELSE pointer[c]]
  BY DEF Unload, Disconnect
<1>3. \A o \in Outputs : Object(o)' = Object(o)
  BY <1>1 DEF Object
<1>4. \A o \in Outputs : Owner[o] \in loaded => Working(o)
  BY <1>1 DEF Working, TypeLoader
<1>5. doing = "none" /\ \A c \in Connectors : Gone(c)' <=> Gone(c)
  BY <1>1 DEF Phases, Gone
(* An output is cut off only when its own module goes.                     *)
<1>6. ASSUME NEW c \in Outputs, c \in Cut(m) PROVE Owner[c] = m
  <2>1. PICK o \in Outputs \intersect Of(m) : Owner[c] \in loaded /\ pointer[c] = pointer[o]
    BY <1>6 DEF Cut
  <2>2. pointer[c] = Object(c) /\ pointer[o] = Object(o)
    BY <1>1, <1>4, <2>1 DEF OwnObjects, Of
  <2>3. Object(c)[1] = c /\ Object(o)[1] = o
    BY DEF Object
  <2>4. c = o
    BY <2>1, <2>2, <2>3
  <2> QED
    BY <2>1, <2>4 DEF Of
<1>7. Phases' /\ Counted' /\ Blank'
  BY <1>1, <1>2, <1>5 DEF Phases, Counted, Blank
<1>8. OwnObjects'
  <2> SUFFICES ASSUME NEW o \in Outputs
               PROVE  /\ pointer'[o] \in {NoObject, Object(o)}
                      /\ Working(o)' => /\ Object(o) \in alive /\ pointer'[o] = Object(o)
                                        /\ lockOn[o] = Object(o) /\ connection[o] = Object(o)
    BY <1>1, <1>3 DEF OwnObjects
  <2>1. pointer'[o] = IF o \in Cut(m) THEN NoObject ELSE pointer[o]
    BY <1>2 DEF Connectors
  <2>2. ASSUME Working(o)' PROVE Working(o) /\ o \notin Cut(m)
    BY <1>1, <1>4, <1>6, <2>2 DEF Working
  <2> QED
    BY <2>1, <2>2 DEF OwnObjects
<1>9. NotNewer' /\ LocksFollow'
  BY <1>1, <1>2 DEF NotNewer, LocksFollow, Connectors
<1>10. AliveNow'
  BY <1>1, <1>3 DEF AliveNow, Object
<1>11. LockGuardsObject'
  BY <1>1, <1>2 DEF LockGuardsObject, Connectors
<1>12. OutputKnows'
  <2> SUFFICES ASSUME NEW i \in Inputs, NEW o \in Outputs,
                      Owner[i] \in loaded \ {m}, Owner[o] \in loaded,
                      pointer'[i] # NoObject, pointer'[i] = pointer'[o]
               PROVE  active'[o]
    BY <1>1 DEF OutputKnows
  <2>1. pointer'[i] = pointer[i] /\ pointer'[o] = pointer[o] /\ o \notin Cut(m)
    BY <1>2 DEF Connectors
  <2>2. active[o]
    BY <1>1, <2>1 DEF OutputKnows, TypeLoader
  <2>3. o \notin Unread(m)
    <3>1. ASSUME NEW j \in Inputs \intersect Of(m), pointer[j] = pointer[o]
          PROVE  i # j /\ pointer[i] = pointer[j]
      BY <2>1, <3>1 DEF Of
    <3> QED
      BY <3>1 DEF Unread
  <2> QED
    BY <1>2, <2>1, <2>2, <2>3 DEF Connectors
<1>13. LaterLeft'
  <2> SUFFICES ASSUME NEW i \in Inputs, pointer'[i] # NoObject,
                      pointer'[i] \notin alive \/ Owner[pointer'[i][1]] = m
               PROVE  Rank[i] > Rank[pointer'[i][1]]
    BY <1>1 DEF LaterLeft
  <2> DEFINE o == pointer[i][1]
  <2>1. /\ i \in Connectors /\ pointer'[i] = pointer[i] /\ pointer[i] # NoObject
        /\ i \notin Cut(m) /\ o \in Outputs
    <3>1. i \in Connectors /\ pointer'[i] = pointer[i] /\ i \notin Cut(m)
      BY <1>2 DEF Connectors
    <3> QED
      BY <3>1, PointerShape
  <2>2. CASE pointer[i] \notin alive
    BY <2>1, <2>2 DEF LaterLeft
  <2>3. CASE pointer[i] \in alive /\ Owner[o] = m
    <3>1. pointer[o] = pointer[i]
      BY <1>1, <1>4, <2>1, <2>3 DEF AliveNow, OwnObjects
    <3>2. Owner[i] \in loaded
      BY <2>1 DEF Blank, Gone
    <3>3. active[o]
      BY <1>1, <2>1, <2>3, <3>1, <3>2 DEF OutputKnows, TypeLoader
    <3>4. ~ (Rank[i] <= Rank[o])
      BY <2>1, <2>3, <3>1, <3>2, <3>3 DEF Cut, Of, Connectors
    <3>5. Rank[i] \in Nat /\ Rank[o] \in Nat
      BY <2>1 DEF Connectors
    <3> QED
      BY <2>1, <3>4, <3>5
  <2> QED
    BY <2>1, <2>2, <2>3
<1> QED
  BY <1>7, <1>8, <1>9, <1>10, <1>11, <1>12, <1>13

(* The module goes, with the objects of its outputs' mutexes (108-109).    *)
LEMMA StructureDestroy ==
    ASSUME Types, Structure, Destroy, ended' = ended, ended = "no"
    PROVE  Structure'
<1> USE ConnectorAssumption, LoaderAssumption DEF Types, Structure
<1>1. /\ doing = "destroy" /\ doing' = "close"
      /\ UNCHANGED <<loaded, loads, unloading>>
      /\ unloading \in loaded
  BY DEF Destroy, End, Phases
<1>2. /\ active' = [c \in Connectors |-> IF Owner[c] = unloading THEN FALSE ELSE active[c]]
      /\ pointer' = [c \in Connectors |-> IF Owner[c] = unloading THEN NoObject ELSE pointer[c]]
      /\ lockOn' = [c \in Connectors |-> IF Owner[c] = unloading THEN NoObject ELSE lockOn[c]]
      /\ connection' = [c \in Connectors |-> IF Owner[c] = unloading THEN NoObject ELSE connection[c]]
      /\ alive' = {x \in alive : Owner[x[1]] # unloading}
  BY DEF Destroy, End
<1>3. \A o \in Outputs : Object(o)' = Object(o) /\ (Working(o)' <=> Working(o))
  BY <1>1 DEF Object, Working
<1>4. Phases' /\ Counted'
  BY <1>1 DEF Phases, Counted
<1>5. Blank'
  BY <1>1, <1>2 DEF Blank, Gone
<1>6. OwnObjects'
  <2> SUFFICES ASSUME NEW o \in Outputs
               PROVE  /\ pointer'[o] \in {NoObject, Object(o)}
                      /\ Working(o) => /\ Object(o) \in alive' /\ pointer'[o] = Object(o)
                                       /\ lockOn'[o] = Object(o) /\ connection'[o] = Object(o)
    BY <1>3 DEF OwnObjects
  <2>1. CASE Working(o)
    <3>1. Owner[o] # unloading /\ Object(o)[1] = o
      BY <2>1 DEF Working, Object
    <3> QED
      BY <1>2, <2>1, <3>1 DEF OwnObjects, Connectors
  <2>2. CASE ~Working(o)
    BY <1>2, <2>2 DEF OwnObjects, Connectors
  <2> QED
    BY <2>1, <2>2
<1>7. NotNewer' /\ LocksFollow' /\ LockGuardsObject'
  BY <1>1, <1>2 DEF NotNewer, LocksFollow, LockGuardsObject, Connectors
<1>8. AliveNow'
  BY <1>1, <1>2 DEF AliveNow, Object
<1>9. OutputKnows'
  BY <1>1, <1>2 DEF OutputKnows, Connectors
<1>10. LaterLeft'
  BY <1>1, <1>2 DEF LaterLeft, Connectors
<1> QED
  BY <1>4, <1>5, <1>6, <1>7, <1>8, <1>9, <1>10

(* The library is closed and the entry erased (110-111).                   *)
LEMMA StructureClose ==
    ASSUME Types, Structure, doing = "close", EraseEntry
    PROVE  Structure'
<1> USE ConnectorAssumption, LoaderAssumption DEF Types, Structure
<1>1. /\ doing = "close" /\ doing' = "none"
      /\ unloading \in loaded /\ unloading' = NoModule
      /\ loaded' = loaded \ {unloading}
      /\ UNCHANGED <<active, pointer, lockOn, connection, alive, loads>>
  BY DEF EraseEntry, connectorVars, data, Phases
<1>2. \A c \in Connectors : (Working(c)' <=> Working(c)) /\ (Gone(c)' => Gone(c))
  BY <1>1 DEF Working, Gone, TypeLoader
<1>3. Phases' /\ Counted' /\ Blank'
  BY <1>1, <1>2 DEF Phases, Counted, Blank, TypeLoader
<1>4. OwnObjects' /\ NotNewer' /\ LocksFollow' /\ LockGuardsObject'
  BY <1>1, <1>2 DEF OwnObjects, Object, NotNewer, LocksFollow, LockGuardsObject, Connectors
<1>5. AliveNow' /\ OutputKnows'
  BY <1>1 DEF AliveNow, Object, OutputKnows, TypeLoader
<1>6. LaterLeft'
  <2>1. \A i \in Inputs : pointer[i] # NoObject => Owner[pointer[i][1]] \in Modules
    BY PointerShape DEF Connectors
  <2> QED
    BY <1>1, <2>1 DEF LaterLeft
<1> QED
  BY <1>3, <1>4, <1>5, <1>6

(* A step that ends the process leaves everything as it is.                *)
LEMMA EndFrame == ASSUME NEW how, End(how) PROVE UNCHANGED <<data, at, cur, inside>>
  BY DEF End

(* A swap touches nothing but the library, or ends the process.            *)
LEMMA SwapFrame ==
    ASSUME SwapStep
    PROVE  \/ UNCHANGED <<connectorVars, loaded, loads, unloading, doing>>
           \/ \E how \in {"exit", "crash"} : End(how) /\ UNCHANGED loaderVars
  BY DEF SwapStep, SwapClose, SwapReopen, SwapEnds, Exit

LEMMA StructureStep == Types /\ Structure /\ [Next]_vars => Structure'
<1> SUFFICES ASSUME Types, Structure, [Next]_vars PROVE Structure'
  OBVIOUS
<1>1. ASSUME UNCHANGED <<pointer, lockOn, alive, loaded, loads, unloading, doing, active, connection>>
      PROVE  Structure'
  BY <1>1, StructureFrame
<1>2. ASSUME NEW how, End(how), UNCHANGED loaderVars PROVE Structure'
  BY <1>1, <1>2 DEF End, data, loaderVars
<1>3. ASSUME NEW m \in Modules, Load(m) PROVE Structure'
  <2>1. CASE m \in loaded
    BY <1>2, <1>3, <2>1 DEF Load, Exit
  <2> QED
    BY <1>3, <2>1, StructureLoad
<1>4. ASSUME NEW m \in Modules, Connect(m) PROVE Structure'
  BY <1>2, <1>4, StructureConnect DEF Exit
<1>5. ASSUME NEW m \in Modules, Unload(m) PROVE Structure'
  BY <1>5, StructureUnload
<1>6. ASSUME SwapStep PROVE Structure'
  <2>1. \/ UNCHANGED <<connectorVars, loaded, loads, unloading, doing>>
        \/ \E how \in {"exit", "crash"} : End(how) /\ UNCHANGED loaderVars
    BY <1>6, SwapFrame
  <2> QED
    BY <1>1, <1>2, <2>1 DEF connectorVars, data
<1>7. ASSUME Destroy, ended = "no" PROVE Structure'
  <2>1. CASE ended' = ended
    BY <1>7, <2>1, StructureDestroy
  <2>2. CASE ended' # ended
    BY <1>2, <1>7, <2>2 DEF Destroy
  <2> QED
    BY <2>1, <2>2
<1>8. ASSUME Close PROVE Structure'
  BY <1>2, <1>8, StructureClose DEF Close
<1>9. ASSUME NEW m \in Modules, ModuleStep(m) PROVE Structure'
  <2>1. BusyLoaded
    BY DEF Types
  <2>2. /\ m \in loaded \ {unloading}
        /\ UNCHANGED <<pointer, lockOn, alive, loaderVars>>
        /\ \/ UNCHANGED <<active, connection>>
           \/ \E c \in Of(m) : ~active[c] /\ CanActivate(c) /\ Activate(c)
    BY <1>9, <2>1, ModuleFrame
  <2>3. UNCHANGED <<pointer, lockOn, alive, loaded, loads, unloading, doing>>
    BY <2>2 DEF loaderVars
  <2>4. \A c \in Of(m) : c \in Connectors /\ Working(c)
    BY <2>2 DEF Of, Working
  <2> QED
    BY <2>2, <2>3, <2>4, StructureFrame
<1>10. ASSUME vars' = vars PROVE Structure'
  BY <1>1, <1>10 DEF vars, connectorVars, data, loaderVars
<1> QED
  BY <1>3, <1>4, <1>5, <1>6, <1>7, <1>8, <1>9, <1>10 DEF Next, LoaderStep

------------------------------------------------------------------------------
(* The steps of the loader, in one word, and what they leave alone.        *)
LEMMA LoaderFrame == LoaderStep => UNCHANGED <<at, cur, inside>>
<1>1. ASSUME Exit PROVE UNCHANGED <<at, cur, inside>>
  BY <1>1 DEF Exit, End
<1>2. ASSUME NEW m \in Modules, Load(m) \/ Connect(m) PROVE UNCHANGED <<at, cur, inside>>
  BY <1>1, <1>2 DEF Load, Connect
<1>3. ASSUME NEW m \in Modules, Unload(m) PROVE UNCHANGED <<at, cur, inside>>
  BY <1>1, <1>3 DEF Unload
<1>4. ASSUME Destroy \/ Close PROVE UNCHANGED <<at, cur, inside>>
  BY <1>4 DEF Destroy, Close, EraseEntry, End, connectorVars
<1> QED
  BY <1>2, <1>3, <1>4 DEF LoaderStep

LEMMA TypesInit == Init => Types
<1> SUFFICES ASSUME Init PROVE Types
  OBVIOUS
<1> USE ConnectorAssumption, LoaderAssumption DEF Init, ConnectorInit
<1>1. TypeConnectors /\ TypeFlags
  BY DEF TypeConnectors, TypeFlags, MaybeObject
<1>2. TypeModules /\ TypeLoader
  BY DEF TypeModules, TypeLoader
<1>3. BusyLoaded
  BY DEF BusyLoaded, Busy
<1> QED
  BY <1>1, <1>2, <1>3 DEF Types

(* What each statement of a module does to the variables of the modules.   *)
LEMMA TypesModule ==
    ASSUME Types, NEW m \in Modules, ModuleStep(m), ended = "no"
    PROVE  TypeFlags' /\ TypeModules' /\ BusyLoaded'
<1> USE ConnectorAssumption, LoaderAssumption DEF Types
<1>1. m \in loaded \ {unloading} /\ UNCHANGED <<loaded, unloading>>
  BY DEF ModuleStep, loaderVars
<1>2. ASSUME NEW how \in {"exit", "throw", "crash"}, End(how)
      PROVE  TypeFlags' /\ TypeModules' /\ BusyLoaded'
  BY <1>1, <1>2 DEF End, data, TypeFlags, TypeModules, BusyLoaded, Busy
<1>3. ASSUME NEW c \in Of(m), MayCall(m, c),
             NEW label \in {"write", "read", "access", "sendLock", "receiveLock"}, Call(m, c, label)
      PROVE  TypeModules' /\ BusyLoaded'
  BY <1>1, <1>3 DEF Call, Goto, Of, TypeModules, BusyLoaded, Busy
<1>4. ASSUME NEW c \in Connectors, Activate(c) PROVE active' \in [Connectors -> BOOLEAN]
  BY <1>4 DEF Activate, TypeFlags
<1>5. ASSUME NEW c \in Of(m), Send(m, c)
      PROVE  TypeFlags' /\ TypeModules' /\ BusyLoaded'
  BY <1>3, <1>5 DEF Send, TypeFlags, data
<1>6. ASSUME NEW c \in Of(m), Receive(m, c)
      PROVE  TypeFlags' /\ TypeModules' /\ BusyLoaded'
  <2>1. CASE UNCHANGED connectorVars
    BY <1>1, <2>1 DEF connectorVars, data, TypeFlags, TypeModules, BusyLoaded, Busy
  <2>2. CASE UNCHANGED data /\ Call(m, c, IF locked[c] THEN "read" ELSE "receiveLock")
    BY <1>3, <1>6, <2>2 DEF Receive, data, TypeFlags
  <2>3. CASE Activate(c) /\ UNCHANGED <<owns, locked>>
             /\ Call(m, c, IF locked[c] THEN "read" ELSE "receiveLock")
    BY <1>3, <1>4, <1>6, <2>3 DEF Receive, TypeFlags, Of
  <2> QED
    BY <1>6, <2>1, <2>2, <2>3 DEF Receive
<1>7. ASSUME NEW c \in Of(m), LockConnection(m, c)
      PROVE  TypeFlags' /\ TypeModules' /\ BusyLoaded'
  BY <1>1, <1>7 DEF LockConnection, MayCall, Goto, data, Of, TypeFlags, TypeModules, BusyLoaded, Busy
<1>8. ASSUME NEW c \in Of(m), Misuse(m, c)
      PROVE  TypeFlags' /\ TypeModules' /\ BusyLoaded'
  BY <1>2, <1>8 DEF Misuse
<1>9. ASSUME NEW c \in Of(m), Access(m, c)
      PROVE  TypeFlags' /\ TypeModules' /\ BusyLoaded'
  <2>1. CASE End("crash")
    BY <1>2, <2>1
  <2>2. CASE Call(m, c, "access") /\ UNCHANGED <<owns, locked>>
             /\ (Activate(c) \/ UNCHANGED active)
    BY <1>3, <1>4, <1>9, <2>2 DEF Access, TypeFlags, Of
  <2> QED
    BY <1>9, <2>1, <2>2 DEF Access, data
<1>10. ASSUME NEW c \in Of(m), UnlockConnection(m, c)
       PROVE  TypeFlags' /\ TypeModules' /\ BusyLoaded'
  <2>1. CASE End("throw")
    BY <1>2, <2>1
  <2>2. CASE ~End("throw")
    <3>1. /\ owns' = [owns EXCEPT ![c] = @ /\ ~active[c]]
          /\ locked' = [locked EXCEPT ![c] = @ /\ ~active[c]]
          /\ inside' = inside \ {c}
          /\ UNCHANGED <<active, at, cur, ended>>
      BY <1>10, <2>2 DEF UnlockConnection
    <3>2. TypeFlags'
      BY <3>1 DEF TypeFlags, Of
    <3>3. TypeModules' /\ BusyLoaded'
      BY <1>1, <3>1 DEF TypeModules, BusyLoaded, Busy
    <3> QED
      BY <3>2, <3>3
  <2> QED
    BY <2>1, <2>2
<1>11. ASSUME Lock(m) PROVE TypeFlags' /\ TypeModules' /\ BusyLoaded'
  <2>1. CASE End("throw") \/ End("crash")
    BY <1>2, <2>1
  <2>2. CASE ~(End("throw") \/ End("crash"))
    <3>1. AfterLock[at[m]] = IF at[m] = "sendLock" THEN "write"
                             ELSE IF at[m] = "receiveLock" THEN "read" ELSE "idle"
      BY <1>11 DEF Lock, AfterLock
    <3>2. cur[m] \in Of(m) /\ cur[m] \in Connectors
      BY <1>11 DEF Lock, BusyLoaded, AfterLock, Of
    <3>3. /\ owns' = [owns EXCEPT ![cur[m]] = TRUE]
          /\ locked' = [locked EXCEPT ![cur[m]] = @ \/ at[m] = "lock"]
          /\ at' = [at EXCEPT ![m] = AfterLock[at[m]]]
          /\ cur' = [cur EXCEPT ![m] = IF at[m] = "lock" THEN NoConnector ELSE cur[m]]
          /\ at[m] \in {"sendLock", "receiveLock", "lock"}
          /\ UNCHANGED <<active, inside, ended>>
      BY <1>11, <2>2 DEF Lock, Goto, AfterLock
    <3>4. TypeFlags'
      BY <3>2, <3>3 DEF TypeFlags
    <3>5. TypeModules'
      BY <3>1, <3>2, <3>3 DEF TypeModules
    <3>6. at'[m] # "idle" => cur'[m] \in Of(m)
      BY <3>1, <3>2, <3>3 DEF TypeModules
    <3>7. \A n \in Modules : Busy(n)' => Busy(n)
      BY <3>3 DEF Busy, TypeModules
    <3>8. \A n \in Modules \ {m} : at'[n] = at[n] /\ cur'[n] = cur[n]
      BY <3>3 DEF TypeModules
    <3> QED
      BY <1>1, <3>4, <3>5, <3>6, <3>7, <3>8 DEF BusyLoaded, Of
  <2> QED
    BY <2>1, <2>2
<1>12. ASSUME Return(m) PROVE TypeModules' /\ BusyLoaded'
  BY <1>1, <1>12 DEF Return, Goto, TypeModules, BusyLoaded, Busy
<1>13. ASSUME Done(m) PROVE TypeFlags' /\ TypeModules' /\ BusyLoaded'
  BY <1>2, <1>12, <1>13 DEF Done, TypeFlags, data
<1>14. ASSUME Executes(m) PROVE TypeFlags' /\ TypeModules' /\ BusyLoaded'
  BY <1>5, <1>6, <1>7, <1>8, <1>9, <1>10, <1>11, <1>13, <1>14 DEF Executes
<1> QED
  BY <1>2, <1>14 DEF ModuleStep

(* The steps of the loader.                                                *)
LEMMA TypesLoader ==
    ASSUME Types, Structure, LoaderStep, ended = "no"
    PROVE  Types'
<1> USE ConnectorAssumption, LoaderAssumption DEF Types, Structure
<1>1. ASSUME UNCHANGED <<loaded, unloading>> PROVE BusyLoaded'
  BY <1>1, LoaderFrame DEF BusyLoaded, Busy
<1>2. ASSUME ended' \in {"no", "exit", "throw", "crash"} PROVE TypeModules'
  BY <1>2, LoaderFrame DEF TypeModules
<1>3. ASSUME NEW how \in {"exit", "crash"}, End(how), UNCHANGED loaderVars PROVE Types'
  BY <1>1, <1>2, <1>3 DEF End, data, loaderVars, TypeConnectors, TypeFlags, TypeLoader
<1>4. ASSUME NEW m \in Modules, Load(m) PROVE Types'
  <2>1. CASE m \in loaded
    BY <1>3, <1>4, <2>1 DEF Load, Exit
  <2>2. CASE m \notin loaded
    <3> DEFINE new(c) == <<c, loads[m] + 1>>
               fresh(c) == IF c \in Outputs THEN new(c) ELSE NoObject
    <3>1. /\ loads[m] < MaxLoads
          /\ loads' = [loads EXCEPT ![m] = @ + 1]
          /\ loaded' = loaded \union {m}
          /\ UNCHANGED <<ended, unloading, doing, swapping>>
      BY <1>4, <2>2 DEF Load, Exit
    <3>2. /\ pointer' = [c \in Connectors |-> IF Owner[c] = m THEN fresh(c) ELSE pointer[c]]
          /\ lockOn' = [c \in Connectors |-> IF Owner[c] = m THEN fresh(c) ELSE lockOn[c]]
          /\ connection' = [c \in Connectors |-> IF Owner[c] = m THEN fresh(c) ELSE connection[c]]
          /\ alive' = alive \union {new(o) : o \in Outputs \intersect Of(m)}
      BY <1>4, <2>2 DEF Load, Exit
    <3>3. /\ active' = [c \in Connectors |-> IF Owner[c] = m THEN FALSE ELSE active[c]]
          /\ owns' = [c \in Connectors |-> IF Owner[c] = m THEN FALSE ELSE owns[c]]
          /\ locked' = [c \in Connectors |-> IF Owner[c] = m THEN FALSE ELSE locked[c]]
      BY <1>4, <2>2 DEF Load, Exit
    <3>4. loads[m] + 1 \in 1 .. MaxLoads
      BY <3>1 DEF TypeLoader
    <3>5. \A c \in Connectors : fresh(c) \in MaybeObject /\ (c \in Outputs => new(c) \in Objects)
      BY <3>4 DEF MaybeObject, Objects
    <3> HIDE DEF fresh, new
    <3>6. TypeConnectors'
      BY <3>2, <3>5 DEF TypeConnectors, Connectors
    <3>7. TypeFlags'
      BY <3>3 DEF TypeFlags
    <3>8. TypeModules' /\ TypeLoader'
      BY <1>2, <3>1, <3>4 DEF TypeModules, TypeLoader
    <3>9. BusyLoaded'
      BY <3>1, LoaderFrame DEF BusyLoaded, Busy
    <3> QED
      BY <3>6, <3>7, <3>8, <3>9
  <2> QED
    BY <2>1, <2>2
<1>5. ASSUME NEW m \in Modules, Connect(m) PROVE Types'
  <2>1. CASE Exit
    BY <1>3, <2>1 DEF Exit
  <2>2. CASE ~Exit
    <3>1. /\ UNCHANGED <<locked, connection, alive, ended, loaded, loads, unloading, doing, swapping>>
          /\ \A i \in Wishes(m) : ~ConnectError(i)
          /\ lockOn' = [c \in Connectors |-> IF c \in Wishes(m) THEN Object(Wish[c]) ELSE lockOn[c]]
          /\ pointer' = [c \in Connectors |-> IF c \in Wishes(m) THEN pointer[Wish[c]] ELSE pointer[c]]
          /\ owns' = [c \in Connectors |-> owns[c] /\ c \notin Wishes(m)]
          /\ active' = [c \in Connectors |-> active[c] \/ \E i \in Wishes(m) : Wish[i] = c]
      BY <1>5, <2>2 DEF Connect, ConnectInputs, loaderVars
    <3>2. \A i \in Wishes(m) : Wish[i] \in Outputs /\ Owner[Wish[i]] \in loaded
      BY <3>1 DEF Wishes, ConnectError
    <3>3. \A i \in Wishes(m) : Object(Wish[i]) \in MaybeObject /\ pointer[Wish[i]] \in MaybeObject
      BY <3>2, ObjectExists DEF MaybeObject, TypeConnectors, Connectors
    <3>4. TypeConnectors'
      BY <3>1, <3>3 DEF TypeConnectors
    <3>5. TypeFlags'
      BY <3>1 DEF TypeFlags
    <3> QED
      BY <1>1, <1>2, <3>1, <3>4, <3>5 DEF TypeModules, TypeLoader
  <2> QED
    BY <2>1, <2>2
<1>6. ASSUME NEW m \in Modules, Unload(m) PROVE Types'
  <2>1. /\ unloading' = m /\ doing' = "destroy" /\ m \in loaded /\ ~Busy(m)
        /\ UNCHANGED <<lockOn, owns, locked, connection, alive, ended, loaded, loads, swapping>>
        /\ active' = [c \in Connectors |-> active[c] /\ c \notin Cut(m) \union Unread(m)]
        /\ pointer' = [c \in Connectors |-> IF c \in Cut(m) THEN NoObject ELSE pointer[c]]
    BY <1>6 DEF Unload, Disconnect
  <2>2. TypeConnectors' /\ TypeFlags'
    BY <2>1 DEF TypeConnectors, TypeFlags, MaybeObject
  <2>3. TypeModules' /\ TypeLoader'
    BY <1>2, <2>1 DEF TypeModules, TypeLoader
  <2>4. BusyLoaded'
    BY <2>1, LoaderFrame DEF BusyLoaded, Busy
  <2> QED
    BY <2>2, <2>3, <2>4
<1>8. ASSUME Destroy PROVE Types'
  <2>1. CASE End("crash") /\ UNCHANGED loaderVars
    BY <1>3, <2>1
  <2>2. CASE ~(End("crash") /\ UNCHANGED loaderVars)
    <3>1. /\ doing' = "close" /\ UNCHANGED <<ended, loaded, loads, unloading, swapping>>
          /\ active' = [c \in Connectors |-> IF Owner[c] = unloading THEN FALSE ELSE active[c]]
          /\ owns' = [c \in Connectors |-> IF Owner[c] = unloading THEN FALSE ELSE owns[c]]
          /\ locked' = [c \in Connectors |-> IF Owner[c] = unloading THEN FALSE ELSE locked[c]]
          /\ pointer' = [c \in Connectors |-> IF Owner[c] = unloading THEN NoObject ELSE pointer[c]]
          /\ lockOn' = [c \in Connectors |-> IF Owner[c] = unloading THEN NoObject ELSE lockOn[c]]
          /\ connection' = [c \in Connectors |-> IF Owner[c] = unloading THEN NoObject ELSE connection[c]]
          /\ alive' = {x \in alive : Owner[x[1]] # unloading}
      BY <1>8, <2>2 DEF Destroy
    <3>2. TypeConnectors' /\ TypeFlags'
      BY <3>1 DEF TypeConnectors, TypeFlags, MaybeObject
    <3> QED
      BY <1>1, <1>2, <3>1, <3>2 DEF TypeModules, TypeLoader
  <2> QED
    BY <2>1, <2>2
<1>9. ASSUME EraseEntry PROVE Types'
  <2>1. /\ unloading' = NoModule /\ doing' = "none" /\ loaded' = loaded \ {unloading}
        /\ UNCHANGED <<pointer, lockOn, connection, alive, active, owns, locked, ended, loads, swapping>>
    BY <1>9 DEF EraseEntry, connectorVars, data
  <2>2. TypeConnectors' /\ TypeFlags' /\ TypeModules' /\ TypeLoader'
    BY <1>2, <2>1 DEF TypeConnectors, TypeFlags, TypeModules, TypeLoader
  <2>3. BusyLoaded'
    BY <2>1, LoaderFrame DEF BusyLoaded, Busy, TypeLoader
  <2> QED
    BY <2>2, <2>3
<1>10. ASSUME Close PROVE Types'
  BY <1>3, <1>9, <1>10 DEF Close
<1> QED
  BY <1>4, <1>5, <1>6, <1>8, <1>9, <1>10 DEF LoaderStep

(* The steps of a swap.                                                    *)
LEMMA TypesSwap ==
    ASSUME Types, SwapStep, ended = "no"
    PROVE  Types'
<1>1. swapping' \in Modules \union {NoModule}
  BY DEF SwapStep, SwapClose, SwapReopen, SwapEnds, Exit, loaderVars, Types, TypeLoader
<1>2. /\ UNCHANGED <<data, at, cur, inside, loaded, loads, unloading, doing>>
      /\ ended' \in {"no", "exit", "crash"}
  BY SwapFrame DEF End, connectorVars, loaderVars
<1> QED
  BY <1>1, <1>2 DEF data, Types, TypeConnectors, TypeFlags, TypeModules, TypeLoader, BusyLoaded, Busy

LEMMA TypesStep == Types /\ Structure /\ [Next]_vars => Types'
<1> SUFFICES ASSUME Types, Structure, [Next]_vars PROVE Types'
  OBVIOUS
<1>1. ASSUME LoaderStep, ended = "no" PROVE Types'
  BY <1>1, TypesLoader
<1>2. ASSUME NEW m \in Modules, ModuleStep(m), ended = "no" PROVE Types'
  <2>1. TypeFlags' /\ TypeModules' /\ BusyLoaded'
    BY <1>2, TypesModule
  <2>2. BusyLoaded
    BY DEF Types
  <2>3. /\ UNCHANGED <<pointer, lockOn, alive, loaderVars>>
        /\ \/ UNCHANGED connection
           \/ \E c \in Of(m) : Activate(c)
    BY <1>2, <2>2, ModuleFrame
  <2>4. TypeLoader'
    BY <2>3 DEF loaderVars, Types, TypeLoader
  <2>5. TypeConnectors'
    BY <2>3 DEF Activate, Types, TypeConnectors, Of
  <2> QED
    BY <2>1, <2>4, <2>5 DEF Types
<1>3. ASSUME vars' = vars PROVE Types'
  BY <1>3 DEF vars, connectorVars, data, loaderVars, Types, TypeConnectors, TypeFlags,
     TypeModules, TypeLoader, BusyLoaded, Busy
<1> QED
  BY <1>1, <1>2, <1>3, TypesSwap DEF Next

LEMMA StructureInvariant == Spec => [](Types /\ Structure)
  BY TypesInit, StructureInit, TypesStep, StructureStep, PTL DEF Spec

------------------------------------------------------------------------------
(* dlopen's count of a library is the number of its modules, less one      *)
(* while one of them is swapped (loader.cc:83, 110-111, 232-233).          *)
Users(l) == {m \in loaded : LibraryOf[m] = l}
Missing(l) == IF swapping # NoModule /\ LibraryOf[swapping] = l THEN 1 ELSE 0
HandlesExact == \A l \in Libraries : handles[l] + Missing(l) = Cardinality(Users(l))

LEMMA UsersFinite == ASSUME TypeLoader, NEW l PROVE IsFiniteSet(Users(l))
  BY LoaderAssumption, FS_Subset DEF Users, TypeLoader

LEMMA HandlesInit == Init => TypeHandles /\ HandlesExact
<1> SUFFICES ASSUME Init PROVE TypeHandles /\ HandlesExact
  OBVIOUS
<1>1. \A l : Users(l) = {} /\ Missing(l) = 0
  BY DEF Init, Users, Missing
<1> QED
  BY <1>1, FS_EmptySet DEF Init, TypeHandles, HandlesExact

LEMMA HandlesStep ==
    Types /\ Structure /\ TypeHandles /\ HandlesExact /\ [Next]_vars
        => TypeHandles' /\ HandlesExact'
<1> SUFFICES ASSUME Types, Structure, TypeHandles, HandlesExact, [Next]_vars
             PROVE  TypeHandles' /\ HandlesExact'
  OBVIOUS
<1> USE LoaderAssumption
<1>0. TypeLoader /\ Phases /\ \A l \in Libraries : handles[l] + Missing(l) = Cardinality(Users(l))
  BY DEF Types, Structure, HandlesExact
<1>1. ASSUME UNCHANGED <<loaded, handles, swapping>> PROVE TypeHandles' /\ HandlesExact'
  BY <1>1 DEF TypeHandles, HandlesExact, Users, Missing
<1>2. ASSUME NEW m \in Modules, Load(m) PROVE TypeHandles' /\ HandlesExact'
  <2>1. CASE m \in loaded
    BY <1>1, <1>2, <2>1 DEF Load, Exit, loaderVars
  <2>2. CASE m \notin loaded
    <3>1. /\ handles' = [handles EXCEPT ![LibraryOf[m]] = @ + 1]
          /\ loaded' = loaded \union {m}
          /\ \A l : Missing(l) = 0 /\ Missing(l)' = 0
      BY <1>2, <2>2 DEF Load, Exit, Missing
    <3>2. TypeHandles'
      BY <3>1 DEF TypeHandles
    <3>3. ASSUME NEW l \in Libraries PROVE handles'[l] = Cardinality(Users(l)')
      <4>0. handles[l] = Cardinality(Users(l)) /\ handles[l] \in Nat
        BY <1>0, <3>1 DEF TypeHandles
      <4>1. CASE l = LibraryOf[m]
        <5>1. Users(l)' = Users(l) \union {m} /\ m \notin Users(l)
          BY <2>2, <3>1, <4>1 DEF Users
        <5>2. Cardinality(Users(l)') = Cardinality(Users(l)) + 1
          BY <1>0, <5>1, UsersFinite, FS_AddElement
        <5> QED
          BY <3>1, <4>0, <4>1, <5>2 DEF TypeHandles
      <4>2. CASE l # LibraryOf[m]
        <5>1. Users(l)' = Users(l)
          BY <3>1, <4>2 DEF Users
        <5> QED
          BY <3>1, <4>0, <4>2, <5>1 DEF TypeHandles
      <4> QED
        BY <4>1, <4>2
    <3>4. \A l \in Libraries : handles'[l] \in Nat
      BY <3>2 DEF TypeHandles
    <3> QED
      BY <3>1, <3>2, <3>3, <3>4 DEF HandlesExact
  <2> QED
    BY <2>1, <2>2
<1>3. ASSUME Close PROVE TypeHandles' /\ HandlesExact'
  <2> DEFINE u == unloading
  <2>1. u \in loaded /\ u \in Modules
    BY <1>0, <1>3 DEF Close, Phases, TypeLoader
  <2>2. CASE handles[LibraryOf[u]] = 0
    BY <1>1, <1>3, <2>2 DEF Close, loaderVars
  <2>3. CASE handles[LibraryOf[u]] # 0
    <3>1. /\ loaded' = loaded \ {u}
          /\ handles' = [handles EXCEPT ![LibraryOf[u]] = @ - 1]
          /\ \A l : Missing(l)' = Missing(l)
      BY <1>3, <2>3 DEF Close, CloseLibrary, EraseEntry, Missing
    <3> HIDE DEF u
    <3>2. ASSUME NEW l \in Libraries
          PROVE  handles'[l] + Missing(l)' = Cardinality(Users(l)') /\ handles'[l] \in Nat
      <4>1. handles[l] \in Nat /\ Missing(l) \in {0, 1} /\ Missing(l)' = Missing(l)
            /\ handles[l] + Missing(l) = Cardinality(Users(l))
        BY <1>0, <3>1 DEF TypeHandles, Missing
      <4>2. CASE l = LibraryOf[u]
        <5>1. Users(l)' = Users(l) \ {u} /\ u \in Users(l)
          BY <2>1, <3>1, <4>2 DEF Users
        <5>2. Cardinality(Users(l) \ {u}) = Cardinality(Users(l)) - 1
          BY <1>0, <5>1, UsersFinite, FS_RemoveElement
        <5>3. handles'[l] = handles[l] - 1 /\ handles[l] # 0
          BY <2>3, <3>1, <4>2 DEF TypeHandles
        <5> QED
          BY <4>1, <5>1, <5>2, <5>3
      <4>3. CASE l # LibraryOf[u]
        <5>1. Users(l)' = Users(l)
          BY <3>1, <4>3 DEF Users
        <5>2. handles'[l] = handles[l]
          BY <3>1, <4>3 DEF TypeHandles
        <5> QED
          BY <4>1, <5>1, <5>2
      <4> QED
        BY <4>2, <4>3
    <3>3. TypeHandles'
      BY <3>1, <3>2 DEF TypeHandles
    <3> QED
      BY <3>2, <3>3 DEF HandlesExact
  <2> QED
    BY <2>2, <2>3
<1>4. ASSUME NEW m \in Modules, SwapClose(m) PROVE TypeHandles' /\ HandlesExact'
  <2>1. /\ m \in loaded /\ swapping = NoModule /\ swapping' = m /\ m # NoModule
        /\ handles' = [handles EXCEPT ![LibraryOf[m]] = @ - 1]
        /\ \A l : Users(l)' = Users(l)
    BY <1>4 DEF SwapClose, CloseLibrary, Users
  <2>2. ASSUME NEW l \in Libraries
        PROVE  handles'[l] + Missing(l)' = Cardinality(Users(l)) /\ handles'[l] \in Nat
    <3>1. handles[l] \in Nat /\ handles[l] = Cardinality(Users(l))
      BY <1>0, <2>1 DEF TypeHandles, Missing
    <3>2. CASE l = LibraryOf[m]
      <4>1. m \in Users(l)
        BY <2>1, <3>2 DEF Users
      <4>2. Cardinality(Users(l)) # 0
        BY <1>0, <4>1, UsersFinite, FS_EmptySet
      <4>3. handles'[l] = handles[l] - 1 /\ Missing(l)' = 1
        BY <2>1, <3>2 DEF TypeHandles, Missing
      <4> QED
        BY <3>1, <4>2, <4>3
    <3>3. CASE l # LibraryOf[m]
      <4>1. handles'[l] = handles[l] /\ Missing(l)' = 0
        BY <2>1, <3>3 DEF TypeHandles, Missing
      <4> QED
        BY <3>1, <4>1
    <3> QED
      BY <3>2, <3>3
  <2>3. TypeHandles'
    BY <2>1, <2>2 DEF TypeHandles
  <2> QED
    BY <2>1, <2>2, <2>3 DEF HandlesExact
<1>5. ASSUME SwapReopen PROVE TypeHandles' /\ HandlesExact'
  <2>1. CASE UNCHANGED loaderVars
    BY <1>1, <2>1 DEF loaderVars
  <2>2. CASE ~UNCHANGED loaderVars
    <3> DEFINE u == swapping
    <3>1. /\ u \in Modules /\ u # NoModule /\ swapping' = NoModule
          /\ handles' = [handles EXCEPT ![LibraryOf[u]] = @ + 1]
          /\ \A l : Users(l)' = Users(l)
      BY <1>0, <1>5, <2>2 DEF SwapReopen, SwapEnds, Exit, TypeLoader, Users
    <3>2. ASSUME NEW l \in Libraries
          PROVE  handles'[l] + Missing(l)' = Cardinality(Users(l)) /\ handles'[l] \in Nat
      <4>1. handles[l] \in Nat /\ Missing(l)' = 0 /\ handles[l] + Missing(l) = Cardinality(Users(l))
        BY <1>0, <3>1 DEF TypeHandles, Missing
      <4>2. CASE l = LibraryOf[u]
        <5>1. handles'[l] = handles[l] + 1 /\ Missing(l) = 1
          BY <3>1, <4>2 DEF TypeHandles, Missing
        <5> QED
          BY <4>1, <5>1
      <4>3. CASE l # LibraryOf[u]
        <5>1. handles'[l] = handles[l] /\ Missing(l) = 0
          BY <3>1, <4>3 DEF TypeHandles, Missing
        <5> QED
          BY <4>1, <5>1
      <4> QED
        BY <4>2, <4>3
    <3>3. TypeHandles'
      BY <3>1, <3>2 DEF TypeHandles
    <3> QED
      BY <3>1, <3>2, <3>3 DEF HandlesExact
  <2> QED
    BY <2>1, <2>2
<1>6. ASSUME NEW m \in Modules, Connect(m) \/ Unload(m) PROVE TypeHandles' /\ HandlesExact'
  BY <1>1, <1>6 DEF Connect, Unload, Exit, loaderVars
<1>7. ASSUME Destroy PROVE TypeHandles' /\ HandlesExact'
  BY <1>1, <1>7 DEF Destroy, loaderVars
<1>8. ASSUME NEW m \in Modules, ModuleStep(m) PROVE TypeHandles' /\ HandlesExact'
  BY <1>1, <1>8 DEF ModuleStep, loaderVars
<1>9. ASSUME vars' = vars PROVE TypeHandles' /\ HandlesExact'
  BY <1>1, <1>9 DEF vars, loaderVars
<1> QED
  BY <1>2, <1>3, <1>4, <1>5, <1>6, <1>7, <1>8, <1>9 DEF Next, LoaderStep, SwapStep

LEMMA LoaderInvariant == Spec => [](Types /\ Structure /\ TypeHandles /\ HandlesExact)
  BY StructureInvariant, HandlesInit, HandlesStep, PTL DEF Spec

------------------------------------------------------------------------------
(* The loader takes no lock.                                               *)
LEMMA LoaderLocks ==
    ASSUME Types, NEW c \in Connectors, LoaderStep
    PROVE  (owns'[c] => owns[c]) /\ (locked'[c] => locked[c])
<1>1. ASSUME Exit PROVE UNCHANGED <<owns, locked>>
  BY <1>1 DEF Exit, End, data
<1>2. ASSUME NEW m \in Modules, Load(m)
      PROVE  (owns'[c] => owns[c]) /\ (locked'[c] => locked[c])
  BY <1>1, <1>2 DEF Load
<1>3. ASSUME NEW m \in Modules, Connect(m)
      PROVE  (owns'[c] => owns[c]) /\ (locked'[c] => locked[c])
  BY <1>1, <1>3 DEF Connect, ConnectInputs
<1>4. ASSUME NEW m \in Modules, Unload(m) PROVE UNCHANGED <<owns, locked>>
  BY <1>1, <1>4 DEF Unload
<1>5. ASSUME Destroy \/ Close PROVE (owns'[c] => owns[c]) /\ (locked'[c] => locked[c])
  BY <1>5 DEF Destroy, Close, EraseEntry, End, connectorVars, data
<1> QED
  BY <1>2, <1>3, <1>4, <1>5 DEF LoaderStep

(* While nobody executes, the loader finds every lock free and takes none. *)
LEMMA LockingLoader ==
    ASSUME Types, Locking, \A m \in Modules : ~Busy(m), LoaderStep
    PROVE  Locking'
<1>1. \A m \in Modules : at[m] = "idle" /\ at'[m] = "idle" /\ Of(m) \intersect inside' = {}
                        /\ Of(m) \intersect inside = {}
  BY LoaderFrame DEF Busy
<1>2. \A c \in Connectors : ~owns'[c] /\ ~locked'[c]
  <2> SUFFICES ASSUME NEW c \in Connectors PROVE ~owns'[c] /\ ~locked'[c]
    OBVIOUS
  <2>1. Owner[c] \in Modules /\ c \in Of(Owner[c])
    BY ConnectorAssumption DEF Of
  <2>2. ~owns[c] /\ ~locked[c]
    BY <1>1, <2>1 DEF Locking, Disciplined, OwnsInUse, LockedInside
  <2> QED
    BY <2>2, LoaderLocks
<1>3. OneOwner'
  BY <1>2 DEF OneOwner
<1>4. ASSUME NEW m \in Modules PROVE Disciplined(m)'
  BY <1>1, <1>2 DEF Disciplined, OwnsInUse, LockedInside, InsideLocked, Established, Of
<1> QED
  BY <1>3, <1>4 DEF Locking

LEMMA LockingInit == Init => Locking
<1> SUFFICES ASSUME Init PROVE Locking
  OBVIOUS
<1> USE DEF Init, ConnectorInit
<1>1. OneOwner
  BY DEF OneOwner
<1>2. ASSUME NEW m \in Modules PROVE Disciplined(m)
  BY DEF Disciplined, OwnsInUse, LockedInside, InsideLocked, Established, Of
<1> QED
  BY <1>1, <1>2 DEF Locking

(* A step of module m that concerns connector c alone leaves the others'   *)
(* locks as they are.                                                      *)
LEMMA LockingFrame ==
    ASSUME Types, Locking, NEW m \in Modules, NEW c \in Of(m),
           UNCHANGED lockOn,
           \A n \in Modules \ {m} : at'[n] = at[n] /\ cur'[n] = cur[n],
           \A d \in Connectors \ {c} :
               /\ active'[d] = active[d] /\ owns'[d] = owns[d] /\ locked'[d] = locked[d]
               /\ d \in inside' <=> d \in inside,
           owns'[c] => owns[c] \/ ~Held(lockOn[c]),
           Disciplined(m)'
    PROVE  Locking'
<1> USE ConnectorAssumption DEF Types, Locking
<1>1. OneOwner'
  BY DEF OneOwner, Held, Of
<1>2. ASSUME NEW n \in Modules \ {m} PROVE Disciplined(n)'
  <2>1. \A d \in Of(n) :
            /\ active'[d] = active[d] /\ owns'[d] = owns[d] /\ locked'[d] = locked[d]
            /\ d \in inside' <=> d \in inside
    BY DEF Of
  <2>2. OwnsInUse(n)' /\ LockedInside(n)' /\ InsideLocked(n)'
    BY <2>1 DEF Disciplined, OwnsInUse, LockedInside, InsideLocked, Of
  <2>3. Established(n, cur[n])
    BY DEF Disciplined
  <2>4. Established(n, cur[n])'
    <3>1. CASE at[n] = "idle"
      BY <3>1 DEF Established
    <3>2. CASE at[n] # "idle"
      <4>1. cur[n] \in Of(n)
        BY <3>2 DEF BusyLoaded
      <4> QED
        BY <2>1, <2>3, <4>1 DEF Established
    <3> QED
      BY <3>1, <3>2
  <2> QED
    BY <2>2, <2>4 DEF Disciplined
<1> QED
  BY <1>1, <1>2

(* A step of module m that concerns connector c alone leaves what the      *)
(* module has locked on its other connectors as it is, if the module is    *)
(* not in the middle of a call for one of them.                            *)
LEMMA OwnFrame ==
    ASSUME Types, NEW m \in Modules, NEW c \in Of(m), Disciplined(m),
           at[m] = "idle" \/ cur[m] = c,
           at'[m] = "idle" \/ cur'[m] = c,
           \A d \in Connectors \ {c} :
               /\ active'[d] = active[d] /\ owns'[d] = owns[d] /\ locked'[d] = locked[d]
               /\ d \in inside' <=> d \in inside,
           owns'[c] => locked'[c] \/ (cur'[m] = c /\ at'[m] \in {"write", "read"}),
           locked'[c] => owns'[c] /\ active'[c] /\ c \in inside',
           c \in inside' /\ c \in Outputs /\ active'[c] => locked'[c] \/ at'[m] = "lock",
           Established(m, c)' \/ at'[m] = "idle"
    PROVE  Disciplined(m)'
<1> USE DEF Disciplined
<1>1. OwnsInUse(m)'
  BY DEF OwnsInUse, Of
<1>2. LockedInside(m)'
  BY DEF LockedInside, Of
<1>3. InsideLocked(m)'
  BY DEF InsideLocked, Of
<1>4. Established(m, cur[m])'
  BY DEF Established
<1> QED
  BY <1>1, <1>2, <1>3, <1>4

(* An output of a module that executes has its object, so nothing ever     *)
(* activates it.                                                           *)
LEMMA OutputsStay ==
    ASSUME Types, Structure, NEW m \in loaded \ {unloading}, NEW c \in Of(m), CanActivate(c)
    PROVE  c \in Inputs
<1> SUFFICES ASSUME c \in Outputs PROVE FALSE
  BY DEF Of, Connectors
<1>1. Owner[c] \in loaded /\ Working(c)
  BY DEF Working, Of
<1>2. connection[c] = Object(c) /\ Object(c) # NoObject
  BY <1>1, ObjectExists DEF Structure, OwnObjects, Types
<1> QED
  BY <1>2 DEF CanActivate

(* A call of send or receive, up to the lock.                              *)
LEMMA LockingCall ==
    ASSUME Types, Locking, NEW m \in Modules,
           NEW c \in Of(m), MayCall(m, c),
           UNCHANGED <<lockOn, owns, locked>>,
           \/ UNCHANGED active
           \/ c \in Inputs /\ active' = [active EXCEPT ![c] = TRUE],
           NEW label, Call(m, c, label),
           \/ label = "write" /\ c \in Outputs /\ ~MustLock(c) /\ UNCHANGED active
           \/ label = "sendLock" /\ c \in Outputs /\ MustLock(c) /\ UNCHANGED active
           \/ label = "read" /\ c \in Inputs /\ active'[c] /\ locked[c]
           \/ label = "receiveLock" /\ c \in Inputs /\ active'[c] /\ ~locked[c]
    PROVE  Locking'
<1> USE ConnectorAssumption DEF Types
<1>1. c \in Connectors /\ at[m] = "idle" /\ Disciplined(m)
  BY DEF MayCall, Of, Locking
<1>2. /\ at' = [at EXCEPT ![m] = label] /\ cur' = [cur EXCEPT ![m] = c]
      /\ UNCHANGED inside
  BY DEF Call, Goto
<1>3. at'[m] = label /\ cur'[m] = c
  BY <1>2 DEF TypeModules
<1>4. /\ owns[c] => locked[c]
      /\ locked[c] => owns[c] /\ active[c] /\ c \in inside
      /\ c \in inside /\ c \in Outputs /\ active[c] => locked[c]
  BY <1>1 DEF Disciplined, OwnsInUse, LockedInside, InsideLocked
<1>5. /\ active[c] => active'[c]
      /\ c \in Outputs => active'[c] = active[c] /\ c \notin Inputs
      /\ \A d \in Connectors \ {c} : active'[d] = active[d]
  BY <1>1 DEF TypeFlags
<1>6. Established(m, c)'
  BY <1>3, <1>4, <1>5 DEF Established, MustLock
<1>7. Disciplined(m)'
  BY <1>1, <1>2, <1>3, <1>4, <1>5, <1>6, OwnFrame
<1>8. \A n \in Modules \ {m} : at'[n] = at[n] /\ cur'[n] = cur[n]
  BY <1>2 DEF TypeModules
<1> QED
  BY <1>2, <1>5, <1>7, <1>8, LockingFrame

(* lockConnection, operator*, the locks and unlocks.                       *)
LEMMA LockingLockConnection ==
    ASSUME Types, Locking, NEW m \in Modules,
           NEW c \in Of(m), LockConnection(m, c)
    PROVE  Locking'
<1> USE ConnectorAssumption DEF Types
<1>1. /\ c \in Connectors /\ at[m] = "idle" /\ c \notin inside /\ Disciplined(m)
      /\ inside' = inside \union {c}
      /\ UNCHANGED <<active, owns, locked, lockOn>>
  BY DEF LockConnection, MayCall, Of, data, Locking
<1>2. /\ active[c] => at' = [at EXCEPT ![m] = "lock"] /\ cur' = [cur EXCEPT ![m] = c]
      /\ ~active[c] => UNCHANGED <<at, cur>>
  BY DEF LockConnection, Goto
<1>3. /\ active[c] => at'[m] = "lock" /\ cur'[m] = c
      /\ ~active[c] => at'[m] = "idle"
      /\ \A n \in Modules \ {m} : at'[n] = at[n] /\ cur'[n] = cur[n]
  BY <1>1, <1>2 DEF TypeModules
<1>4. ~owns[c] /\ ~locked[c]
  BY <1>1 DEF Disciplined, OwnsInUse, LockedInside
<1>5. Established(m, c)' \/ at'[m] = "idle"
  BY <1>1, <1>3, <1>4 DEF Established
<1>6. Disciplined(m)'
  BY <1>1, <1>3, <1>4, <1>5, OwnFrame
<1> QED
  BY <1>1, <1>3, <1>4, <1>6, LockingFrame

LEMMA LockingAccess ==
    ASSUME Types, Structure, Locking, NEW m \in loaded \ {unloading},
           NEW c \in Of(m), Access(m, c), UNCHANGED ended, ended = "no"
    PROVE  Locking'
<1> USE ConnectorAssumption DEF Types
<1>1. /\ m \in Modules /\ c \in Connectors
      /\ at[m] = "idle" /\ c \in inside /\ Disciplined(m)
  BY DEF Access, MayCall, Of, Locking, TypeLoader
<1>2. /\ UNCHANGED <<owns, locked, lockOn, inside>>
      /\ at' = [at EXCEPT ![m] = "access"] /\ cur' = [cur EXCEPT ![m] = c]
      /\ \/ UNCHANGED active
         \/ CanActivate(c) /\ active' = [active EXCEPT ![c] = TRUE]
  BY DEF Access, Activate, Call, Goto, End, data
<1>3. \/ UNCHANGED active
      \/ c \in Inputs /\ active' = [active EXCEPT ![c] = TRUE]
  BY <1>2, OutputsStay
<1>4. /\ \A d \in Connectors \ {c} : active'[d] = active[d]
      /\ active[c] => active'[c]
      /\ c \in Outputs => active'[c] = active[c]
  BY <1>1, <1>3 DEF TypeFlags
<1>5. /\ at'[m] = "access" /\ cur'[m] = c
      /\ \A n \in Modules \ {m} : at'[n] = at[n] /\ cur'[n] = cur[n]
  BY <1>1, <1>2 DEF TypeModules
<1>6. /\ owns[c] => locked[c]
      /\ locked[c] => owns[c] /\ active[c]
      /\ c \in Outputs /\ active[c] => locked[c]
  BY <1>1 DEF Disciplined, OwnsInUse, LockedInside, InsideLocked
<1>7. Established(m, c)'
  BY <1>1, <1>2, <1>5 DEF Established
<1>8. Disciplined(m)'
  BY <1>1, <1>2, <1>4, <1>5, <1>6, <1>7, OwnFrame
<1> QED
  BY <1>1, <1>2, <1>4, <1>5, <1>8, LockingFrame

LEMMA LockingLock ==
    ASSUME Types, Locking, NEW m \in Modules,
           Lock(m), UNCHANGED ended, ended = "no"
    PROVE  Locking'
<1> USE ConnectorAssumption DEF Types
<1> DEFINE c == cur[m]
<1>1. /\ at[m] \in {"sendLock", "receiveLock", "lock"}
      /\ c \in Of(m) /\ c \in Connectors /\ Disciplined(m)
  BY DEF Lock, AfterLock, BusyLoaded, Of, Locking
<1>2. /\ MayLock(m)
      /\ owns' = [owns EXCEPT ![c] = TRUE]
      /\ locked' = [locked EXCEPT ![c] = @ \/ at[m] = "lock"]
      /\ at' = [at EXCEPT ![m] = AfterLock[at[m]]]
      /\ cur' = [cur EXCEPT ![m] = IF at[m] = "lock" THEN NoConnector ELSE c]
      /\ UNCHANGED <<active, lockOn, inside>>
  BY DEF Lock, End, Goto
<1>3. /\ at[m] = "sendLock" => at'[m] = "write" /\ cur'[m] = c
      /\ at[m] = "receiveLock" => at'[m] = "read" /\ cur'[m] = c
      /\ at[m] = "lock" => at'[m] = "idle"
      /\ \A n \in Modules \ {m} : at'[n] = at[n] /\ cur'[n] = cur[n]
  BY <1>1, <1>2 DEF AfterLock, TypeModules
<1>4. owns'[c] /\ (locked'[c] <=> locked[c] \/ at[m] = "lock")
  BY <1>1, <1>2 DEF TypeFlags
<1>5. \A d \in Connectors \ {c} : owns'[d] = owns[d] /\ locked'[d] = locked[d]
  BY <1>2 DEF TypeFlags
<1>6. ~owns[c] /\ ~locked[c] /\ Established(m, c)
  BY <1>1 DEF Disciplined, LockedInside, Established
<1>7. c \in inside /\ c \in Outputs /\ active[c] => at[m] = "lock"
  BY <1>1, <1>6 DEF Disciplined, InsideLocked
<1>8. Disciplined(m)'
  <2>1. at[m] = "lock" => c \in inside /\ active[c]
    BY <1>6 DEF Established
  <2>2. Established(m, c)' \/ at'[m] = "idle"
    BY <1>1, <1>2, <1>3, <1>4, <1>6 DEF Established
  <2>3. owns'[c] => locked'[c] \/ (cur'[m] = c /\ at'[m] \in {"write", "read"})
    BY <1>1, <1>3, <1>4
  <2>4. locked'[c] => owns'[c] /\ active'[c] /\ c \in inside'
    BY <1>2, <1>4, <1>6, <2>1
  <2>5. c \in inside' /\ c \in Outputs /\ active'[c] => locked'[c]
    BY <1>2, <1>4, <1>7
  <2>6. at'[m] = "idle" \/ cur'[m] = c
    BY <1>1, <1>3
  <2> QED
    BY <1>1, <1>2, <1>5, <2>2, <2>3, <2>4, <2>5, <2>6, OwnFrame
<1>9. ~Held(lockOn[c])
  BY <1>2 DEF MayLock
<1> QED
  BY <1>1, <1>2, <1>3, <1>5, <1>8, <1>9, LockingFrame

LEMMA LockingDone ==
    ASSUME Types, Locking, NEW m \in Modules,
           Done(m), UNCHANGED ended, ended = "no"
    PROVE  Locking'
<1> USE ConnectorAssumption DEF Types
<1> DEFINE c == cur[m]
<1>1. /\ at[m] \in {"write", "read", "access"}
      /\ c \in Of(m) /\ c \in Connectors /\ Disciplined(m)
  BY DEF Done, BusyLoaded, Of, Locking
<1>2. /\ UNCHANGED <<active, lockOn, locked, inside>>
      /\ at' = [at EXCEPT ![m] = "idle"]
      /\ cur' = [cur EXCEPT ![m] = NoConnector]
      /\ \/ MustLock(c) /\ owns' = [owns EXCEPT ![c] = FALSE]
         \/ (at[m] = "access" \/ ~MustLock(c)) /\ owns' = owns
  BY DEF Done, Return, Goto, End, data
<1>3. at'[m] = "idle" /\ \A n \in Modules \ {m} : at'[n] = at[n] /\ cur'[n] = cur[n]
  BY <1>1, <1>2 DEF TypeModules
<1>4. \A d \in Connectors \ {c} : owns'[d] = owns[d]
  BY <1>2 DEF TypeFlags
<1>5. /\ locked[c] => owns[c] /\ active[c] /\ c \in inside
      /\ c \in inside /\ c \in Outputs /\ active[c] => locked[c]
  BY <1>1 DEF Disciplined, LockedInside, InsideLocked
<1>6. owns'[c] => owns[c] /\ locked[c]
  <2>1. CASE MustLock(c) /\ owns' = [owns EXCEPT ![c] = FALSE]
    BY <1>1, <2>1 DEF TypeFlags
  <2>2. CASE at[m] = "access" /\ owns' = owns
    BY <1>1, <2>2 DEF Disciplined, OwnsInUse
  <2>3. CASE at[m] \in {"write", "read"} /\ ~MustLock(c) /\ owns' = owns
    BY <1>1, <2>3 DEF Disciplined, Established, MustLock
  <2> QED
    BY <1>1, <1>2, <2>1, <2>2, <2>3
<1>7. locked[c] => owns'[c]
  BY <1>1, <1>2, <1>5 DEF MustLock
<1>8. Disciplined(m)'
  BY <1>1, <1>2, <1>3, <1>4, <1>5, <1>6, <1>7, OwnFrame
<1> QED
  BY <1>1, <1>2, <1>3, <1>4, <1>6, <1>8, LockingFrame

LEMMA LockingUnlock ==
    ASSUME Types, Locking, NEW m \in Modules,
           NEW c \in Of(m), UnlockConnection(m, c), UNCHANGED ended, ended = "no"
    PROVE  Locking'
<1> USE ConnectorAssumption DEF Types
<1>1. c \in Connectors /\ at[m] = "idle" /\ Disciplined(m)
  BY DEF UnlockConnection, MayCall, Of, Locking
<1>2. /\ UNCHANGED <<active, lockOn, at, cur>>
      /\ owns' = [owns EXCEPT ![c] = @ /\ ~active[c]]
      /\ locked' = [locked EXCEPT ![c] = @ /\ ~active[c]]
      /\ inside' = inside \ {c}
  BY DEF UnlockConnection, End
<1>3. /\ owns'[c] <=> owns[c] /\ ~active[c]
      /\ locked'[c] <=> locked[c] /\ ~active[c]
      /\ \A d \in Connectors \ {c} : owns'[d] = owns[d] /\ locked'[d] = locked[d]
  BY <1>1, <1>2 DEF TypeFlags
<1>4. owns[c] => locked[c] /\ active[c]
  BY <1>1 DEF Disciplined, OwnsInUse, LockedInside
<1>5. locked[c] => active[c]
  BY <1>1 DEF Disciplined, LockedInside
<1>6. Disciplined(m)'
  BY <1>1, <1>2, <1>3, <1>4, <1>5, OwnFrame
<1> QED
  BY <1>1, <1>2, <1>3, <1>4, <1>6, LockingFrame

LEMMA LockingModule ==
    ASSUME Types, Structure, Locking, ended = "no",
           NEW m \in Modules, ModuleStep(m)
    PROVE  Locking'
<1>1. m \in loaded \ {unloading}
  BY DEF ModuleStep
<1>2. UNCHANGED lockOn
  BY ModuleFrame DEF Types
<1>3. ASSUME UNCHANGED <<at, cur, inside, active, owns, locked>> PROVE Locking'
  BY <1>1, <1>2, <1>3 DEF Locking, OneOwner, Disciplined, OwnsInUse,
     LockedInside, InsideLocked, Established
<1>4. ASSUME NEW how, End(how) PROVE Locking'
  BY <1>3, <1>4 DEF End, data
<1>5. ASSUME NEW c \in Of(m), Send(m, c) PROVE Locking'
  BY <1>1, <1>5, LockingCall DEF Send, data
<1>6. ASSUME NEW c \in Of(m), Receive(m, c) PROVE Locking'
  <2>1. CASE UNCHANGED connectorVars
    BY <1>3, <2>1 DEF connectorVars, data
  <2>2. CASE ~UNCHANGED connectorVars
    <3> DEFINE label == IF locked[c] THEN "read" ELSE "receiveLock"
    <3>1. /\ c \in Inputs /\ MayCall(m, c) /\ Call(m, c, label)
          /\ UNCHANGED <<owns, locked>>
          /\ \/ active[c] /\ UNCHANGED active
             \/ active' = [active EXCEPT ![c] = TRUE]
      BY <1>6, <2>2 DEF Receive, Activate, data
    <3>2. active'[c]
      BY <3>1 DEF Types, TypeFlags, Connectors
    <3> QED
      BY <1>1, <1>2, <3>1, <3>2, LockingCall
  <2> QED
    BY <2>1, <2>2
<1>7. ASSUME NEW c \in Of(m), LockConnection(m, c) PROVE Locking'
  BY <1>1, <1>7, LockingLockConnection
<1>8. ASSUME NEW c \in Of(m), Misuse(m, c) PROVE Locking'
  BY <1>4, <1>8 DEF Misuse
<1>9. ASSUME NEW c \in Of(m), Access(m, c) PROVE Locking'
  <2>1. CASE End("crash")
    BY <1>4, <2>1
  <2>2. CASE ~End("crash")
    BY <1>1, <1>9, <2>2, LockingAccess DEF Access, Call
  <2> QED
    BY <2>1, <2>2
<1>10. ASSUME NEW c \in Of(m), UnlockConnection(m, c) PROVE Locking'
  <2>1. CASE End("throw")
    BY <1>4, <2>1
  <2>2. CASE ~End("throw")
    BY <1>1, <1>10, <2>2, LockingUnlock DEF UnlockConnection
  <2> QED
    BY <2>1, <2>2
<1>11. ASSUME Lock(m) PROVE Locking'
  <2>1. CASE End("throw") \/ End("crash")
    BY <1>4, <2>1
  <2>2. CASE ~(End("throw") \/ End("crash"))
    BY <1>1, <1>11, <2>2, LockingLock DEF Lock
  <2> QED
    BY <2>1, <2>2
<1>12. ASSUME Done(m) PROVE Locking'
  <2>1. CASE End("throw")
    BY <1>4, <2>1
  <2>2. CASE ~End("throw")
    BY <1>1, <1>12, <2>2, LockingDone DEF Done, Return
  <2> QED
    BY <2>1, <2>2
<1> QED
  BY <1>4, <1>5, <1>6, <1>7, <1>8, <1>9, <1>10, <1>11, <1>12 DEF ModuleStep, Executes

(* How a module can end the process with an exception: nothing but the     *)
(* unlocking of an input that was not active when it was locked.           *)
LEMMA ThrowStep ==
    ASSUME Types, Structure, Locking, ended = "no", ended' = "throw",
           LoaderStep \/ \E m \in Modules : ModuleStep(m)
    PROVE  ThrowsOnlyUnguarded'
<1>1. ~LoaderStep
  BY DEF LoaderStep, Load, Connect, Unload, Destroy, Close, EraseEntry, Exit, End, connectorVars
<1>2. PICK m \in Modules : ModuleStep(m)
  BY <1>1
<1>3. Disciplined(m)
  BY DEF Locking
<1>4. End("throw") /\ \/ Lock(m) /\ owns[cur[m]]
                      \/ /\ Done(m) /\ at[m] \in {"write", "read"}
                         /\ MustLock(cur[m]) /\ ~owns[cur[m]]
                      \/ \E c \in Of(m) : UnlockConnection(m, c) /\ active[c] /\ ~owns[c]
  <2>1. ASSUME NEW d, \/ Send(m, d) \/ Receive(m, d) \/ LockConnection(m, d)
                      \/ Misuse(m, d) \/ Access(m, d)
        PROVE  FALSE
    BY <2>1 DEF Send, Receive, LockConnection, Misuse, Access, Call, End, connectorVars
  <2>2. Lock(m) \/ Done(m) \/ \E c \in Of(m) : UnlockConnection(m, c)
    BY <1>2, <2>1 DEF ModuleStep, Executes, End
  <2>3. CASE Lock(m)
    BY <2>3 DEF Lock, End
  <2>4. CASE Done(m)
    BY <2>4 DEF Done, End, Return
  <2>5. ASSUME NEW c \in Of(m), UnlockConnection(m, c)
        PROVE  End("throw") /\ active[c] /\ ~owns[c]
    BY <2>5 DEF UnlockConnection, End
  <2> QED
    BY <2>2, <2>3, <2>4, <2>5
<1>5. ~(Lock(m) /\ owns[cur[m]])
  BY <1>3 DEF Lock, AfterLock, Disciplined, Established
<1>6. ~(at[m] \in {"write", "read"} /\ MustLock(cur[m]) /\ ~owns[cur[m]])
  BY <1>3 DEF Disciplined, Established, MustLock
<1>7. PICK c \in Of(m) : UnlockConnection(m, c) /\ active[c] /\ ~owns[c]
  BY <1>4, <1>5, <1>6
<1>8. at[m] = "idle" /\ c \in inside /\ c \in Connectors
  BY <1>7 DEF UnlockConnection, MayCall, Of
<1>9. ~locked[c]
  BY <1>3, <1>7 DEF Disciplined, LockedInside
<1>10. c \in Inputs
  BY <1>3, <1>7, <1>8, <1>9 DEF Disciplined, InsideLocked, Connectors
<1>11. Unguarded(c)'
  BY <1>4, <1>8, <1>9, <1>10 DEF End, data, Unguarded
<1> QED
  BY <1>8, <1>11 DEF ThrowsOnlyUnguarded

(* A module's statement moves no other module.                             *)
LEMMA OthersStay ==
    ASSUME Types, NEW m \in Modules, ModuleStep(m), NEW n \in Modules, n # m
    PROVE  Busy(n)' <=> Busy(n)
<1> USE ConnectorAssumption DEF Types, TypeModules
<1>1. ASSUME NEW c, Send(m, c) \/ Receive(m, c) \/ Access(m, c)
      PROVE  at'[n] = at[n] /\ UNCHANGED inside
  BY <1>1 DEF Send, Receive, Access, End, Call, Goto, connectorVars
<1>2. ASSUME NEW c \in Of(m), LockConnection(m, c) \/ UnlockConnection(m, c)
      PROVE  at'[n] = at[n] /\ Of(n) \intersect inside' = Of(n) \intersect inside
  BY <1>2 DEF LockConnection, UnlockConnection, Goto, End, Of
<1>3. ASSUME NEW c, Misuse(m, c) PROVE UNCHANGED <<at, inside>>
  BY <1>3 DEF Misuse, End
<1>4. ASSUME Lock(m) \/ Done(m) PROVE at'[n] = at[n] /\ UNCHANGED inside
  BY <1>4 DEF Lock, Done, Return, Goto, End
<1> QED
  BY <1>1, <1>2, <1>3, <1>4 DEF ModuleStep, Executes, End, Busy

(* The steps of System are steps of Loader.                                *)
LEMMA SystemSteps == [SystemNext]_systemVars => [Next]_vars
  BY DEF SystemNext, systemVars, StartRound, BetweenRounds, Statement, Finish, Swap,
     Next

LEMMA TurnsStep ==
    ASSUME Types, Turns, [SystemNext]_systemVars
    PROVE  Turns'
<1> USE DEF Turns
<1>1. ASSUME UNCHANGED vars PROVE UNCHANGED unloading /\ \A m \in Modules : Busy(m)' <=> Busy(m)
  BY <1>1 DEF vars, loaderVars, connectorVars, Busy
<1>2. CASE StartRound
  BY <1>1, <1>2 DEF StartRound, Types, TypeLoader
<1>3. CASE BetweenRounds
  BY <1>3, LoaderFrame DEF BetweenRounds, Busy
<1>4. ASSUME NEW m \in Modules, Statement(m) PROVE Turns'
  <2>1. m \in pending /\ UNCHANGED <<pending, unloading>>
    BY <1>4 DEF Statement, ModuleStep, loaderVars
  <2>2. \A n \in Modules \ {m} : Busy(n)' => n \in pending
    BY <1>4, OthersStay DEF Statement
  <2> QED
    BY <2>1, <2>2
<1>5. ASSUME NEW m \in Modules, Finish(m) PROVE Turns'
  BY <1>1, <1>5 DEF Finish
<1>6. CASE Swap
  <2>1. UNCHANGED <<at, inside, unloading, pending>>
    BY <1>6, SwapFrame DEF Swap, End, loaderVars, connectorVars
  <2> QED
    BY <2>1 DEF Busy
<1>7. CASE UNCHANGED systemVars
  BY <1>1, <1>7 DEF systemVars
<1> QED
  BY <1>2, <1>3, <1>4, <1>5, <1>6, <1>7 DEF SystemNext

LEMMA LockingSame ==
    ASSUME Locking, ThrowsOnlyUnguarded, UNCHANGED <<at, cur, inside, active, owns, locked, lockOn>>
    PROVE  Locking' /\ (ended' \in {ended, "exit", "crash"} => ThrowsOnlyUnguarded')
  BY DEF Locking, OneOwner, Disciplined, OwnsInUse, LockedInside, InsideLocked, Established,
     ThrowsOnlyUnguarded, Unguarded

(* In its turn the loader meets nobody; a swap, which may meet others,     *)
(* leaves the connectors alone.                                            *)
LEMMA LockingStep ==
    ASSUME Types, Structure, Turns, Locking, ThrowsOnlyUnguarded, [SystemNext]_systemVars
    PROVE  Locking' /\ ThrowsOnlyUnguarded'
<1>1. CASE BetweenRounds /\ ended = "no"
  <2>1. Locking'
    BY <1>1, LockingLoader DEF BetweenRounds, Turns
  <2>2. ThrowsOnlyUnguarded'
    BY <1>1, ThrowStep DEF BetweenRounds, ThrowsOnlyUnguarded
  <2> QED
    BY <2>1, <2>2
<1>2. ASSUME NEW m \in Modules, Statement(m), ended = "no"
      PROVE  Locking' /\ ThrowsOnlyUnguarded'
  <2>1. Locking'
    BY <1>2, LockingModule DEF Statement
  <2>2. ThrowsOnlyUnguarded'
    BY <1>2, ThrowStep DEF Statement, ThrowsOnlyUnguarded
  <2> QED
    BY <2>1, <2>2
<1>3. ASSUME Swap
      PROVE  Locking' /\ ThrowsOnlyUnguarded'
  <2>1. UNCHANGED <<at, cur, inside, active, owns, locked, lockOn>> /\ ended' \in {ended, "exit", "crash"}
    BY <1>3, SwapFrame DEF Swap, End, data, connectorVars
  <2> QED
    BY <2>1, LockingSame
<1>4. ASSUME UNCHANGED vars
      PROVE  Locking' /\ ThrowsOnlyUnguarded'
  BY <1>4, LockingSame DEF vars, connectorVars, data
<1> QED
  BY <1>1, <1>2, <1>3, <1>4 DEF SystemNext, StartRound, Finish, systemVars

LEMMA SystemStarts == SystemInit => Init /\ Turns /\ Locking /\ ThrowsOnlyUnguarded
<1>1. Init => ThrowsOnlyUnguarded
  BY DEF Init, ConnectorInit, ThrowsOnlyUnguarded
<1>2. SystemInit => Turns
  BY DEF SystemInit, Init, ConnectorInit, Turns, Busy
<1> QED
  BY <1>1, <1>2, LockingInit DEF SystemInit

(* What the loader keeps at any time it keeps in the rounds.               *)
LEMMA LoaderInRounds == SystemSpec => Spec
  BY SystemStarts, SystemSteps, PTL DEF SystemSpec, Spec

LEMMA SystemInvariant ==
    SystemSpec => [](Types /\ Structure /\ Turns /\ Locking /\ ThrowsOnlyUnguarded)
<1>1. Types /\ Structure /\ Turns /\ Locking /\ ThrowsOnlyUnguarded /\ [SystemNext]_systemVars
          => Turns' /\ Locking' /\ ThrowsOnlyUnguarded'
  BY TurnsStep, LockingStep
<1> QED
  BY <1>1, SystemStarts, LoaderInRounds, StructureInvariant, PTL DEF SystemSpec

(* Who touches an object is guarded by its mutex, or nobody else can.      *)
LEMMA WholeFromLocks ==
    ASSUME Types, Structure, Locking
    PROVE  WholeValues
<1> USE ConnectorAssumption DEF Types, Structure
<1> DEFINE Guarded(m) == owns[cur[m]] /\ lockOn[cur[m]] = connection[cur[m]]
           Alone(m) == cur[m] \in Outputs /\ ~active[cur[m]]
<1>1. ASSUME NEW m \in Modules, Touches(m)
      PROVE  /\ cur[m] \in Connectors /\ Owner[cur[m]] = m
             /\ cur[m] \in Outputs =>
                    /\ pointer[cur[m]] = Object(cur[m]) /\ connection[cur[m]] = Object(cur[m])
                    /\ lockOn[cur[m]] = Object(cur[m])
                    /\ Owner[cur[m]] \in loaded \ {unloading}
             /\ Owner[cur[m]] \in loaded \ {unloading}
  BY <1>1 DEF Touches, BusyLoaded, Busy, Of, OwnObjects, Working
<1>2. ASSUME NEW m \in Modules, Touches(m), ~Unguarded(cur[m])
      PROVE  /\ Guarded(m) \/ Alone(m)
             /\ cur[m] \in Inputs => active[cur[m]] /\ connection[cur[m]] = pointer[cur[m]]
                                     /\ pointer[cur[m]] # NoObject
  <2> DEFINE c == cur[m]
  <2>1. Disciplined(m) /\ c \in Of(m)
    BY <1>1, <1>2 DEF Locking, Of
  <2>2. active[c] /\ c \in Inputs =>
            connection[c] = lockOn[c] /\ connection[c] = pointer[c] /\ pointer[c] # NoObject
    BY DEF LockGuardsObject
  <2>3. CASE at[m] = "write"
    BY <1>1, <1>2, <2>1, <2>3 DEF Disciplined, Established
  <2>4. CASE at[m] = "read"
    BY <1>2, <2>1, <2>2, <2>4 DEF Disciplined, Established
  <2>5. CASE at[m] = "access"
    <3>1. c \in inside /\ (locked[c] => owns[c] /\ active[c])
      BY <2>1, <2>5 DEF Disciplined, Established, LockedInside
    <3>2. CASE c \in Inputs
      BY <1>2, <2>2, <3>1, <3>2 DEF Unguarded
    <3>3. CASE c \in Outputs
      <4>1. active[c] => locked[c]
        BY <2>1, <2>5, <3>1, <3>3 DEF Disciplined, InsideLocked
      <4> QED
        BY <1>1, <1>2, <3>1, <3>3, <4>1
    <3> QED
      BY <1>1, <1>2, <3>2, <3>3 DEF Connectors
  <2> QED
    BY <1>2, <2>3, <2>4, <2>5 DEF Touches
<1>3. ASSUME NEW m \in Modules, NEW n \in Modules, m # n,
             Touches(m), Touches(n), ~Unguarded(cur[m]), ~Unguarded(cur[n]),
             connection[cur[m]] = connection[cur[n]], Alone(m)
      PROVE  FALSE
  <2>1. CASE cur[n] \in Outputs
    <3>1. Object(cur[m]) = Object(cur[n])
      BY <1>1, <1>3, <2>1
    <3>2. cur[m] = cur[n]
      BY <3>1 DEF Object
    <3> QED
      BY <1>1, <1>3, <3>2
  <2>2. CASE cur[n] \in Inputs
    <3>1. pointer[cur[n]] = pointer[cur[m]] /\ pointer[cur[n]] # NoObject
      BY <1>1, <1>2, <1>3, <2>2
    <3>2. active[cur[m]]
      BY <1>1, <1>3, <2>2, <3>1 DEF OutputKnows
    <3> QED
      BY <1>3, <3>2
  <2> QED
    BY <1>1, <1>3, <2>1, <2>2 DEF Connectors
<1>4. ASSUME NEW m \in Modules, NEW n \in Modules, m # n,
             Touches(m), Touches(n), ~Unguarded(cur[m]), ~Unguarded(cur[n]),
             connection[cur[m]] = connection[cur[n]]
      PROVE  FALSE
  <2>1. Guarded(m) /\ Guarded(n)
    BY <1>2, <1>3, <1>4
  <2>2. cur[m] = cur[n]
    BY <1>1, <1>4, <2>1 DEF Locking, OneOwner
  <2> QED
    BY <1>1, <1>4, <2>2
<1> QED
  BY <1>4 DEF WholeValues, Alters, Touches

------------------------------------------------------------------------------
(* Every variable of the loader and of the connectors has its type, and a  *)
(* module that executes is in the map and works on connectors of its own   *)
(* (loader.cc:54-113, connector.h:176-228).                                *)
THEOREM LoaderTypes == Spec => []TypeOK
<1>1. Types /\ TypeHandles => TypeOK
  BY DEF Types, TypeOK
<1> QED
  BY <1>1, LoaderInvariant, PTL

(* An input that is active works on the object whose mutex it locks        *)
(* (loader.cc:173-174, connector.h:236-239).                               *)
THEOREM LocksGuard == Spec => []LockGuardsObject
<1>1. Structure => LockGuardsObject
  BY DEF Structure
<1> QED
  BY <1>1, StructureInvariant, PTL

(* An output that is read by a module of the map is active, so send locks  *)
(* (loader.cc:175, 205).                                                   *)
THEOREM OutputsKnow == Spec => []OutputKnows
<1>1. Structure => OutputKnows
  BY DEF Structure
<1> QED
  BY <1>1, StructureInvariant, PTL

(* Unloading a module cuts off every input that the map lists before the   *)
(* output it reads (loader.cc:208-216).                                    *)
THEOREM ReadersStop == Spec => []EarlierReadersStop
<1>1. Structure => EarlierReadersStop
  BY DEF Structure, EarlierReadersStop, LockGuardsObject, LaterLeft
<1> QED
  BY <1>1, StructureInvariant, PTL

(* The code of a module is there as long as the module is in the map: only *)
(* the swap of a module of its library takes it away, and only if no other *)
(* module of the map uses that library (bvs.h:229; loader.cc:83, 110-111,  *)
(* 232-233).                                                               *)
THEOREM CodeIsThere == Spec => []CodeStays
<1>1. TypeLoader /\ TypeHandles /\ HandlesExact => CodeStays
  <2> SUFFICES ASSUME TypeLoader, TypeHandles, HandlesExact,
                      NEW m \in loaded, handles[LibraryOf[m]] = 0
               PROVE  /\ swapping # NoModule /\ LibraryOf[swapping] = LibraryOf[m]
                      /\ \A n \in loaded \ {m} : LibraryOf[n] # LibraryOf[m]
    BY DEF CodeStays
  <2> DEFINE l == LibraryOf[m]
             others == Users(l) \ {m}
  <2>1. l \in Libraries /\ m \in Users(l)
    BY LoaderAssumption DEF TypeLoader, Users
  <2>2. IsFiniteSet(others) /\ Cardinality(others) = Cardinality(Users(l)) - 1
    BY <2>1, UsersFinite, FS_RemoveElement
  <2>3. Missing(l) = Cardinality(Users(l))
    BY <2>1 DEF HandlesExact, Missing
  <2>4. Cardinality(others) \in Nat
    BY <2>2, FS_CardinalityType
  <2>5. Missing(l) = 1 /\ Cardinality(others) = 0
    BY <2>2, <2>3, <2>4 DEF Missing
  <2>6. others = {}
    BY <2>2, <2>5, FS_EmptySet
  <2> QED
    BY <2>5, <2>6 DEF Missing, Users
<1>2. Types => TypeLoader
  BY DEF Types
<1> QED
  BY <1>1, <1>2, LoaderInvariant, PTL

(* In the rounds of Control nobody touches an object another module is     *)
(* writing, unless a module has locked an input that was not active yet    *)
(* (connector.h:176-178, 194-196, 203-210).                                *)
THEOREM ValuesWhole == SystemSpec => []WholeValues
<1>1. Types /\ Structure /\ Locking => WholeValues
  BY WholeFromLocks
<1> QED
  BY <1>1, SystemInvariant, PTL

(* A mutex is not held any longer than the execute() that has locked it,   *)
(* so the loader, whose turn is between the rounds, destroys none that is  *)
(* locked (connector.h:178, 198, 236; loader.cc:108).                      *)
THEOREM LocksAreReturned == SystemSpec => []LocksReturned
<1>1. Turns /\ Locking => LocksReturned
  <2> SUFFICES ASSUME Turns, Locking, NEW c \in Connectors, owns[c]
               PROVE  Owner[c] \in pending
    BY DEF LocksReturned
  <2>1. Owner[c] \in Modules /\ c \in Of(Owner[c])
    BY ConnectorAssumption DEF Of
  <2>2. at[Owner[c]] # "idle" \/ c \in inside
    BY <2>1 DEF Locking, Disciplined, OwnsInUse, LockedInside
  <2> QED
    BY <2>1, <2>2 DEF Turns, Busy
<1> QED
  BY <1>1, SystemInvariant, PTL

(* Modules that wait for each other have locked a connection and call      *)
(* another one before they unlock it (connector.h:176-178, 194-196, 225).  *)
THEOREM NestedWaits == SystemSpec => []WaitersNest
<1>1. Locking => WaitersNest
  <2> SUFFICES ASSUME Locking, NEW c \in Connectors, owns[c],
                      at[Owner[c]] \in {"sendLock", "receiveLock", "lock"}
               PROVE  locked[c] /\ cur[Owner[c]] # c
    BY DEF WaitersNest, AfterLock
  <2>1. Owner[c] \in Modules /\ c \in Of(Owner[c])
    BY ConnectorAssumption DEF Of
  <2>2. ~owns[cur[Owner[c]]]
    BY <2>1 DEF Locking, Disciplined, Established
  <2>3. locked[c]
    BY <2>1 DEF Locking, Disciplined, OwnsInUse
  <2> QED
    BY <2>2, <2>3
<1> QED
  BY <1>1, SystemInvariant, PTL

(* Nothing else makes a lock throw there (connector.h:176-228).            *)
THEOREM ThrowsExplained == SystemSpec => []ThrowsOnlyUnguarded
  BY SystemInvariant, PTL
==============================================================================
