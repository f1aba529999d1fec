------------------------------ MODULE Connector ------------------------------
(***************************************************************************)
(* The connectors of modules (lib/include/bvs/connector.h,                 *)
(* connectordata.h): every module runs in a pool of its own and sends,     *)
(* receives, or locks a connection and works on its object in place, all   *)
(* at the same time.  The loader, which connects and disconnects, is in    *)
(* module Loader.                                                          *)
(*                                                                         *)
(* Every load of a module creates, for each of its outputs, an object with *)
(* a mutex: <<output, number of the load>>.  The ConnectorData of an input *)
(* points to such an object and its lock refers to such a mutex, or to     *)
(* none yet.                                                               *)
(***************************************************************************)
EXTENDS Naturals

CONSTANTS
    Modules,    \* ids
    Inputs,     \* input connectors of all modules
    Outputs,    \* output connectors of all modules
    Owner,      \* the module of a connector
    MaxLoads,   \* bound: how often a module is loaded
    NoObject,   \* nullptr
    NoConnector \* the module works on no connector

Connectors == Inputs \union Outputs
Objects == Outputs \X (1 .. MaxLoads)
MaybeObject == Objects \union {NoObject}

ASSUME ConnectorAssumption ==
    /\ Inputs \intersect Outputs = {}
    /\ Owner \in [Connectors -> Modules]
    /\ MaxLoads \in Nat
    /\ NoObject \notin Objects
    /\ NoConnector \notin Connectors

VARIABLES
    \* ConnectorData of every connector
    active, pointer, lockOn, owns, locked,
    connection, \* Connector::connection: the object a connector works on
    alive,      \* objects whose ConnectorData, with its mutex, still exists
    at,         \* the statement each module is at
    cur,        \* the connector it works on
    inside,     \* connectors between lockConnection and unlockConnection
    ended       \* how the process has ended

data == <<active, pointer, lockOn, owns, locked, connection, alive>>
connectorVars == <<data, at, cur, inside, ended>>

Of(m) == {c \in Connectors : Owner[c] = m}
Busy(m) == at[m] # "idle" \/ Of(m) \intersect inside # {}
Held(x) == \E c \in Connectors : owns[c] /\ lockOn[c] = x

ConnectorInit ==
    /\ active = [c \in Connectors |-> FALSE]
    /\ pointer = [c \in Connectors |-> NoObject]
    /\ lockOn = [c \in Connectors |-> NoObject]
    /\ owns = [c \in Connectors |-> FALSE]
    /\ locked = [c \in Connectors |-> FALSE]
    /\ connection = [c \in Connectors |-> NoObject]
    /\ alive = {}
    /\ at = [m \in Modules |-> "idle"]
    /\ cur = [m \in Modules |-> NoConnector]
    /\ inside = {}
    /\ ended = "no"

Goto(m, label) == at' = [at EXCEPT ![m] = label]

(* LOG(0, ...) and its handler, an exception nobody catches, or undefined    *)
(* behaviour that ends the process.                                          *)
End(how) == ended' = how /\ UNCHANGED <<data, at, cur, inside>>

(* Connector::activate succeeds only for an input that has never had an      *)
(* object.                                                                   *)
CanActivate(c) == connection[c] = NoObject /\ pointer[c] # NoObject
Activate(c) == /\ connection' = [connection EXCEPT ![c] = pointer[c]]
               /\ active' = [active EXCEPT ![c] = TRUE]

(* A call of module m for one of its connectors, and the return from it.     *)
MayCall(m, c) == at[m] = "idle" /\ Owner[c] = m
Call(m, c, label) == /\ Goto(m, label)
                     /\ cur' = [cur EXCEPT ![m] = c]
                     /\ UNCHANGED <<inside, ended>>
Return(m) == /\ Goto(m, "idle")
             /\ cur' = [cur EXCEPT ![m] = NoConnector]
             /\ UNCHANGED <<inside, ended>>

(* Fault: the flag of lockConnection is not heeded.                          *)
MustLockAlways(c) == active[c]

(* send and receive lock the object, unless their module has done so.        *)
MustLock(c) == active[c] /\ ~locked[c]

(* The body of send up to the assignment (176); the lock is a step of its    *)
(* own.                                                                      *)
Send(m, c) ==
    /\ c \in Outputs /\ MayCall(m, c)
    /\ Call(m, c, IF MustLock(c) THEN "sendLock" ELSE "write")
    /\ UNCHANGED data

(* The body of receive up to the assignment (192-194).                       *)
Receive(m, c) ==
    /\ c \in Inputs /\ MayCall(m, c)
    /\ \/ /\ active[c]
          /\ UNCHANGED data
          /\ Call(m, c, IF locked[c] THEN "read" ELSE "receiveLock")
       \/ /\ ~active[c] /\ CanActivate(c)
          /\ Activate(c)
          /\ UNCHANGED <<pointer, lockOn, owns, locked, alive>>
          /\ Call(m, c, IF locked[c] THEN "read" ELSE "receiveLock")
       \/ /\ ~active[c] /\ ~CanActivate(c)      \* returns false
          /\ UNCHANGED connectorVars

(* Calling send for an input, or receive for an output, is logged with level *)
(* 0, which ends the process.                                                *)
Misuse(m, c) == MayCall(m, c) /\ End("exit")

(* Connector::lockConnection, for a connector that is active.  A module may  *)
(* keep several of its connectors locked, and call the others meanwhile.     *)
LockConnection(m, c) ==
    /\ c \notin inside /\ MayCall(m, c)
    /\ inside' = inside \union {c}
    /\ IF active[c]
       THEN Goto(m, "lock") /\ cur' = [cur EXCEPT ![m] = c]
       ELSE UNCHANGED <<at, cur>>
    /\ UNCHANGED <<data, ended>>

(* operator* and operator->, which a module uses on a connection it has      *)
(* locked.                                                                   *)
Access(m, c) ==
    /\ c \in inside /\ MayCall(m, c)
    /\ \/ /\ ~active[c] /\ CanActivate(c)
          /\ Activate(c)
          /\ Call(m, c, "access")
          /\ UNCHANGED <<pointer, lockOn, owns, locked, alive>>
       \/ /\ connection[c] # NoObject
          /\ Call(m, c, "access")
          /\ UNCHANGED data
       \/ /\ connection[c] = NoObject /\ ~CanActivate(c)
          /\ End("crash")

(* The statement that follows the lock.                                      *)
AfterLock == [sendLock |-> "write", receiveLock |-> "read", lock |-> "idle"]

(* Fault: every connector has a mutex of its own.                            *)
MayLockOwn(m) == ~owns[cur[m]]

(* The mutex is the one of the output: an input's lock refers to it.         *)
MayLock(m) == ~Held(lockOn[cur[m]])

(* data->lock.lock(): waits for the mutex.  Locking one that has been        *)
(* destroyed may go well or not; a unique_lock that owns its mutex throws.    *)
Lock(m) ==
    LET c == cur[m] IN
    /\ at[m] \in DOMAIN AfterLock
    /\ \/ /\ MayLock(m)
          /\ owns' = [owns EXCEPT ![c] = TRUE]
          /\ locked' = [locked EXCEPT ![c] = @ \/ at[m] = "lock"]
          /\ Goto(m, AfterLock[at[m]])
          /\ cur' = [cur EXCEPT ![m] = IF at[m] = "lock" THEN NoConnector ELSE c]
          /\ UNCHANGED <<active, pointer, lockOn, connection, alive, inside, ended>>
       \/ owns[c] /\ End("throw")
       \/ lockOn[c] \notin alive /\ End("crash")

(* The end of send (178), of receive (196) and of the work of operator*; a   *)
(* unique_lock that does not own its mutex throws when it is unlocked.       *)
Done(m) ==
    LET c == cur[m] IN
    \/ /\ at[m] \in {"write", "read"} /\ MustLock(c)
       /\ owns[c]
       /\ owns' = [owns EXCEPT ![c] = FALSE]
       /\ UNCHANGED <<active, pointer, lockOn, locked, connection, alive>>
       /\ Return(m)
    \/ /\ at[m] \in {"write", "read"} /\ MustLock(c)
       /\ ~owns[c]
       /\ End("throw")
    \/ /\ at[m] \in {"write", "read", "access"}
       /\ at[m] = "access" \/ ~MustLock(c)
       /\ UNCHANGED data
       /\ Return(m)

(* Fault: the flag is reset and the mutex kept.                              *)
UnlockFlagOnly(m, c) ==
    /\ c \in inside /\ MayCall(m, c)
    /\ locked' = [locked EXCEPT ![c] = @ /\ ~active[c]]
    /\ inside' = inside \ {c}
    /\ UNCHANGED <<active, pointer, lockOn, owns, connection, alive, at, cur, ended>>

(* Connector::unlockConnection, for a connector that is active.              *)
UnlockConnection(m, c) ==
    /\ c \in inside /\ MayCall(m, c)
    /\ \/ /\ ~active[c] \/ owns[c]
          /\ owns' = [owns EXCEPT ![c] = @ /\ ~active[c]]
          /\ locked' = [locked EXCEPT ![c] = @ /\ ~active[c]]
          /\ inside' = inside \ {c}
          /\ UNCHANGED <<active, pointer, lockOn, connection, alive, at, cur, ended>>
       \/ /\ active[c] /\ ~owns[c]
          /\ End("throw")
==============================================================================
