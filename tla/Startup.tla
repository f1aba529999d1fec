------------------------------- MODULE Startup -------------------------------
(***************************************************************************)
(* From the options to the modules and the pools that execute them         *)
(* (lib/src/bvs.cc:11-136): the constructor of BVS, loadConfigFile, and    *)
(* loadModules, which loads what the option BVS.modules lists.             *)
(*                                                                         *)
(* An element of the list is the record of its parts: the prefix (nothing, *)
(* "+", "[pool]" or both), the id, the library and the configuration.      *)
(***************************************************************************)
EXTENDS Config

CONSTANTS
    ModulesOption, ParallelismOption, \* BVS.modules, BVS.parallelism
    NoName                            \* the empty string

VARIABLES
    phase,       \* what the client is to do: construct, options, list, done
    parallelism, \* BVS::parallelism
    list,        \* elements of the list still to be loaded
    poolOf,      \* from the ids of the modules to their pools
    origin,      \* and to their libraries and configurations
    order        \* the ids, in the order they were started

startupVars == <<phase, parallelism, list, poolOf, origin, order>>
vars == <<configVars, startupVars>>

Nothing == [i \in {} |-> NoName]

Init == /\ ConfigInit
        /\ phase = "construct" /\ parallelism = NoName
        /\ list = <<>>
        /\ poolOf = Nothing /\ origin = Nothing
        /\ order = <<>>

(* What the client loads: the command line first, files later on.            *)
ClientLoads ==
    /\ \/ phase = "construct" /\ LoadCommandLine
       \/ phase \in {"options", "done"} /\ \E f \in Files : LoadConfigFile(f)
       \/ ParseStep
    /\ UNCHANGED startupVars

(* The threads of modules read options.                                      *)
ModuleReads == /\ order # <<>>
               /\ \E r \in Readers, o \in Options : GetValue(r, o)
               /\ UNCHANGED startupVars

(* getValue for a string gives the whole value; a list is none of the words. *)
Word(o, default) ==
    IF o \notin DOMAIN optionStore THEN default
    ELSE IF Len(optionStore[o]) = 1 THEN optionStore[o][1] ELSE NoName

(* The constructor of BVS keeps the value of parallelism, whatever is loaded *)
(* later on (bvs.cc:23).                                                     *)
Construct ==
    /\ phase = "construct" /\ started /\ stack = <<>>
    /\ parallelism' = Word(ParallelismOption, "ANY")
    /\ phase' = "options"
    /\ UNCHANGED <<configVars, list, poolOf, origin, order>>

(* BVS::loadModules takes the list ...                                       *)
LoadModules ==
    /\ phase = "options" /\ stack = <<>>
    /\ IF ModulesOption \in DOMAIN optionStore
       THEN list' = optionStore[ModulesOption] /\ phase' = "list"
       ELSE phase' = "done" /\ UNCHANGED list
    /\ UNCHANGED <<configVars, parallelism, poolOf, origin, order>>

(* A thread for the module alone (101-102).                                  *)
SinglePool(e) == parallelism = "FORCE" \/ (e.prefix = "+" /\ parallelism # "NONE")

(* Fault: a word that forbids named pools does not clear the name.           *)
PoolNamed(e) == IF e.pool # NoName THEN e.pool
                ELSE IF SinglePool(e) THEN e.id ELSE "master"

(* The pool of an element: the one it names, if pools are allowed, or one of *)
(* its own; Control::startModule puts all others into "master".              *)
Pool(e) == IF parallelism = "ANY" /\ e.pool # NoName THEN e.pool
           ELSE IF SinglePool(e) THEN e.id ELSE "master"

(* Fault: a module starts in front of those in its pool.                     *)
StartFirst(id) == <<id>> \o order

(* push_back                                                                 *)
StartLast(id) == Append(order, id)

(* ... and loads and starts its elements one by one (70-86).  An id may      *)
(* occur once, "+" and a pool exclude each other.                            *)
LoadModule ==
    /\ phase = "list" /\ list # <<>>
    /\ LET e == Head(list)
           Given1(part) == IF part = NoName THEN e.id ELSE part
       IN IF e.id \in DOMAIN poolOf \/ (e.prefix = "+" /\ e.pool # NoName)
          THEN Error /\ UNCHANGED <<started, startupVars>>
          ELSE /\ poolOf' = Put(poolOf, e.id, Pool(e))
               /\ origin' = Put(origin, e.id, <<Given1(e.library), Given1(e.configuration)>>)
               /\ order' = StartLast(e.id)
               /\ list' = Tail(list)
               /\ UNCHANGED <<configVars, phase, parallelism>>

(* Fault: loadModules returns after the first of them.                       *)
LoadedFirst ==
    /\ phase = "list" /\ order # <<>>
    /\ phase' = "done"
    /\ UNCHANGED <<configVars, parallelism, list, poolOf, origin, order>>

LoadedAll ==
    /\ phase = "list" /\ list = <<>>
    /\ phase' = "done"
    /\ UNCHANGED <<configVars, parallelism, list, poolOf, origin, order>>

Next == /\ ~stopped
        /\ \/ ClientLoads \/ ModuleReads
           \/ Construct \/ LoadModules \/ LoadModule \/ LoadedAll

Spec == Init /\ [][Next]_vars

(* The client's thread is not stopped in the middle of a file.               *)
FairSpec == Spec /\ WF_vars(~stopped /\ ParseStep /\ UNCHANGED startupVars)
------------------------------------------------------------------------------
TypeOK ==
    /\ DOMAIN optionStore \subseteq Options /\ sections \subseteq SectionNames
    /\ \A k \in DOMAIN stack : /\ stack[k].file \in DOMAIN content
                               /\ stack[k].line \in 1 .. Len(content[stack[k].file]) + 1
                               /\ stack[k].section \in sections \union {NoSection}
    /\ Len(stack) <= MaxOpen /\ Len(loaded) <= MaxLoads
    /\ \A r \in Readers : got[r] = NotFound \/ got[r][1] \in Options
    /\ started \in BOOLEAN /\ stopped \in BOOLEAN
    /\ phase \in {"construct", "options", "list", "done"}
    /\ DOMAIN poolOf = {order[k] : k \in DOMAIN order} /\ DOMAIN origin = DOMAIN poolOf

(* What bvs.conf:34-39 promises of a word for parallelism: NONE, that the    *)
(* master executes every module; FORCE, a thread for every module; ANY, the  *)
(* pool the element names; and ANY as well as THREAD, a thread for an        *)
(* element that asks for one.  All others stay with the master.              *)
AskedPool(word, e) ==
    CASE word = "NONE" -> "master"
      [] word = "FORCE" -> e.id
      [] word = "ANY" /\ e.pool # NoName -> e.pool
      [] OTHER -> IF e.prefix = "+" THEN e.id ELSE "master"

(* Every module runs in the pool its element asks for under the word the     *)
(* constructor has read (bvs.cc:23, 70-102), whatever was added to the list  *)
(* before and after it was started.                                          *)
PoolsAsConfigured == \A k \in DOMAIN order :
    LET e == optionStore[ModulesOption][k] IN poolOf[e.id] = AskedPool(parallelism, e)

(* The same under the value parallelism has when the modules are started:    *)
(* loadConfigFile "Loads a config File and updates the system" (bvs.h:150).  *)
(* Violated: a file loaded after the constructor may set the option, but the *)
(* system keeps the word it has read (bvs.cc:23).                            *)
PoolsAsOption == phase = "list" => \A k \in DOMAIN order :
    LET e == optionStore[ModulesOption][k]
    IN poolOf[e.id] = AskedPool(Word(ParallelismOption, "ANY"), e)

(* The modules run in the order of the list, from its first element on and   *)
(* without a gap, whichever files have been loaded and added to the list in  *)
(* the meantime: "executes added modules in the given order" (bvs.h:60).     *)
OrderAsListed == \A k \in DOMAIN order :
    ModulesOption \in DOMAIN optionStore /\ order[k] = optionStore[ModulesOption][k].id

(* loadModules returns only when it has started all that was listed          *)
(* (bvs.cc:55-86).                                                           *)
Listed == IF ModulesOption \in DOMAIN optionStore THEN optionStore[ModulesOption] ELSE <<>>
AllStarted == [][phase # "done" /\ phase' = "done" => Len(order') = Len(Listed)]_vars
==============================================================================
