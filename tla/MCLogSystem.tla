---------------------------- MODULE MCLogSystem ------------------------------
(* Finite instances of LogSystem. *)
EXTENDS LogSystem, TLC

CONSTANTS client, pool, \* threads
          ga, gb,       \* loggers
          name          \* their name

(* One logger, or two of one name.  The first one logs everywhere, its       *)
(* errors are handled by the client; the other one's end the process.        *)
NameOfs == [g \in Loggers |-> name]
Targets == [g \in Loggers |-> IF g = ga THEN {"cli", "file"} ELSE {"cli"}]
OwnLevels == [g \in Loggers |-> IF g = ga THEN 0 ELSE 1]
Handlers == [g \in Loggers |-> IF g = ga THEN "client" ELSE "exit"]
OneLevel == [n \in Options |-> 1]
==============================================================================
