----------------------------- MODULE MCStartup -------------------------------
(***************************************************************************)
(* Small command lines and config files for Startup, and a definition of   *)
(* what they mean that does not execute them: the files are written out    *)
(* into one sequence of lines, with the included files in their places.    *)
(***************************************************************************)
EXTENDS Startup, TLC, FiniteSetsExt

Lists == <<"bvs", "modules">>
Words == <<"bvs", "parallelism">>
AllOptions == {"bvs", "x"} \X {"modules", "parallelism"}
Module(prefix, pool, id) == [prefix |-> prefix, pool |-> pool, id |-> id,
                             library |-> NoName, configuration |-> NoName]
a == Module("", NoName, "a")
b == Module("+", NoName, "b")
c == Module("", "p", "c")

InSection(s) == [kind |-> "section", name |-> s]
Assignment(o, v) == [kind |-> "assign", name |-> o, value |-> <<v>>]
Addition(o, v) == [kind |-> "extend", name |-> o, value |-> <<v>>]
Inclusion(f) == [kind |-> "source", file |-> f]

(* The lines of the file "f", which are three at most, and the file "g",     *)
(* which it may include and which may be missing.                            *)
LinesOfF == {InSection("bvs"), Assignment("modules", b), Addition("modules", c),
             Assignment("parallelism", "FORCE"),
             Inclusion("f"), Inclusion("g"), [kind |-> "bad"]}
FilesF == UNION {[1 .. k -> LinesOfF] : k \in 0 .. 3}
FilesG == {<<>>, <<Assignment("modules", a)>>,
           <<InSection("bvs"), Assignment("modules", a)>>,
           <<InSection("bvs"), Addition("modules", a)>>,
           <<InSection("x"), Assignment("modules", a)>>}
SmallFiles == {("f" :> x) : x \in FilesF} \union {("f" :> x) @@ ("g" :> y) : x \in FilesF, y \in FilesG}
SmallCommandLines ==
    [options : {<<>>, << <<Lists, <<a>>>> >>,
                << <<Words, <<"NONE">>>>, <<Lists, <<b>>>>, <<Words, <<"THREAD">>>> >>},
     file : {"f", NoFile}]
------------------------------------------------------------------------------
(* The section a line of a file is in.                                       *)
Before(f, i) == {j \in 1 .. i - 1 : content[f][j].kind = "section"}
SectionAt(f, i) == IF Before(f, i) = {} THEN NoSection ELSE content[f][Max(Before(f, i))].name

(* The lines of a file without its inclusions.                               *)
RECURSIVE Written(_, _), WrittenFrom(_, _, _)
Written(f, depth) == IF f \notin DOMAIN content \/ depth > MaxOpen
                     THEN <<[kind |-> "bad"]>> ELSE WrittenFrom(f, 1, depth)
WrittenFrom(f, i, depth) ==
    IF i > Len(content[f]) THEN <<>>
    ELSE LET line == content[f][i]
             this == CASE line.kind = "source" -> Written(line.file, depth + 1)
                       [] line.kind \in {"assign", "extend"} ->
                            <<[kind |-> line.kind, option |-> <<SectionAt(f, i), line.name>>,
                               value |-> line.value]>>
                       [] OTHER -> <<line>>
         IN this \o WrittenFrom(f, i + 1, depth)

RECURSIVE WrittenFiles(_)
WrittenFiles(k) == IF k = 0 THEN <<>> ELSE WrittenFiles(k - 1) \o Written(loaded[k], 1)

(* Where an option comes from: the command line, or its first assignment.    *)
Sets(lines, i, o) == lines[i].kind = "assign" /\ lines[i].option = o
Adds(lines, i, o) == lines[i].kind = "extend" /\ lines[i].option = o
IsSet(lines, i, o) == Given(o) # {} \/ \E j \in 1 .. i - 1 : Sets(lines, j, o)

(* What is wrong with the i-th line.                                         *)
Wrong(lines, i) ==
    \/ lines[i].kind = "bad"
    \/ /\ lines[i].kind = "section"
       /\ \E j \in 1 .. i - 1 : lines[j] = lines[i]
    \/ /\ lines[i].kind \in {"assign", "extend"}
       /\ \/ lines[i].option[1] = NoSection
          \/ lines[i].kind = "extend" /\ ~IsSet(lines, i, lines[i].option)

(* The value of an option: the command line's, or else the first that is     *)
(* assigned, and all additions.                                              *)
RECURSIVE Additions(_, _, _)
Additions(lines, i, o) ==
    IF i > Len(lines) THEN <<>>
    ELSE (IF Adds(lines, i, o) THEN lines[i].value ELSE <<>>) \o Additions(lines, i + 1, o)
Meaning(lines, o) ==
    IF ~IsSet(lines, Len(lines) + 1, o) THEN NotFound
    ELSE (IF Given(o) # {} THEN commandLine.options[Max(Given(o))][2]
          ELSE lines[Min({i \in DOMAIN lines : Sets(lines, i, o)})].value)
         \o Additions(lines, 1, o)
Value(o) == IF o \in DOMAIN optionStore THEN optionStore[o] ELSE NotFound
------------------------------------------------------------------------------
(* When a file has been loaded, the options have the values the lines stand  *)
(* for, and no line was wrong (config.cc:107-230).                           *)
StoreIsMeaning == (started /\ ~stopped /\ stack = <<>>) =>
    LET lines == WrittenFiles(Len(loaded))
    IN /\ \A i \in DOMAIN lines : ~Wrong(lines, i)
       /\ \A o \in Options : Value(o) = Meaning(lines, o)

(* A module reads what the files that were loaded completely stand for,      *)
(* never a list with some of its elements (config.cc:125, 238).              *)
ReadsWhole == \A r \in Readers : got[r] = NotFound \/
    \E k \in 0 .. Len(loaded) : got[r][2] = Meaning(WrittenFiles(k), got[r][1])
==============================================================================
