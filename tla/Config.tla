------------------------------- MODULE Config --------------------------------
(***************************************************************************)
(* Options and their values (lib/src/config.cc): the client loads the      *)
(* command line and config files, the threads of modules read.             *)
(*                                                                         *)
(* The characters of a line are abstracted to what the line is: the        *)
(* declaration of a section, an assignment, an addition to a list, the     *)
(* inclusion of another file, or none of these.  A value is the sequence   *)
(* of the elements of the list it stands for.                              *)
(***************************************************************************)
EXTENDS Integers, Sequences

CONSTANTS
    Files, NoFile,
    Contents,     \* what the files may contain: functions from Files to sequences of lines
    CommandLines, \* what the command line may be: its options, in order, and config file
    Options,      \* pairs of a section and a name, in lowercase
    NoSection,    \* the empty name
    MaxOpen,      \* how many files the process can have open
    MaxLoads,     \* bound: config files loaded by the client
    Readers,      \* threads that read options
    NotFound

SectionNames == {o[1] : o \in Options} \union {NoSection}
OptionNames == {o[2] : o \in Options}

(* Values are sequences, and so are files and the command line.              *)
IsSequence(v) == v \in Seq({v[i] : i \in DOMAIN v})

(* The files name no section and no option but those of Options, and any     *)
(* name makes an option with any section.                                    *)
ASSUME ConfigAssumption ==
    /\ \A c \in Contents : \A f \in DOMAIN c :
           /\ IsSequence(c[f])
           /\ \A i \in DOMAIN c[f] :
                  /\ c[f][i].kind \in {"assign", "extend"} =>
                        IsSequence(c[f][i].value) /\ c[f][i].name \in OptionNames
                  /\ c[f][i].kind = "section" => c[f][i].name \in SectionNames
    /\ \A c \in CommandLines :
           \A i \in DOMAIN c.options : IsSequence(c.options[i][2])
    /\ \A o, p \in Options : <<o[1], p[2]>> \in Options
    /\ MaxOpen \in Nat /\ MaxLoads \in Nat \ {0}

VARIABLES
    content,     \* the file system
    commandLine, \* argv
    optionStore, \* from the options that are set to their values
    sections,    \* Config::sections, without the places
    stack,       \* the calls of loadConfigFile that are not finished
    loaded,      \* the files loaded so far that no other file included
    got,         \* what each reader read last
    started,     \* the Config object is constructed
    stopped      \* exit(1)

configVars == <<content, commandLine, optionStore, sections, stack, loaded, got,
                started, stopped>>

ConfigInit ==
    /\ content \in Contents
    /\ commandLine \in CommandLines
    /\ optionStore = [o \in {} |-> NotFound]
    /\ sections = {}
    /\ stack = <<>>
    /\ loaded = <<>>
    /\ got = [r \in Readers |-> NotFound]
    /\ started = FALSE /\ stopped = FALSE

Put(f, o, v) == [x \in DOMAIN f \union {o} |-> IF x = o THEN v ELSE f[x]]

(* Config::error                                                             *)
Error == /\ stopped' = TRUE
         /\ UNCHANGED <<content, commandLine, optionStore, sections, stack, loaded, got>>

(* Fault: a file that does not exist is opened.                              *)
CanOpenAny(f) == Len(stack) < MaxOpen

(* The start of loadConfigFile: the file can be opened (109-118).            *)
CanOpen(f) == f \in DOMAIN content /\ Len(stack) < MaxOpen
Frame(f) == [file |-> f, line |-> 1, section |-> NoSection]

(* The last option of a name on the command line; a file named there is      *)
(* loaded afterwards, whatever the order (81-100).                           *)
Given(o) == {i \in DOMAIN commandLine.options : commandLine.options[i][1] = o}
LastGiven(i, o) == i \in Given(o) /\ \A j \in Given(o) : j <= i

LoadCommandLine ==
    /\ ~started
    /\ started' = TRUE
    /\ IF commandLine.file # NoFile /\ ~CanOpen(commandLine.file)
       THEN Error
       ELSE /\ \E last \in [{o \in Options : Given(o) # {}} -> DOMAIN commandLine.options] :
                  /\ \A o \in DOMAIN last : LastGiven(last[o], o)
                  /\ optionStore' = [o \in DOMAIN last |-> commandLine.options[last[o]][2]]
            /\ IF commandLine.file = NoFile
               THEN UNCHANGED <<stack, loaded>>
               ELSE stack' = <<Frame(commandLine.file)>> /\ loaded' = <<commandLine.file>>
            /\ UNCHANGED <<content, commandLine, sections, got, stopped>>

(* The client calls BVS::loadConfigFile.                                     *)
LoadConfigFile(f) ==
    /\ started /\ stack = <<>> /\ Len(loaded) < MaxLoads
    /\ IF ~CanOpen(f)
       THEN Error
       ELSE /\ stack' = <<Frame(f)>>
            /\ loaded' = Append(loaded, f)
            /\ UNCHANGED <<content, commandLine, optionStore, sections, got, stopped>>
    /\ UNCHANGED started
------------------------------------------------------------------------------
Depth == Len(stack)
Top == stack[Depth]
AtLine == stack # <<>> /\ Top.line <= Len(content[Top.file])
Line == content[Top.file][Top.line]
OptionOf == <<Top.section, Line.name>>

(* Fault: the line is read again.                                            *)
SameLine == stack

NextLine == [stack EXCEPT ![Depth].line = @ + 1]

(* getline() fails: return to the file that has included this one.           *)
EndOfFile ==
    /\ stack # <<>> /\ ~AtLine
    /\ stack' = SubSeq(stack, 1, Depth - 1)
    /\ UNCHANGED <<content, commandLine, optionStore, sections, loaded, got, started, stopped>>

(* An included file begins without a section (169-176).                      *)
Source ==
    /\ AtLine /\ Line.kind = "source"
    /\ IF ~CanOpen(Line.file)
       THEN Error
       ELSE /\ stack' = Append(NextLine, Frame(Line.file))
            /\ UNCHANGED <<content, commandLine, optionStore, sections, loaded, got, stopped>>
    /\ UNCHANGED started

(* A section may be declared once, in all the files (179-190).               *)
Section ==
    /\ AtLine /\ Line.kind = "section"
    /\ IF Line.name \in sections
       THEN Error
       ELSE /\ sections' = sections \union {Line.name}
            /\ stack' = [NextLine EXCEPT ![Depth].section = Line.name]
            /\ UNCHANGED <<content, commandLine, optionStore, loaded, got, stopped>>
    /\ UNCHANGED started

(* Fault: the list an option has is replaced.                                *)
ExtendReplacing(o, v) == Put(optionStore, o, v)

(* += (215-222)                                                              *)
Extend(o, v) == Put(optionStore, o, optionStore[o] \o v)

(* The first assignment counts (226).                                        *)
Assign(o, v) == IF o \in DOMAIN optionStore THEN optionStore ELSE Put(optionStore, o, v)

Option ==
    /\ AtLine /\ Line.kind \in {"assign", "extend"}
    /\ IF \/ Top.section = NoSection
          \/ Line.kind = "extend" /\ OptionOf \notin DOMAIN optionStore
       THEN Error
       ELSE /\ optionStore' = IF Line.kind = "extend" THEN Extend(OptionOf, Line.value)
                                                      ELSE Assign(OptionOf, Line.value)
            /\ stack' = NextLine
            /\ UNCHANGED <<content, commandLine, sections, loaded, got, stopped>>
    /\ UNCHANGED started

(* No ']', no '=', nothing before it (183, 196, 208).                        *)
BadLine == AtLine /\ Line.kind = "bad" /\ Error /\ UNCHANGED started

(* Fault: getValue takes no lock.                                            *)
MayReadAnytime(r) == started

(* The lock is held as long as a file is being loaded, and is recursive.     *)
MayRead(r) == started /\ stack = <<>>

(* getValue: searchOption, and the default if it is not found.               *)
GetValue(r, o) ==
    /\ MayRead(r)
    /\ got' = [got EXCEPT ![r] =
                   <<o, IF o \in DOMAIN optionStore THEN optionStore[o] ELSE NotFound>>]
    /\ UNCHANGED <<content, commandLine, optionStore, sections, stack, loaded, started, stopped>>

ParseStep == EndOfFile \/ Source \/ Section \/ Option \/ BadLine
------------------------------------------------------------------------------
(* Whatever files are loaded, in whatever order: a value, once there, is     *)
(* never replaced and never shortened (config.cc:221, 226).                  *)
Extends(v, w) == Len(v) <= Len(w) /\ \A i \in 1 .. Len(v) : w[i] = v[i]
KeepsValues == \A o \in DOMAIN optionStore :
    o \in DOMAIN optionStore' /\ Extends(optionStore[o], optionStore'[o])
ValuesOnlyGrow == [][KeepsValues]_configVars

(* The command line counts before all files, although they are read later    *)
(* and their additions are not told from its own values: the value it gives  *)
(* for an option, the last one, is the beginning of the option's value       *)
(* (config.cc:81-100, 221, 226; config.h:25).                                *)
CommandLineFirst == started /\ ~stopped =>
    \A o \in Options : Given(o) # {} =>
        /\ o \in DOMAIN optionStore
        /\ \E i \in Given(o) : /\ LastGiven(i, o)
                                /\ Extends(commandLine.options[i][2], optionStore[o])

(* A file that is loaded is read to its end or is an error, even one that    *)
(* includes itself.                                                          *)
LoadEnds == stack # <<>> ~> stack = <<>> \/ stopped
==============================================================================
