----------------------------- MODULE StartupProof -----------------------------
(***************************************************************************)
(* What holds of options, pools and the order of modules for any files,    *)
(* command lines, sections and options, however deep files include files:  *)
(* lemmas on the single reads and writes, the order the modules start in,  *)
(* and the types of everything that is read (StartupTyped).                *)
(***************************************************************************)
EXTENDS Startup, SequenceTheorems, TLAPS

(***************************************************************************)
(* The invariant.                                                          *)
(***************************************************************************)
Sources == content \in Contents /\ commandLine \in CommandLines

Names == {NoSection} \union
    UNION {UNION {{c[f][i].name : i \in DOMAIN c[f]} : f \in DOMAIN c} : c \in Contents}
Frames == [file : DOMAIN content, line : Nat \ {0}, section : Names]
StackTyped == stack \in Seq(Frames)

StoreTyped == \A o \in DOMAIN optionStore : IsSequence(optionStore[o])
NotYet == ~started => DOMAIN optionStore = {} /\ stack = <<>>

ConfigInv == Sources /\ StackTyped /\ StoreTyped /\ NotYet

(* What is left of the list is what follows the modules that were started. *)
Modules == optionStore[ModulesOption]
ListLeft ==
    /\ phase \in {"construct", "options"} => order = <<>>
    /\ IsSequence(order)
    /\ phase = "list" =>
           /\ ModulesOption \in DOMAIN optionStore
           /\ IsSequence(list)
           /\ \A j \in 1 .. Len(list) :
                  Len(order) + j <= Len(Modules) /\ list[j] = Modules[Len(order) + j]
Ordered == \A k \in DOMAIN order :
    /\ ModulesOption \in DOMAIN optionStore
    /\ k <= Len(Modules) /\ order[k] = Modules[k].id

(* No file is read while modules are started, and none is left out.        *)
Whole == phase = "list" => stack = <<>> /\ Len(order) + Len(list) = Len(Modules)

(* A module that was started has the pool its element asked for; it is not *)
(* started again, and its element stays where it is.                       *)
PoolsKept == \A k \in DOMAIN order :
    order[k] \in DOMAIN poolOf /\ poolOf[order[k]] = AskedPool(parallelism, Modules[k])

------------------------------------------------------------------------------
(* A sequence is a function on the first numbers.                          *)
LEMMA SequenceShape ==
    ASSUME NEW v, IsSequence(v)
    PROVE  Len(v) \in Nat /\ DOMAIN v = 1 .. Len(v)
  BY LenProperties DEF IsSequence

LEMMA InSequence == ASSUME NEW S, NEW v \in Seq(S) PROVE IsSequence(v)
<1> DEFINE T == {v[i] : i \in DOMAIN v}
<1>1. Len(v) \in Nat /\ v \in [1 .. Len(v) -> S] /\ DOMAIN v = 1 .. Len(v)
  BY LenProperties
<1>2. v \in [1 .. Len(v) -> T]
  BY <1>1
<1>3. v \in Seq(T)
  BY <1>1, <1>2
<1> QED
  BY <1>3 DEF IsSequence

(* What is put behind a sequence leaves it as it was.                      *)
LEMMA ConcatExtends ==
    ASSUME NEW v, NEW w, IsSequence(v), IsSequence(w)
    PROVE  IsSequence(v \o w) /\ Extends(v, v \o w)
<1> DEFINE S == {v[i] : i \in DOMAIN v} \union {w[i] : i \in DOMAIN w}
<1>1. v \in Seq(S) /\ w \in Seq(S)
  BY SeqMonotonic DEF IsSequence
<1> HIDE DEF S
<1>2. /\ v \o w \in Seq(S) /\ Len(v \o w) = Len(v) + Len(w)
      /\ \A i \in 1 .. Len(v) + Len(w) : (v \o w)[i] = IF i <= Len(v) THEN v[i] ELSE w[i - Len(v)]
  BY <1>1, ConcatProperties
<1>3. Len(v) \in Nat /\ Len(w) \in Nat
  BY SequenceShape
<1>4. IsSequence(v \o w)
  BY <1>2, InSequence
<1> DEFINE x == v \o w
<1>5. Len(x) = Len(v) + Len(w) /\ \A i \in 1 .. Len(v) : x[i] = v[i]
  BY <1>2, <1>3
<1> HIDE DEF x
<1>6. Extends(v, x)
  BY <1>3, <1>5 DEF Extends
<1> QED
  BY <1>4, <1>6 DEF x

LEMMA ExtendsItself == ASSUME NEW v, IsSequence(v) PROVE Extends(v, v)
  BY SequenceShape DEF Extends

(* The next line of the innermost file.                                    *)
LEMMA TopFrame ==
    ASSUME StackTyped, stack # <<>>
    PROVE  Depth \in DOMAIN stack /\ Top \in Frames /\ Depth \in Nat \ {0}
           /\ DOMAIN stack = 1 .. Depth
<1>1. Len(stack) \in Nat \ {0} /\ DOMAIN stack = 1 .. Len(stack)
  BY LenProperties, EmptySeq DEF StackTyped
<1> QED
  BY <1>1, ElementOfSeq DEF Depth, Top, StackTyped

LEMMA LineRead ==
    ASSUME Sources, StackTyped, AtLine
    PROVE  /\ Line.kind \in {"assign", "extend"} => IsSequence(Line.value)
           /\ Line.name \in Names
<1> DEFINE f == Top.file
           i == Top.line
<1>1. f \in DOMAIN content /\ i \in Nat \ {0} /\ i <= Len(content[f])
  BY TopFrame DEF AtLine, Frames
<1>2. IsSequence(content[f])
  BY <1>1, ConfigAssumption DEF Sources
<1>3. i \in DOMAIN content[f]
  BY <1>1, <1>2, SequenceShape
<1>4. Line = content[f][i]
  BY DEF Line
<1>5. Line.kind \in {"assign", "extend"} => IsSequence(Line.value)
  BY <1>1, <1>3, <1>4, ConfigAssumption DEF Sources
<1>6. Line.name \in Names
  BY <1>1, <1>3, <1>4 DEF Sources, Names
<1> QED
  BY <1>5, <1>6

LEMMA NextLineTyped ==
    ASSUME StackTyped, stack # <<>>
    PROVE  /\ NextLine \in Seq(Frames) /\ Len(NextLine) = Depth
           /\ \A s \in Names : [NextLine EXCEPT ![Depth].section = s] \in Seq(Frames)
<1>1. /\ Depth \in 1 .. Len(stack) /\ Top \in Frames /\ Depth = Len(stack)
  BY TopFrame, LenProperties DEF StackTyped, Depth
<1> DEFINE next == [Top EXCEPT !.line = @ + 1]
<1>2. next \in Frames
  BY <1>1 DEF Frames
<1>3. NextLine = [stack EXCEPT ![Depth] = next]
  BY <1>1 DEF NextLine, Top
<1> HIDE DEF next
<1>4. NextLine \in Seq(Frames) /\ Len(NextLine) = Len(stack) /\ NextLine[Depth] = next
  BY <1>1, <1>2, <1>3, ExceptSeq DEF StackTyped
<1>5. ASSUME NEW s \in Names PROVE [NextLine EXCEPT ![Depth].section = s] \in Seq(Frames)
  <2> DEFINE there == [next EXCEPT !.section = s]
  <2>1. there \in Frames
    BY <1>2 DEF Frames
  <2>2. [NextLine EXCEPT ![Depth].section = s] = [NextLine EXCEPT ![Depth] = there]
    BY <1>1, <1>4
  <2> HIDE DEF there
  <2> QED
    BY <1>1, <1>4, <2>1, <2>2, ExceptSeq
<1> QED
  BY <1>1, <1>4, <1>5

------------------------------------------------------------------------------
LEMMA ConfigStart == Init => ConfigInv
<1> SUFFICES ASSUME Init PROVE ConfigInv
  OBVIOUS
<1> USE DEF Init, ConfigInit
<1>1. Sources /\ NotYet
  BY DEF Sources, NotYet
<1>2. StackTyped
  BY EmptySeq DEF StackTyped
<1>3. StoreTyped
  BY DEF StoreTyped
<1> QED
  BY <1>1, <1>2, <1>3 DEF ConfigInv

(* What each step does to the options (config.cc:81-100, 201-227).         *)
LEMMA StoreSteps ==
    ASSUME ConfigInv, [Next]_vars
    PROVE  StoreTyped' /\ KeepsValues
<1> USE DEF ConfigInv
<1>1. ASSUME UNCHANGED optionStore PROVE StoreTyped' /\ KeepsValues
  BY <1>1, ExtendsItself DEF StoreTyped, KeepsValues
<1>2. ASSUME LoadCommandLine PROVE StoreTyped' /\ KeepsValues
  <2>1. CASE Error
    BY <1>1, <2>1 DEF Error
  <2>2. CASE ~Error
    <3>1. PICK last \in [{o \in Options : Given(o) # {}} -> DOMAIN commandLine.options] :
              optionStore' = [o \in DOMAIN last |-> commandLine.options[last[o]][2]]
      BY <1>2, <2>2 DEF LoadCommandLine
    <3>2. StoreTyped'
      BY <3>1, ConfigAssumption DEF StoreTyped, Sources
    <3>3. KeepsValues
      BY <1>2 DEF LoadCommandLine, NotYet, KeepsValues
    <3> QED
      BY <3>2, <3>3
  <2> QED
    BY <2>1, <2>2
<1>3. ASSUME Option PROVE StoreTyped' /\ KeepsValues
  <2>1. CASE Error
    BY <1>1, <2>1 DEF Error
  <2>2. CASE ~Error
    <3> DEFINE o == OptionOf
               v == Line.value
    <3>1. /\ AtLine /\ Line.kind \in {"assign", "extend"}
          /\ Line.kind = "extend" => o \in DOMAIN optionStore
          /\ optionStore' = IF Line.kind = "extend" THEN Extend(o, v) ELSE Assign(o, v)
      BY <1>3, <2>2 DEF Option
    <3>2. IsSequence(v)
      BY <3>1, LineRead
    <3> HIDE DEF o, v
    <3>3. ASSUME NEW w, optionStore' = Put(optionStore, o, w), IsSequence(w),
                 o \in DOMAIN optionStore => Extends(optionStore[o], w)
          PROVE  StoreTyped' /\ KeepsValues
      <4>1. /\ DOMAIN optionStore' = DOMAIN optionStore \union {o}
            /\ \A p \in DOMAIN optionStore \union {o} :
                   optionStore'[p] = IF p = o THEN w ELSE optionStore[p]
        BY <3>3 DEF Put
      <4>2. StoreTyped'
        BY <3>3, <4>1 DEF StoreTyped
      <4>3. KeepsValues
        BY <3>3, <4>1, ExtendsItself DEF StoreTyped, KeepsValues
      <4> QED
        BY <4>2, <4>3
    <3>4. CASE Line.kind = "extend"
      <4> DEFINE w == optionStore[o] \o v
      <4>1. IsSequence(w) /\ Extends(optionStore[o], w)
        BY <3>1, <3>2, <3>4, ConcatExtends DEF StoreTyped
      <4>2. optionStore' = Put(optionStore, o, w)
        BY <3>1, <3>4 DEF Extend
      <4> HIDE DEF w
      <4> QED
        BY <3>3, <4>1, <4>2
    <3>5. CASE Line.kind # "extend" /\ o \in DOMAIN optionStore
      BY <1>1, <3>1, <3>5 DEF Assign
    <3>6. CASE Line.kind # "extend" /\ o \notin DOMAIN optionStore
      BY <3>1, <3>2, <3>3, <3>6 DEF Assign
    <3> QED
      BY <3>4, <3>5, <3>6
  <2> QED
    BY <2>1, <2>2
<1>4. ASSUME NEW f, LoadConfigFile(f) PROVE StoreTyped' /\ KeepsValues
  BY <1>1, <1>4 DEF LoadConfigFile, Error
<1>5. ASSUME EndOfFile \/ Source \/ Section \/ BadLine PROVE StoreTyped' /\ KeepsValues
  BY <1>1, <1>5 DEF EndOfFile, Source, Section, BadLine, Error
<1>6. ASSUME NEW r, NEW o, GetValue(r, o) PROVE StoreTyped' /\ KeepsValues
  BY <1>1, <1>6 DEF GetValue
<1>7. ASSUME Construct \/ LoadModules \/ LoadModule \/ LoadedAll
      PROVE  StoreTyped' /\ KeepsValues
  BY <1>1, <1>7 DEF Construct, LoadModules, LoadModule, LoadedAll, Error, configVars
<1>8. ASSUME vars' = vars PROVE StoreTyped' /\ KeepsValues
  BY <1>1, <1>8 DEF vars, configVars
<1> QED
  BY <1>2, <1>3, <1>4, <1>5, <1>6, <1>7, <1>8 DEF Next, ClientLoads, ParseStep, ModuleReads

(* The stack of files that are being read (107-128, 163-176, 185-190).     *)
LEMMA StackSteps ==
    ASSUME ConfigInv, [Next]_vars
    PROVE  Sources' /\ StackTyped' /\ NotYet'
<1> USE DEF ConfigInv
<1>1. ASSUME UNCHANGED <<content, commandLine>> PROVE Sources' /\ Frames' = Frames
  BY <1>1 DEF Sources, Frames
<1>2. ASSUME UNCHANGED <<content, commandLine, stack, optionStore>>, started' \in {started, TRUE}
      PROVE  Sources' /\ StackTyped' /\ NotYet'
  BY <1>1, <1>2 DEF StackTyped, NotYet
<1>3. ASSUME NEW f \in DOMAIN content PROVE <<Frame(f)>> \in Seq(Frames)
  <2>1. Frame(f) \in Frames
    BY DEF Frame, Frames, Names
  <2> QED
    BY <2>1
<1>4. ASSUME LoadCommandLine PROVE Sources' /\ StackTyped' /\ NotYet'
  <2>1. CASE Error
    BY <1>2, <1>4, <2>1 DEF Error, LoadCommandLine
  <2>2. CASE ~Error
    <3>1. /\ started' = TRUE /\ UNCHANGED <<content, commandLine>>
          /\ \/ UNCHANGED stack
             \/ commandLine.file \in DOMAIN content /\ stack' = <<Frame(commandLine.file)>>
      BY <1>4, <2>2 DEF LoadCommandLine, CanOpen
    <3> QED
      BY <1>1, <1>3, <3>1 DEF StackTyped, NotYet
  <2> QED
    BY <2>1, <2>2
<1>5. ASSUME NEW f, LoadConfigFile(f) PROVE Sources' /\ StackTyped' /\ NotYet'
  <2>1. CASE Error
    BY <1>2, <1>5, <2>1 DEF Error, LoadConfigFile
  <2>2. CASE ~Error
    <3>1. /\ started /\ UNCHANGED <<content, commandLine, started>>
          /\ f \in DOMAIN content /\ stack' = <<Frame(f)>>
      BY <1>5, <2>2 DEF LoadConfigFile, CanOpen
    <3> QED
      BY <1>1, <1>3, <3>1 DEF StackTyped, NotYet
  <2> QED
    BY <2>1, <2>2
<1>6. ASSUME stack # <<>>, UNCHANGED <<content, commandLine, started>>, stack' \in Seq(Frames)
      PROVE  Sources' /\ StackTyped' /\ NotYet'
  BY <1>1, <1>6 DEF StackTyped, NotYet
<1>7. ASSUME EndOfFile PROVE Sources' /\ StackTyped' /\ NotYet'
  <2>1. stack # <<>> /\ UNCHANGED <<content, commandLine, started>>
        /\ stack' = SubSeq(stack, 1, Depth - 1)
    BY <1>7 DEF EndOfFile
  <2>2. Depth - 1 \in Int /\ \A k \in 1 .. Depth - 1 : stack[k] \in Frames
    BY <2>1, TopFrame, ElementOfSeq DEF StackTyped, Depth
  <2>3. SubSeq(stack, 1, Depth - 1) \in Seq(Frames)
    BY <2>2, SubSeqProperties
  <2> QED
    BY <1>6, <2>1, <2>3
<1>8. ASSUME Source PROVE Sources' /\ StackTyped' /\ NotYet'
  <2>1. CASE Error
    BY <1>2, <1>8, <2>1 DEF Error, Source
  <2>2. CASE ~Error
    <3>1. /\ stack # <<>> /\ UNCHANGED <<content, commandLine, started>>
          /\ Line.file \in DOMAIN content /\ stack' = Append(NextLine, Frame(Line.file))
      BY <1>8, <2>2 DEF Source, AtLine, CanOpen
    <3>2. Frame(Line.file) \in Frames
      BY <3>1 DEF Frame, Frames, Names
    <3>3. NextLine \in Seq(Frames)
      BY <3>1, NextLineTyped
    <3>4. Append(NextLine, Frame(Line.file)) \in Seq(Frames)
      BY <3>2, <3>3, AppendProperties
    <3> QED
      BY <1>6, <3>1, <3>4
  <2> QED
    BY <2>1, <2>2
<1>9. ASSUME Section PROVE Sources' /\ StackTyped' /\ NotYet'
  <2>1. CASE Error
    BY <1>2, <1>9, <2>1 DEF Error, Section
  <2>2. CASE ~Error
    <3>1. /\ AtLine /\ stack # <<>> /\ UNCHANGED <<content, commandLine, started>>
          /\ stack' = [NextLine EXCEPT ![Depth].section = Line.name]
      BY <1>9, <2>2 DEF Section, AtLine
    <3>2. Line.name \in Names
      BY <3>1, LineRead
    <3> QED
      BY <1>6, <3>1, <3>2, NextLineTyped
  <2> QED
    BY <2>1, <2>2
<1>10. ASSUME Option PROVE Sources' /\ StackTyped' /\ NotYet'
  <2>1. CASE Error
    BY <1>2, <1>10, <2>1 DEF Error, Option
  <2>2. CASE ~Error
    <3>1. /\ stack # <<>> /\ UNCHANGED <<content, commandLine, started>>
          /\ stack' = NextLine
      BY <1>10, <2>2 DEF Option, AtLine
    <3> QED
      BY <1>6, <3>1, NextLineTyped
  <2> QED
    BY <2>1, <2>2
<1>11. ASSUME BadLine PROVE Sources' /\ StackTyped' /\ NotYet'
  BY <1>2, <1>11 DEF BadLine, Error
<1>12. ASSUME NEW r, NEW o, GetValue(r, o) PROVE Sources' /\ StackTyped' /\ NotYet'
  BY <1>2, <1>12 DEF GetValue
<1>13. ASSUME Construct \/ LoadModules \/ LoadModule \/ LoadedAll
       PROVE  Sources' /\ StackTyped' /\ NotYet'
  BY <1>2, <1>13 DEF Construct, LoadModules, LoadModule, LoadedAll, Error, configVars
<1>14. ASSUME vars' = vars PROVE Sources' /\ StackTyped' /\ NotYet'
  BY <1>2, <1>14 DEF vars, configVars
<1> QED
  BY <1>4, <1>5, <1>7, <1>8, <1>9, <1>10, <1>11, <1>12, <1>13, <1>14
     DEF Next, ClientLoads, ParseStep, ModuleReads

LEMMA ConfigInvariant == Spec => []ConfigInv
<1>1. ConfigInv /\ [Next]_vars => ConfigInv'
  BY StoreSteps, StackSteps DEF ConfigInv
<1> QED
  BY <1>1, ConfigStart, PTL DEF Spec

------------------------------------------------------------------------------
(* A value that is set is never replaced and never shortened, whatever files *)
(* are loaded (config.cc:221, 226).                                          *)
THEOREM ValuesGrow == Spec => ValuesOnlyGrow
<1>1. ConfigInv /\ [Next]_vars => [KeepsValues]_configVars
  BY StoreSteps
<1> QED
  BY <1>1, ConfigInvariant, PTL DEF Spec, ValuesOnlyGrow

(* What extends a value that extends another one extends that one too.       *)
LEMMA ExtendsFurther ==
    ASSUME NEW u, NEW v, NEW w, IsSequence(u), IsSequence(v), IsSequence(w),
           Extends(u, v), Extends(v, w)
    PROVE  Extends(u, w)
<1>1. Len(u) \in Nat /\ Len(v) \in Nat /\ Len(w) \in Nat
  BY SequenceShape
<1> QED
  BY <1>1 DEF Extends

(* A step keeps the beginning of a value, and the command line is loaded     *)
(* before there is any.                                                      *)
LEMMA FirstStays ==
    ASSUME ConfigInv, CommandLineFirst, [Next]_vars
    PROVE  CommandLineFirst'
<1> USE DEF ConfigInv
<1>1. StoreTyped' /\ KeepsValues
  BY StoreSteps
<1>2. CASE LoadCommandLine
  <2>1. CASE Error
    BY <2>1 DEF Error, CommandLineFirst
  <2>2. CASE ~Error
    <3>1. PICK last \in [{o \in Options : Given(o) # {}} -> DOMAIN commandLine.options] :
              /\ \A o \in DOMAIN last : LastGiven(last[o], o)
              /\ optionStore' = [o \in DOMAIN last |-> commandLine.options[last[o]][2]]
      BY <1>2, <2>2 DEF LoadCommandLine
    <3>2. UNCHANGED commandLine
      BY <1>2, <2>2 DEF LoadCommandLine
    <3> SUFFICES ASSUME NEW o \in Options, Given(o) # {}
                 PROVE  /\ o \in DOMAIN optionStore'
                        /\ LastGiven(last[o], o)
                        /\ Extends(commandLine.options[last[o]][2], optionStore'[o])
      BY <3>2 DEF CommandLineFirst, LastGiven, Given
    <3>3. o \in DOMAIN last /\ last[o] \in DOMAIN commandLine.options
      BY <3>1
    <3>4. IsSequence(commandLine.options[last[o]][2])
      BY <3>3, ConfigAssumption DEF Sources
    <3> QED
      BY <3>1, <3>3, <3>4, ExtendsItself
  <2> QED
    BY <2>1, <2>2
<1>3. CASE ~LoadCommandLine
  <2>1. UNCHANGED <<commandLine, started>> /\ (stopped => stopped')
    BY <1>3 DEF Next, ClientLoads, ParseStep, ModuleReads, LoadConfigFile, EndOfFile, Source,
       Section, Option, BadLine, GetValue, Construct, LoadModules, LoadModule, LoadedAll,
       Error, vars, configVars
  <2> SUFFICES ASSUME started, ~stopped, NEW o \in Options, Given(o) # {}
               PROVE  /\ o \in DOMAIN optionStore'
                      /\ \E i \in Given(o) :
                             /\ LastGiven(i, o)
                             /\ Extends(commandLine.options[i][2], optionStore'[o])
    BY <2>1 DEF CommandLineFirst, LastGiven, Given
  <2>2. PICK i \in Given(o) : /\ o \in DOMAIN optionStore /\ LastGiven(i, o)
                              /\ Extends(commandLine.options[i][2], optionStore[o])
    BY DEF CommandLineFirst
  <2>3. o \in DOMAIN optionStore' /\ Extends(optionStore[o], optionStore'[o])
    BY <1>1, <2>2 DEF KeepsValues
  <2>4. /\ IsSequence(commandLine.options[i][2]) /\ IsSequence(optionStore[o])
        /\ IsSequence(optionStore'[o])
    BY <1>1, <2>2, <2>3, ConfigAssumption DEF Sources, StoreTyped, Given
  <2> QED
    BY <2>2, <2>3, <2>4, ExtendsFurther
<1> QED
  BY <1>2, <1>3

(* The value the command line gives, the last one, is the beginning of the   *)
(* option's value, through all files that assign it or add to it             *)
(* (config.cc:81-100, 221, 226; config.h:25).                                *)
THEOREM CommandLineStays == Spec => []CommandLineFirst
<1>1. Init => CommandLineFirst
  BY DEF Init, ConfigInit, CommandLineFirst
<1> QED
  BY <1>1, FirstStays, ConfigInvariant, PTL DEF Spec

------------------------------------------------------------------------------
(* The order of the modules.                                                 *)
LEMMA HeadTail ==
    ASSUME NEW v, IsSequence(v), v # <<>>
    PROVE  /\ Len(v) \in Nat \ {0} /\ Head(v) = v[1] /\ IsSequence(Tail(v))
           /\ Len(Tail(v)) = Len(v) - 1 /\ \A j \in 1 .. Len(v) - 1 : Tail(v)[j] = v[j + 1]
<1> DEFINE S == {v[i] : i \in DOMAIN v}
<1>1. v \in Seq(S)
  BY DEF IsSequence
<1> HIDE DEF S
<1>2. Head(v) = v[1] /\ Tail(v) \in Seq(S) /\ Len(Tail(v)) = Len(v) - 1
  BY <1>1, HeadTailProperties
<1>3. \A j \in 1 .. Len(v) - 1 : Tail(v)[j] = v[j + 1]
  BY <1>1, <1>2, HeadTailProperties
<1>4. Len(v) \in Nat \ {0}
  BY <1>1, EmptySeq, LenProperties
<1> QED
  BY <1>2, <1>3, <1>4, InSequence

LEMMA AppendShape ==
    ASSUME NEW v, NEW x, IsSequence(v)
    PROVE  /\ IsSequence(Append(v, x)) /\ Len(Append(v, x)) = Len(v) + 1
           /\ Append(v, x)[Len(v) + 1] = x
           /\ \A i \in 1 .. Len(v) : Append(v, x)[i] = v[i]
<1> DEFINE S == {v[i] : i \in DOMAIN v} \union {x}
<1>1. v \in Seq(S) /\ x \in S
  BY SeqMonotonic DEF IsSequence
<1> HIDE DEF S
<1>2. /\ Append(v, x) \in Seq(S) /\ Len(Append(v, x)) = Len(v) + 1
      /\ Append(v, x)[Len(v) + 1] = x
      /\ \A i \in 1 .. Len(v) : Append(v, x)[i] = v[i]
  BY <1>1, AppendProperties
<1> QED
  BY <1>2, InSequence

(* Additions to the list leave what was started, and what is left, in place. *)
LEMMA ListKept ==
    ASSUME ConfigInv, ListLeft, Ordered, StoreTyped', KeepsValues, UNCHANGED startupVars
    PROVE  ListLeft' /\ Ordered'
<1> USE DEF startupVars
<1>1. ASSUME ModulesOption \in DOMAIN optionStore
      PROVE  /\ ModulesOption \in DOMAIN optionStore'
             /\ Len(Modules) \in Nat /\ Len(Modules') \in Nat /\ Len(Modules) <= Len(Modules')
             /\ \A i \in 1 .. Len(Modules) : Modules'[i] = Modules[i]
  <2>1. ModulesOption \in DOMAIN optionStore' /\ Extends(Modules, Modules')
    BY <1>1 DEF KeepsValues, Modules
  <2>2. IsSequence(Modules) /\ IsSequence(Modules')
    BY <1>1, <2>1 DEF ConfigInv, StoreTyped, Modules
  <2>3. Len(Modules) \in Nat /\ Len(Modules') \in Nat
    BY <2>2, SequenceShape
  <2> QED
    BY <2>1, <2>3 DEF Extends
<1>2. Len(order) \in Nat /\ DOMAIN order = 1 .. Len(order)
  BY SequenceShape DEF ListLeft
<1>3. ListLeft'
  <2>1. ASSUME phase = "list"
        PROVE  /\ ModulesOption \in DOMAIN optionStore'
               /\ \A j \in 1 .. Len(list) : Len(order) + j <= Len(Modules')
                                           /\ list[j] = Modules'[Len(order) + j]
    <3>1. ModulesOption \in DOMAIN optionStore /\ Len(list) \in Nat
      BY <2>1, SequenceShape DEF ListLeft
    <3>2. ASSUME NEW j \in 1 .. Len(list)
          PROVE  Len(order) + j <= Len(Modules') /\ list[j] = Modules'[Len(order) + j]
      <4>1. Len(order) + j <= Len(Modules) /\ list[j] = Modules[Len(order) + j]
        BY <2>1 DEF ListLeft
      <4>2. Len(order) + j \in 1 .. Len(Modules)
        BY <1>1, <1>2, <3>1, <4>1
      <4> QED
        BY <1>1, <3>1, <4>1, <4>2
    <3> QED
      BY <1>1, <3>1, <3>2
  <2> QED
    BY <2>1 DEF ListLeft
<1>4. Ordered'
  <2>1. ASSUME NEW k \in DOMAIN order
        PROVE  /\ ModulesOption \in DOMAIN optionStore'
               /\ k <= Len(Modules') /\ order[k] = Modules'[k].id
    <3>1. ModulesOption \in DOMAIN optionStore /\ k <= Len(Modules) /\ order[k] = Modules[k].id
      BY DEF Ordered
    <3>2. k \in 1 .. Len(Modules)
      BY <1>1, <1>2, <3>1
    <3> QED
      BY <1>1, <3>1, <3>2
  <2> QED
    BY <2>1 DEF Ordered
<1> QED
  BY <1>3, <1>4

LEMMA ListSteps ==
    ASSUME ConfigInv, ListLeft, Ordered, [Next]_vars
    PROVE  ListLeft' /\ Ordered'
<1>1. ASSUME UNCHANGED startupVars PROVE ListLeft' /\ Ordered'
  BY <1>1, StoreSteps, ListKept
<1>2. ASSUME ClientLoads \/ ModuleReads \/ vars' = vars PROVE ListLeft' /\ Ordered'
  BY <1>1, <1>2 DEF ClientLoads, ModuleReads, vars
<1>3. ASSUME Construct PROVE ListLeft' /\ Ordered'
  BY <1>3 DEF Construct, ListLeft, Ordered, Modules, configVars
<1>4. ASSUME LoadModules PROVE ListLeft' /\ Ordered'
  <2>1. order = <<>> /\ order' = order /\ optionStore' = optionStore /\ Len(order) = 0
    BY <1>4, LenProperties DEF LoadModules, ListLeft, configVars
  <2>2. CASE ModulesOption \in DOMAIN optionStore
    <3>1. list' = Modules /\ phase' = "list"
      BY <1>4, <2>2 DEF LoadModules, Modules
    <3>2. IsSequence(Modules) /\ Len(Modules) \in Nat
      BY <2>2, SequenceShape DEF ConfigInv, StoreTyped, Modules
    <3>3. Modules' = Modules
      BY <2>1 DEF Modules
    <3>4. ListLeft'
      BY <2>1, <2>2, <3>1, <3>2, <3>3 DEF ListLeft
    <3> QED
      BY <2>1, <3>3, <3>4 DEF Ordered
  <2>3. CASE ModulesOption \notin DOMAIN optionStore
    BY <1>4, <2>1, <2>3 DEF LoadModules, ListLeft, Ordered, Modules
  <2> QED
    BY <2>2, <2>3
<1>5. ASSUME LoadModule PROVE ListLeft' /\ Ordered'
  <2> DEFINE e == Head(list)
  <2>1. CASE UNCHANGED startupVars
    BY <1>1, <2>1
  <2>2. CASE /\ order' = Append(order, e.id) /\ list' = Tail(list)
             /\ UNCHANGED <<optionStore, phase>>
    <3>1. phase = "list" /\ list # <<>>
      BY <1>5 DEF LoadModule
    <3>2. /\ ModulesOption \in DOMAIN optionStore /\ IsSequence(order) /\ IsSequence(list)
          /\ \A j \in 1 .. Len(list) :
                 Len(order) + j <= Len(Modules) /\ list[j] = Modules[Len(order) + j]
      BY <3>1 DEF ListLeft
    <3>3. /\ Len(list) \in Nat \ {0} /\ e = list[1] /\ IsSequence(list')
          /\ Len(list') = Len(list) - 1 /\ \A j \in 1 .. Len(list) - 1 : list'[j] = list[j + 1]
      BY <2>2, <3>1, <3>2, HeadTail
    <3>4. Len(order) \in Nat /\ DOMAIN order = 1 .. Len(order)
      BY <3>2, SequenceShape
    <3>5. /\ IsSequence(order') /\ Len(order') = Len(order) + 1
          /\ order'[Len(order) + 1] = e.id
          /\ \A i \in 1 .. Len(order) : order'[i] = order[i]
      BY <2>2, <3>2, AppendShape
    <3>6. DOMAIN order' = 1 .. Len(order) + 1
      BY <3>5, SequenceShape
    <3>7. Modules' = Modules
      BY <2>2 DEF Modules
    <3> HIDE DEF e
    <3>8. ListLeft'
      <4>1. ASSUME NEW j \in 1 .. Len(list')
            PROVE  Len(order') + j <= Len(Modules) /\ list'[j] = Modules[Len(order') + j]
        <5>1. j \in Nat /\ j + 1 \in 1 .. Len(list) /\ j \in 1 .. Len(list) - 1
          BY <3>3
        <5>2. Len(order) + (j + 1) = Len(order') + j
          BY <3>4, <3>5, <5>1
        <5> QED
          BY <3>2, <3>3, <5>1, <5>2
      <4> QED
        BY <2>2, <3>1, <3>2, <3>3, <3>5, <3>7, <4>1 DEF ListLeft
    <3>9. Ordered'
      <4>1. ASSUME NEW k \in DOMAIN order'
            PROVE  k <= Len(Modules) /\ order'[k] = Modules[k].id
        <5>1. CASE k \in 1 .. Len(order)
          BY <3>4, <3>5, <5>1 DEF Ordered
        <5>2. CASE k = Len(order) + 1
          <6>1. 1 \in 1 .. Len(list)
            BY <3>3
          <6> QED
            BY <3>2, <3>3, <3>5, <5>2, <6>1
        <5> QED
          BY <3>4, <3>6, <5>1, <5>2
      <4> QED
        BY <2>2, <3>2, <3>7, <4>1 DEF Ordered
    <3> QED
      BY <3>8, <3>9
  <2> QED
    BY <1>5, <2>1, <2>2 DEF LoadModule, StartLast, configVars
<1>6. ASSUME LoadedAll PROVE ListLeft' /\ Ordered'
  BY <1>6 DEF LoadedAll, ListLeft, Ordered, Modules, configVars
<1> QED
  BY <1>2, <1>3, <1>4, <1>5, <1>6 DEF Next

LEMMA ListStart == Init => ListLeft /\ Ordered
<1> SUFFICES ASSUME Init PROVE ListLeft /\ Ordered
  OBVIOUS
<1>1. order = <<>> /\ phase = "construct"
  BY DEF Init
<1>2. IsSequence(order)
  BY <1>1, EmptySeq, InSequence
<1> QED
  BY <1>1, <1>2 DEF ListLeft, Ordered

(* Modules are started in the order of the list, from its first element on   *)
(* (bvs.h:60, bvs.cc:70-86), and additions to the list do not change that.   *)
THEOREM ListOrder == Spec => []OrderAsListed
<1>1. (ListLeft /\ Ordered) /\ ConfigInv /\ [Next]_vars => (ListLeft /\ Ordered)'
  BY ListSteps
<1>2. Ordered => OrderAsListed
  BY DEF Ordered, OrderAsListed, Modules
<1> QED
  BY ListStart, <1>1, <1>2, ConfigInvariant, PTL DEF Spec

LEMMA WholeSteps ==
    ASSUME ConfigInv, ListLeft, Whole, [Next]_vars
    PROVE  Whole'
<1> USE DEF startupVars
<1>1. ASSUME UNCHANGED <<phase, stack, order, list, optionStore>> PROVE Whole'
  BY <1>1 DEF Whole, Modules
<1>2. ASSUME ClientLoads, phase = "list" PROVE FALSE
  <2>1. stack = <<>> /\ ParseStep
    BY <1>2 DEF Whole, ClientLoads
  <2> QED
    BY <2>1 DEF ParseStep, EndOfFile, Source, Section, Option, BadLine, AtLine
<1>3. ASSUME ClientLoads PROVE Whole'
  BY <1>2, <1>3 DEF ClientLoads, Whole
<1>4. ASSUME ModuleReads \/ vars' = vars PROVE Whole'
  BY <1>1, <1>4 DEF ModuleReads, GetValue, vars, configVars
<1>5. ASSUME Construct \/ LoadedAll PROVE Whole'
  BY <1>5 DEF Construct, LoadedAll, Whole
<1>6. ASSUME LoadModules PROVE Whole'
  <2>1. CASE ModulesOption \in DOMAIN optionStore
    <3>1. /\ stack' = <<>> /\ order' = <<>> /\ list' = Modules /\ Modules' = Modules
      BY <1>6, <2>1 DEF LoadModules, ListLeft, Modules, configVars
    <3>2. Len(Modules) \in Nat /\ Len(<<>>) = 0
      BY <2>1, SequenceShape, LenProperties DEF ConfigInv, StoreTyped, Modules
    <3> QED
      BY <3>1, <3>2 DEF Whole
  <2>2. CASE ModulesOption \notin DOMAIN optionStore
    BY <1>6, <2>2 DEF LoadModules, Whole
  <2> QED
    BY <2>1, <2>2
<1>7. ASSUME LoadModule PROVE Whole'
  <2> DEFINE e == Head(list)
  <2>1. /\ phase = "list" /\ list # <<>> /\ IsSequence(list) /\ IsSequence(order)
        /\ stack = <<>> /\ Len(order) + Len(list) = Len(Modules)
    BY <1>7 DEF LoadModule, ListLeft, Whole
  <2>2. CASE UNCHANGED <<startupVars, stack, optionStore>>
    BY <1>1, <2>2
  <2>3. CASE /\ order' = Append(order, e.id) /\ list' = Tail(list)
             /\ UNCHANGED <<optionStore, phase, stack>>
    <3>1. Len(list) \in Nat \ {0} /\ Len(list') = Len(list) - 1
      BY <2>1, <2>3, HeadTail
    <3> HIDE DEF e
    <3>2. Len(order) \in Nat /\ Len(order') = Len(order) + 1
      BY <2>1, <2>3, SequenceShape, AppendShape
    <3>3. Modules' = Modules
      BY <2>3 DEF Modules
    <3> QED
      BY <2>1, <2>3, <3>1, <3>2, <3>3 DEF Whole
  <2> QED
    BY <1>7, <2>2, <2>3 DEF LoadModule, Error, StartLast, configVars
<1> QED
  BY <1>3, <1>4, <1>5, <1>6, <1>7 DEF Next

(* loadModules has started the whole list when it returns (bvs.cc:55-86).    *)
THEOREM AllListed == Spec => AllStarted
<1> DEFINE Inv == ListLeft /\ Ordered /\ Whole
<1>1. Init => Inv
  BY ListStart DEF Init, Whole
<1>2. Inv /\ ConfigInv /\ [Next]_vars => Inv'
  BY ListSteps, WholeSteps
<1>3. Inv /\ ConfigInv /\ [Next]_vars
          => [phase # "done" /\ phase' = "done" => Len(order') = Len(Listed)]_vars
  <2> SUFFICES ASSUME ListLeft, Whole, ConfigInv, Next, phase # "done", phase' = "done"
               PROVE  Len(order') = Len(Listed)
    OBVIOUS
  <2>1. CASE LoadModules
    <3>1. order' = <<>> /\ ModulesOption \notin DOMAIN optionStore
      BY <2>1 DEF LoadModules, ListLeft
    <3> QED
      BY <3>1 DEF Listed
  <2>2. CASE LoadedAll
    <3>1. order' = order /\ phase = "list" /\ list = <<>>
      BY <2>2 DEF LoadedAll
    <3>2. ModulesOption \in DOMAIN optionStore /\ IsSequence(order)
      BY <3>1 DEF ListLeft
    <3>3. Len(order) \in Nat /\ Len(list) = 0
      BY <3>1, <3>2, SequenceShape, LenProperties
    <3> QED
      BY <3>1, <3>2, <3>3 DEF Whole, Listed, Modules
  <2>3. CASE UNCHANGED phase
    BY <2>3
  <2>4. ClientLoads \/ ModuleReads \/ Construct \/ LoadModule => UNCHANGED phase \/ phase' = "options"
    BY DEF ClientLoads, ModuleReads, startupVars, Construct, LoadModule
  <2> QED
    BY <2>1, <2>2, <2>3, <2>4 DEF Next
<1> QED
  BY <1>1, <1>2, <1>3, ConfigInvariant, PTL DEF Spec, AllStarted

------------------------------------------------------------------------------
(* The pools.                                                                *)
LEMMA PoolChosen == ASSUME NEW e PROVE Pool(e) = AskedPool(parallelism, e)
  BY DEF Pool, SinglePool, AskedPool

LEMMA PoolSteps ==
    ASSUME ConfigInv, ListLeft, Ordered, PoolsKept, [Next]_vars
    PROVE  PoolsKept'
<1> USE DEF startupVars
<1>1. Len(order) \in Nat /\ DOMAIN order = 1 .. Len(order)
  BY SequenceShape DEF ListLeft
<1>2. ASSUME NEW k \in DOMAIN order
      PROVE  Modules'[k] = Modules[k]
  <2>1. /\ ModulesOption \in DOMAIN optionStore /\ k \in 1 .. Len(order) /\ k <= Len(Modules)
    BY <1>1, <1>2 DEF Ordered
  <2>2. ModulesOption \in DOMAIN optionStore' /\ Extends(Modules, Modules')
    BY <2>1, StoreSteps DEF KeepsValues, Modules
  <2>3. Len(Modules) \in Nat
    BY <2>1, SequenceShape DEF ConfigInv, StoreTyped, Modules
  <2> QED
    BY <1>1, <2>1, <2>2, <2>3 DEF Extends
<1>3. ASSUME UNCHANGED <<order, poolOf, parallelism>> PROVE PoolsKept'
  BY <1>2, <1>3 DEF PoolsKept
<1>4. ASSUME ClientLoads \/ ModuleReads \/ vars' = vars PROVE PoolsKept'
  BY <1>3, <1>4 DEF ClientLoads, ModuleReads, vars
<1>5. ASSUME Construct PROVE PoolsKept'
  BY <1>1, <1>5 DEF Construct, ListLeft, PoolsKept
<1>6. ASSUME LoadModules \/ LoadedAll PROVE PoolsKept'
  BY <1>3, <1>6 DEF LoadModules, LoadedAll
<1>7. ASSUME LoadModule PROVE PoolsKept'
  <2> DEFINE e == Head(list)
  <2>1. CASE UNCHANGED startupVars
    BY <1>3, <2>1
  <2>2. CASE /\ e.id \notin DOMAIN poolOf /\ poolOf' = Put(poolOf, e.id, Pool(e))
             /\ order' = Append(order, e.id)
             /\ UNCHANGED <<optionStore, parallelism>>
    <3>1. /\ ModulesOption \in DOMAIN optionStore /\ IsSequence(order) /\ IsSequence(list)
          /\ \A j \in 1 .. Len(list) : list[j] = Modules[Len(order) + j]
          /\ list # <<>>
      BY <1>7 DEF LoadModule, ListLeft
    <3>2. Len(list) \in Nat \ {0} /\ e = list[1]
      BY <3>1, HeadTail
    <3>3. e = Modules[Len(order) + 1]
      BY <3>1, <3>2
    <3> HIDE DEF e
    <3>4. /\ IsSequence(order') /\ Len(order') = Len(order) + 1
          /\ order'[Len(order) + 1] = e.id
          /\ \A i \in 1 .. Len(order) : order'[i] = order[i]
      BY <2>2, <3>1, AppendShape
    <3>5. DOMAIN order' = 1 .. Len(order) + 1
      BY <3>4, SequenceShape
    <3>6. /\ DOMAIN poolOf' = DOMAIN poolOf \union {e.id}
          /\ poolOf'[e.id] = Pool(e)
          /\ \A m \in DOMAIN poolOf : poolOf'[m] = poolOf[m]
      BY <2>2 DEF Put
    <3>7. ASSUME NEW k \in DOMAIN order'
          PROVE  /\ order'[k] \in DOMAIN poolOf'
                 /\ poolOf'[order'[k]] = AskedPool(parallelism, Modules[k])
      <4>1. CASE k \in 1 .. Len(order)
        BY <1>1, <3>4, <3>6, <4>1 DEF PoolsKept
      <4>2. CASE k = Len(order) + 1
        BY <3>3, <3>4, <3>6, <4>2, PoolChosen
      <4> QED
        BY <1>1, <3>5, <4>1, <4>2
    <3>8. Modules' = Modules /\ parallelism' = parallelism
      BY <2>2 DEF Modules
    <3> QED
      BY <3>7, <3>8 DEF PoolsKept
  <2> QED
    BY <1>7, <2>1, <2>2 DEF LoadModule, StartLast, configVars
<1> QED
  BY <1>4, <1>5, <1>6, <1>7 DEF Next

(* Every module runs in the pool its element asks for under the word the     *)
(* constructor has read (bvs.conf:34-39, bvs.cc:70-102), for any list.       *)
THEOREM PoolsFollow == Spec => []PoolsAsConfigured
<1> DEFINE Inv == ListLeft /\ Ordered /\ PoolsKept
<1>1. Init => Inv
  BY ListStart DEF Init, PoolsKept
<1>2. Inv /\ ConfigInv /\ [Next]_vars => Inv'
  BY ListSteps, PoolSteps
<1>3. Inv => PoolsAsConfigured
  BY DEF Ordered, PoolsKept, PoolsAsConfigured, Modules
<1> QED
  BY <1>1, <1>2, <1>3, ConfigInvariant, PTL DEF Spec

------------------------------------------------------------------------------
(* The types.  A frame is at a line of its file, or behind the last one, and *)
(* in a section that has been declared; so an option that is set is the pair *)
(* of a declared section and a name, whichever file the line is in.          *)
Places == \A k \in DOMAIN stack :
    /\ stack[k].line <= Len(content[stack[k].file]) + 1
    /\ stack[k].section \in sections \union {NoSection}
FewFiles == Len(stack) <= MaxOpen /\ Len(loaded) <= MaxLoads /\ IsSequence(loaded)
           /\ (~started => loaded = <<>>)
Declared == DOMAIN optionStore \subseteq Options /\ sections \subseteq SectionNames
ReadersTyped == /\ DOMAIN got = Readers
                /\ \A r \in Readers : got[r] = NotFound \/ got[r][1] \in Options
ModulesTyped ==
    /\ phase \in {"construct", "options", "list", "done"}
    /\ IsSequence(order)
    /\ DOMAIN poolOf = {order[k] : k \in DOMAIN order} /\ DOMAIN origin = DOMAIN poolOf
FlagsTyped == started \in BOOLEAN /\ stopped \in BOOLEAN

ParserTypes == Places /\ FewFiles /\ Declared

(* The frames after a line: all as before, but for the next line of the last.*)
LEMMA NextPlaces ==
    ASSUME StackTyped, Places, AtLine
    PROVE  /\ DOMAIN NextLine = 1 .. Depth
           /\ \A k \in 1 .. Depth :
                  /\ NextLine[k].file = stack[k].file
                  /\ NextLine[k].line <= Len(content[stack[k].file]) + 1
                  /\ NextLine[k].section = stack[k].section
<1>1. /\ DOMAIN stack = 1 .. Depth /\ Depth \in 1 .. Depth /\ stack[Depth] = Top /\ Top \in Frames
  BY TopFrame DEF AtLine, Top
<1> DEFINE next == [Top EXCEPT !.line = @ + 1]
<1>2. next.file = Top.file /\ next.line = Top.line + 1 /\ next.section = Top.section
  BY <1>1 DEF Frames
<1>3. NextLine = [stack EXCEPT ![Depth] = next]
  BY <1>1 DEF NextLine, Top
<1>4. Top.line <= Len(content[Top.file]) /\ Top.line \in Nat
  BY <1>1 DEF AtLine, Frames
<1> HIDE DEF next
<1>6. DOMAIN NextLine = 1 .. Depth
  BY <1>1, <1>3
<1>7. \A k \in 1 .. Depth : NextLine[k] = IF k = Depth THEN next ELSE stack[k]
  BY <1>1, <1>3
<1> QED
  BY <1>1, <1>2, <1>4, <1>6, <1>7 DEF Places

(* What a line of a file can name.                                           *)
LEMMA LineNames ==
    ASSUME Sources, StackTyped, AtLine
    PROVE  /\ Line.kind = "section" => Line.name \in SectionNames
           /\ Line.kind \in {"assign", "extend"} => Line.name \in OptionNames
<1> DEFINE f == Top.file
           i == Top.line
<1>1. f \in DOMAIN content /\ i \in Nat \ {0} /\ i <= Len(content[f])
  BY TopFrame DEF AtLine, Frames
<1>2. i \in DOMAIN content[f]
  BY <1>1, ConfigAssumption, SequenceShape DEF Sources
<1>3. Line = content[f][i]
  BY DEF Line
<1> QED
  BY <1>1, <1>2, <1>3, ConfigAssumption DEF Sources

(* A file is opened at its first line, without a section.                    *)
LEMMA FirstPlace ==
    ASSUME Sources, NEW f \in DOMAIN content
    PROVE  /\ Frame(f).file = f /\ Frame(f).section = NoSection
           /\ Frame(f).line <= Len(content[f]) + 1
<1>1. Len(content[f]) \in Nat
  BY ConfigAssumption, SequenceShape DEF Sources
<1> QED
  BY <1>1 DEF Frame

(* The parser and the client that calls it (107-230).                        *)
LEMMA ParserSteps ==
    ASSUME ConfigInv, ParserTypes, [Next]_vars
    PROVE  ParserTypes'
<1> USE DEF ConfigInv, ParserTypes
<1>1. ASSUME UNCHANGED <<content, stack, sections, loaded, optionStore>>, started => started'
      PROVE  ParserTypes'
  BY <1>1 DEF Places, FewFiles, Declared
<1>2. ASSUME NEW f \in DOMAIN content, stack' = <<Frame(f)>>, UNCHANGED <<content, sections>>
      PROVE  Places'
  <2>1. DOMAIN stack' = {1} /\ stack'[1] = Frame(f)
    BY <1>2
  <2> QED
    BY <1>2, <2>1, FirstPlace DEF Places
<1>3. ASSUME LoadCommandLine PROVE ParserTypes'
  <2>1. CASE Error
    BY <1>1, <1>3, <2>1 DEF Error, LoadCommandLine
  <2>2. CASE ~Error
    <3>1. /\ started' = TRUE /\ ~started /\ UNCHANGED <<content, sections>>
          /\ \/ UNCHANGED <<stack, loaded>>
             \/ /\ commandLine.file \in DOMAIN content /\ Len(stack) < MaxOpen
                /\ stack' = <<Frame(commandLine.file)>> /\ loaded' = <<commandLine.file>>
      BY <1>3, <2>2 DEF LoadCommandLine, CanOpen
    <3>2. PICK last \in [{o \in Options : Given(o) # {}} -> DOMAIN commandLine.options] :
              optionStore' = [o \in DOMAIN last |-> commandLine.options[last[o]][2]]
      BY <1>3, <2>2 DEF LoadCommandLine
    <3>3. Declared'
      BY <3>1, <3>2 DEF Declared
    <3>4. Places'
      BY <1>2, <3>1 DEF Places
    <3>5. FewFiles'
      <4>1. CASE UNCHANGED <<stack, loaded>>
        BY <3>1, <4>1 DEF FewFiles
      <4>2. CASE /\ Len(stack) < MaxOpen /\ stack' = <<Frame(commandLine.file)>>
                 /\ loaded' = <<commandLine.file>>
        <5>1. stack = <<>>
          BY <3>1 DEF NotYet
        <5>2. Len(stack') = 1 /\ Len(loaded') = 1 /\ Len(stack) = 0
          BY <4>2, <5>1
        <5>3. loaded' \in Seq({commandLine.file})
          BY <4>2
        <5>4. IsSequence(loaded')
          BY <5>3, InSequence
        <5> QED
          BY <3>1, <4>2, <5>2, <5>4, ConfigAssumption DEF FewFiles
      <4> QED
        BY <3>1, <4>1, <4>2
    <3> QED
      BY <3>3, <3>4, <3>5
  <2> QED
    BY <2>1, <2>2
<1>4. ASSUME NEW f, LoadConfigFile(f) PROVE ParserTypes'
  <2>1. CASE Error
    BY <1>1, <1>4, <2>1 DEF Error, LoadConfigFile
  <2>2. CASE ~Error
    <3>1. /\ started /\ stack = <<>> /\ Len(loaded) < MaxLoads
          /\ UNCHANGED <<content, started, sections, optionStore>>
          /\ f \in DOMAIN content /\ Len(stack) < MaxOpen
          /\ stack' = <<Frame(f)>> /\ loaded' = Append(loaded, f)
      BY <1>4, <2>2 DEF LoadConfigFile, CanOpen
    <3>2. Places'
      BY <1>2, <3>1
    <3>3. IsSequence(loaded') /\ Len(loaded') = Len(loaded) + 1 /\ Len(loaded) \in Nat
      BY <3>1, AppendShape, SequenceShape DEF FewFiles
    <3>4. Len(stack') = 1 /\ Len(stack) = 0
      BY <3>1
    <3> QED
      BY <3>1, <3>2, <3>3, <3>4, ConfigAssumption DEF FewFiles, Declared
  <2> QED
    BY <2>1, <2>2
<1>5. ASSUME EndOfFile PROVE ParserTypes'
  <2>1. stack # <<>> /\ UNCHANGED <<content, started, sections, optionStore, loaded>>
        /\ stack' = SubSeq(stack, 1, Depth - 1)
    BY <1>5 DEF EndOfFile
  <2>2. /\ Depth \in Nat \ {0} /\ Depth = Len(stack) /\ DOMAIN stack = 1 .. Depth
        /\ \A k \in 1 .. Depth - 1 : stack[k] \in Frames
    BY <2>1, TopFrame, ElementOfSeq DEF StackTyped, Depth
  <2>3. /\ DOMAIN stack' = 1 .. Depth - 1 /\ Len(stack') = Depth - 1
        /\ \A k \in 1 .. Depth - 1 : stack'[k] = stack[k]
    BY <2>1, <2>2, SubSeqProperties
  <2> QED
    BY <2>1, <2>2, <2>3, ConfigAssumption DEF Places, FewFiles, Declared
<1>6. ASSUME AtLine, UNCHANGED <<content, started, loaded>>, stack' = NextLine, sections' = sections,
             Declared'
      PROVE  ParserTypes'
  <2>1. Len(stack') = Len(stack)
    BY <1>6, NextLineTyped DEF AtLine, Depth
  <2>2. Places'
    BY <1>6, NextPlaces, TopFrame DEF Places, AtLine
  <2> QED
    BY <1>6, <2>1, <2>2 DEF FewFiles
<1>7. ASSUME Source PROVE ParserTypes'
  <2>1. CASE Error
    BY <1>1, <1>7, <2>1 DEF Error, Source
  <2>2. CASE ~Error
    <3> DEFINE f == Line.file
    <3>1. /\ AtLine /\ UNCHANGED <<content, started, sections, optionStore, loaded>>
          /\ f \in DOMAIN content /\ Len(stack) < MaxOpen
          /\ stack' = Append(NextLine, Frame(f))
      BY <1>7, <2>2 DEF Source, CanOpen
    <3> HIDE DEF f
    <3>2. NextLine \in Seq(Frames) /\ Len(NextLine) = Len(stack) /\ Depth = Len(stack)
      BY <3>1, NextLineTyped DEF AtLine, Depth
    <3>3. Len(stack) \in Nat
      BY <3>2
    <3>4. /\ DOMAIN stack' = 1 .. Depth + 1 /\ Len(stack') = Depth + 1
          /\ stack'[Depth + 1] = Frame(f)
          /\ \A k \in 1 .. Depth : stack'[k] = NextLine[k]
      BY <3>1, <3>2, <3>3
    <3>5. Places'
      <4> SUFFICES ASSUME NEW k \in 1 .. Depth + 1
                   PROVE  /\ stack'[k].line <= Len(content[stack'[k].file]) + 1
                          /\ stack'[k].section \in sections \union {NoSection}
        BY <3>1, <3>4 DEF Places
      <4>1. CASE k = Depth + 1
        BY <3>1, <3>4, <4>1, FirstPlace
      <4>2. CASE k \in 1 .. Depth
        BY <3>1, <3>4, <4>2, NextPlaces, TopFrame DEF Places, AtLine
      <4> QED
        BY <3>2, <3>3, <4>1, <4>2
    <3> QED
      BY <3>1, <3>2, <3>3, <3>4, <3>5, ConfigAssumption DEF FewFiles, Declared
  <2> QED
    BY <2>1, <2>2
<1>8. ASSUME Section PROVE ParserTypes'
  <2>1. CASE Error
    BY <1>1, <1>8, <2>1 DEF Error, Section
  <2>2. CASE ~Error
    <3> DEFINE s == Line.name
    <3>1. /\ AtLine /\ Line.kind = "section" /\ UNCHANGED <<content, started, optionStore, loaded>>
          /\ sections' = sections \union {s}
          /\ stack' = [NextLine EXCEPT ![Depth].section = s]
      BY <1>8, <2>2 DEF Section
    <3>2. s \in SectionNames
      BY <3>1, LineNames
    <3> HIDE DEF s
    <3>3. DOMAIN stack = 1 .. Depth /\ Depth \in 1 .. Depth /\ stack # <<>>
      BY <3>1, TopFrame DEF AtLine
    <3>4. NextLine \in Seq(Frames) /\ Len(NextLine) = Depth /\ Depth = Len(stack)
      BY <3>3, NextLineTyped DEF Depth
    <3>5. NextLine[Depth] \in Frames
      BY <3>3, <3>4, ElementOfSeq
    <3> DEFINE top == [NextLine[Depth] EXCEPT !.section = s]
    <3>6. /\ top.file = NextLine[Depth].file /\ top.line = NextLine[Depth].line /\ top.section = s
          /\ s \in Names => top \in Frames
      BY <3>5 DEF Frames
    <3>7. stack' = [NextLine EXCEPT ![Depth] = top]
      BY <3>1
    <3> HIDE DEF top
    <3>8. /\ DOMAIN stack' = 1 .. Depth
          /\ \A k \in 1 .. Depth : stack'[k] = IF k = Depth THEN top ELSE NextLine[k]
      BY <3>1, <3>3, <3>7, NextPlaces
    <3>9. Len(stack') = Len(stack)
      <4>1. s \in Names
        BY <3>1, LineRead DEF s
      <4> QED
        BY <3>3, <3>4, <3>6, <3>7, <4>1, ExceptSeq
    <3>10. Places'
      <4> SUFFICES ASSUME NEW k \in 1 .. Depth
                   PROVE  /\ stack'[k].line <= Len(content[stack'[k].file]) + 1
                          /\ stack'[k].section \in sections' \union {NoSection}
        BY <3>1, <3>8 DEF Places
      <4>1. CASE k = Depth
        BY <3>1, <3>3, <3>6, <3>8, <4>1, NextPlaces
      <4>2. CASE k # Depth
        BY <3>1, <3>3, <3>8, <4>2, NextPlaces DEF Places
      <4> QED
        BY <4>1, <4>2
    <3> QED
      BY <3>1, <3>2, <3>9, <3>10 DEF FewFiles, Declared
  <2> QED
    BY <2>1, <2>2
<1>9. ASSUME Option PROVE ParserTypes'
  <2>1. CASE Error
    BY <1>1, <1>9, <2>1 DEF Error, Option
  <2>2. CASE ~Error
    <3> DEFINE o == OptionOf
    <3>1. /\ AtLine /\ Line.kind \in {"assign", "extend"} /\ Top.section # NoSection
          /\ UNCHANGED <<content, started, sections, loaded>> /\ stack' = NextLine
          /\ Line.kind = "extend" => o \in DOMAIN optionStore
          /\ optionStore' = IF Line.kind = "extend" THEN Extend(o, Line.value) ELSE Assign(o, Line.value)
      BY <1>9, <2>2 DEF Option
    <3>2. Top.section \in sections
      BY <3>1, TopFrame DEF Places, Top, AtLine
    <3>3. PICK p \in Options : Top.section = p[1]
      BY <3>1, <3>2 DEF Declared, SectionNames
    <3>4. PICK q \in Options : Line.name = q[2]
      BY <3>1, LineNames DEF OptionNames
    <3>5. o \in Options
      BY <3>3, <3>4, ConfigAssumption DEF OptionOf
    <3> HIDE DEF o
    <3>6. DOMAIN optionStore' \subseteq DOMAIN optionStore \union {o}
      BY <3>1 DEF Extend, Assign, Put
    <3> QED
      BY <1>6, <3>1, <3>5, <3>6 DEF Declared
  <2> QED
    BY <2>1, <2>2
<1>10. ASSUME BadLine PROVE ParserTypes'
  BY <1>1, <1>10 DEF BadLine, Error
<1>11. ASSUME NEW r, NEW o, GetValue(r, o) PROVE ParserTypes'
  BY <1>1, <1>11 DEF GetValue
<1>12. ASSUME Construct \/ LoadModules \/ LoadModule \/ LoadedAll PROVE ParserTypes'
  BY <1>1, <1>12 DEF Construct, LoadModules, LoadModule, LoadedAll, Error, configVars
<1>13. ASSUME vars' = vars PROVE ParserTypes'
  BY <1>1, <1>13 DEF vars, configVars
<1> QED
  BY <1>3, <1>4, <1>5, <1>7, <1>8, <1>9, <1>10, <1>11, <1>12, <1>13
     DEF Next, ClientLoads, ParseStep, ModuleReads

(* What the readers read are options that there are (232-258).               *)
LEMMA ReaderSteps ==
    ASSUME ReadersTyped, [Next]_vars
    PROVE  ReadersTyped'
<1>1. ASSUME UNCHANGED got PROVE ReadersTyped'
  BY <1>1 DEF ReadersTyped
<1>2. ASSUME NEW r \in Readers, NEW o \in Options, GetValue(r, o) PROVE ReadersTyped'
  <2>1. \E v : got' = [got EXCEPT ![r] = <<o, v>>]
    BY <1>2 DEF GetValue
  <2> QED
    BY <2>1 DEF ReadersTyped
<1>3. ASSUME ClientLoads PROVE UNCHANGED got
  BY <1>3 DEF ClientLoads, LoadCommandLine, LoadConfigFile, ParseStep, EndOfFile, Source, Section, Option,
              BadLine, Error
<1>4. ASSUME Construct \/ LoadModules \/ LoadModule \/ LoadedAll \/ vars' = vars PROVE UNCHANGED got
  BY <1>4 DEF Construct, LoadModules, LoadModule, LoadedAll, Error, vars, configVars
<1> QED
  BY <1>1, <1>2, <1>3, <1>4 DEF Next, ModuleReads

(* Each module that was started has a pool and an origin (70-136).           *)
LEMMA ModuleSteps ==
    ASSUME ModulesTyped, [Next]_vars
    PROVE  ModulesTyped'
<1> USE DEF ModulesTyped
<1>1. ASSUME UNCHANGED <<order, poolOf, origin>>, phase' \in {phase, "options", "list", "done"}
      PROVE  ModulesTyped'
  BY <1>1
<1>2. ASSUME ClientLoads \/ ModuleReads \/ vars' = vars PROVE ModulesTyped'
  BY <1>1, <1>2 DEF ClientLoads, ModuleReads, vars, startupVars
<1>3. ASSUME Construct \/ LoadModules \/ LoadedAll PROVE ModulesTyped'
  BY <1>1, <1>3 DEF Construct, LoadModules, LoadedAll
<1>4. ASSUME LoadModule PROVE ModulesTyped'
  <2> DEFINE e == Head(list)
  <2>1. CASE UNCHANGED startupVars
    BY <1>1, <2>1 DEF startupVars
  <2>2. CASE /\ \E p : poolOf' = Put(poolOf, e.id, p)
             /\ \E p : origin' = Put(origin, e.id, p)
             /\ order' = Append(order, e.id) /\ phase' = phase
    <3> DEFINE m == e.id
    <3>1. order' = Append(order, m) /\ phase' = phase
      BY <2>2
    <3>2. DOMAIN poolOf' = DOMAIN poolOf \union {m} /\ DOMAIN origin' = DOMAIN origin \union {m}
      BY <2>2 DEF Put
    <3> HIDE DEF m, e
    <3>3. Len(order) \in Nat /\ DOMAIN order = 1 .. Len(order)
      BY SequenceShape
    <3>4. /\ IsSequence(order') /\ Len(order') = Len(order) + 1
          /\ order'[Len(order) + 1] = m /\ \A i \in 1 .. Len(order) : order'[i] = order[i]
      BY <3>1, AppendShape
    <3>5. DOMAIN order' = 1 .. Len(order) + 1
      BY <3>4, SequenceShape
    <3>6. {order'[k] : k \in DOMAIN order'} = {order[k] : k \in DOMAIN order} \union {m}
      BY <3>3, <3>4, <3>5
    <3> QED
      BY <3>1, <3>2, <3>4, <3>6
  <2> QED
    BY <1>4, <2>1, <2>2 DEF LoadModule, StartLast
<1> QED
  BY <1>2, <1>3, <1>4 DEF Next

(* Type correctness, for any files, command lines and options: no step of    *)
(* the parser reads behind the end of a file or sets an option of a section  *)
(* that was not declared, no more files are open than the process can have   *)
(* (config.cc:107-230), and every module that was started has one pool and   *)
(* one origin (bvs.cc:89-136).                                               *)
THEOREM StartupTyped == Spec => []TypeOK
<1>1. Init => ParserTypes /\ ReadersTyped /\ ModulesTyped /\ FlagsTyped
  <2> SUFFICES ASSUME Init PROVE ParserTypes /\ ReadersTyped /\ ModulesTyped /\ FlagsTyped
    OBVIOUS
  <2>1. stack = <<>> /\ loaded = <<>> /\ order = <<>> /\ DOMAIN optionStore = {} /\ sections = {}
    BY DEF Init, ConfigInit
  <2>2. IsSequence(<<>>) /\ Len(<<>>) = 0
    BY EmptySeq, InSequence
  <2>3. ParserTypes
    BY <2>1, <2>2, ConfigAssumption DEF ParserTypes, Places, FewFiles, Declared
  <2>4. ReadersTyped /\ FlagsTyped
    BY DEF Init, ConfigInit, ReadersTyped, FlagsTyped
  <2>5. ModulesTyped
    BY <2>1, <2>2 DEF Init, Nothing, ModulesTyped
  <2> QED
    BY <2>3, <2>4, <2>5
<1>2. ConfigInv /\ (ParserTypes /\ ReadersTyped /\ ModulesTyped /\ FlagsTyped) /\ [Next]_vars
          => (ParserTypes /\ ReadersTyped /\ ModulesTyped /\ FlagsTyped)'
  <2>1. FlagsTyped /\ [Next]_vars => FlagsTyped'
    <3> SUFFICES ASSUME FlagsTyped, [Next]_vars PROVE FlagsTyped'
      OBVIOUS
    <3>1. started' \in {started, TRUE} /\ stopped' \in {stopped, TRUE}
      <4>1. CASE ClientLoads
        BY <4>1, Zenon DEF ClientLoads, LoadCommandLine, LoadConfigFile, ParseStep, EndOfFile, Source,
              Section, Option, BadLine, Error
      <4>2. CASE ~ClientLoads
        BY <4>2, Zenon DEF Next, ModuleReads, GetValue, Construct, LoadModules, LoadModule, LoadedAll,
              Error, vars, configVars
      <4> QED
        BY <4>1, <4>2
    <3> QED
      BY <3>1, Zenon DEF FlagsTyped
  <2> QED
    BY <2>1, ParserSteps, ReaderSteps, ModuleSteps
<1>3. ConfigInv /\ ParserTypes /\ ReadersTyped /\ ModulesTyped /\ FlagsTyped => TypeOK
  <2> SUFFICES ASSUME ConfigInv, ParserTypes, ReadersTyped, ModulesTyped, FlagsTyped PROVE TypeOK
    OBVIOUS
  <2>1. ASSUME NEW k \in DOMAIN stack
        PROVE  /\ stack[k].file \in DOMAIN content
               /\ stack[k].line \in 1 .. Len(content[stack[k].file]) + 1
               /\ stack[k].section \in sections \union {NoSection}
    <3>1. stack[k] \in Frames
      BY ElementOfSeq, LenProperties DEF ConfigInv, StackTyped
    <3>2. Len(content[stack[k].file]) \in Nat
      BY <3>1, ConfigAssumption, SequenceShape DEF ConfigInv, Sources, Frames
    <3> QED
      BY <3>1, <3>2 DEF Frames, ParserTypes, Places
  <2>2. /\ DOMAIN optionStore \subseteq Options /\ sections \subseteq SectionNames
        /\ Len(stack) <= MaxOpen /\ Len(loaded) <= MaxLoads
    BY DEF ParserTypes, Declared, FewFiles
  <2>3. \A r \in Readers : got[r] = NotFound \/ got[r][1] \in Options
    BY DEF ReadersTyped
  <2>4. /\ phase \in {"construct", "options", "list", "done"}
        /\ DOMAIN poolOf = {order[k] : k \in DOMAIN order} /\ DOMAIN origin = DOMAIN poolOf
    BY DEF ModulesTyped
  <2>5. started \in BOOLEAN /\ stopped \in BOOLEAN
    BY Zenon DEF FlagsTyped
  <2> QED
    BY <2>1, <2>2, <2>3, <2>4, <2>5, Zenon DEF TypeOK
<1> QED
  BY <1>1, <1>2, <1>3, ConfigInvariant, PTL DEF Spec
==============================================================================
