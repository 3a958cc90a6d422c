--------------------------- MODULE Prompt_proofs ---------------------------
(***************************************************************************)
(* Proofs about Prompt and ConfigFile: the configuration and the command   *)
(* line are read as their grammars say, whatever their length; nobody is   *)
(* asked on an invalid request; the frontend is closed; and what is on     *)
(* stdout at the end is what the user did.                                 *)
(*                                                                         *)
(* What the folds compute is proved with the induction of NatInduction:    *)
(* each "...OneByOne" lemma turns a fold into a run, a function that holds *)
(* what was made of the first i items.                                     *)
(*                                                                         *)
(* The inductive invariants are PhaseInv (how far the process is and what  *)
(* was accepted on the way), TalkInv (the events that wait, once they are  *)
(* dispatched, make of the prompt what the user did), and AnswerInv, which *)
(* adds the lines written.                                                 *)
(***************************************************************************)
EXTENDS Prompt, NatInduction

-----------------------------------------------------------------------------
(* The configuration file.                                                 *)

(* What the first lines of a file have made of the configuration.          *)
Parsing == [section: {"None"} \cup SectionName, values: [Field -> STRING \cup {"default"}], ok: BOOLEAN]

(* Nothing is read yet.                                                    *)
LEMMA StartsParsing == Start \in Parsing
<1>1. Defaults \in [Field -> STRING \cup {"default"}]
  BY DEF Defaults
<1> QED  BY <1>1 DEF Start, Parsing

(* One line, and when it is accepted.                                      *)
LEMMA LineParsed ==
  ASSUME NEW st \in Parsing, NEW line \in FileLine
  PROVE  /\ parse_line(st, line) \in Parsing
         /\ parse_line(st, line).ok =>
              /\ st.ok
              /\ \/ line.kind = "blank" /\ parse_line(st, line) = st
                 \/ /\ line.kind = "header" /\ line.name \in SectionName
                    /\ parse_line(st, line) = [st EXCEPT !.section = line.name]
                 \/ /\ line.kind = "assign" /\ st.section \in SectionName
                    /\ line.key \in Variables[st.section] /\ Accepts(line.key, line.value)
                    /\ parse_line(st, line) = [st EXCEPT !.values[<<st.section, line.key>>] = line.value]
         /\ /\ st.ok
            /\ \/ line.kind = "blank"
               \/ line.kind = "header" /\ line.name \in SectionName
               \/ /\ line.kind = "assign" /\ st.section \in SectionName
                  /\ line.key \in Variables[st.section] /\ Accepts(line.key, line.value)
            => parse_line(st, line).ok
<1> DEFINE new == parse_line(st, line)
<1>1. st = [section |-> st.section, values |-> st.values, ok |-> st.ok]
      /\ st.section \in {"None"} \cup SectionName /\ st.values \in [Field -> STRING \cup {"default"}] /\ st.ok \in BOOLEAN
  BY DEF Parsing
<1>2. Refused(st) \in Parsing /\ ~Refused(st).ok
  BY <1>1 DEF Refused, Parsing
<1>3. CASE ~st.ok \/ line.kind = "blank"
  BY <1>3 DEF parse_line
<1>4. CASE st.ok /\ line.kind = "header"
  BY <1>1, <1>2, <1>4 DEF parse_line, Parsing, FileLine, Blank, Broken
<1>5. CASE st.ok /\ line.kind = "assign" /\ st.section # "None"
  <2>1. new = AssignIn(st, line)
    BY <1>5 DEF parse_line
  <2>2. line.value \in STRING /\ st.section \in SectionName
    BY <1>1, <1>5 DEF FileLine, Blank, Broken
  <2>3. CASE line.key \in Variables[st.section] /\ Accepts(line.key, line.value)
    <3>1. new = [st EXCEPT !.values[<<st.section, line.key>>] = line.value]
      BY <2>1, <2>3 DEF AssignIn
    <3>2. [st.values EXCEPT ![<<st.section, line.key>>] = line.value] \in [Field -> STRING \cup {"default"}]
      BY <1>1, <2>2
    <3>3. new \in Parsing
      BY <1>1, <3>1, <3>2 DEF Parsing
    <3> QED  BY <1>5, <2>2, <2>3, <3>1, <3>3
  <2>4. CASE ~(line.key \in Variables[st.section] /\ Accepts(line.key, line.value))
    BY <1>2, <1>5, <2>1, <2>4 DEF AssignIn
  <2> QED  BY <2>3, <2>4
<1>6. CASE st.ok /\ ~(line.kind = "blank") /\ ~(line.kind = "header") /\ ~(line.kind = "assign" /\ st.section # "None")
  BY <1>2, <1>6 DEF parse_line, SectionName, Variables
<1> QED  BY <1>3, <1>4, <1>5, <1>6

(* A file is read one line after the other.                                *)
LEMMA ParsedOneByOne ==
  ASSUME NEW lines \in Seq(FileLine)
  PROVE  \E h : /\ h[0] = Start /\ \A i \in 0..Len(lines) : h[i] \in Parsing
                /\ \A i \in 1..Len(lines) : h[i] = parse_line(h[i-1], lines[i])
                /\ parse_from(lines) = h[Len(lines)]
<1> DEFINE n == Len(lines)
           F == [x \in Parsing \X (1..n) |-> parse_line(x[1], lines[x[2]])]
           Unfolds(g) == g = [s \in SUBSET (1..n) |->
                               IF s = {} THEN Start ELSE parse_line(g[s \ {Max(s)}], lines[Max(s)])]
           g == CHOOSE g : Unfolds(g)
           h == [i \in 0..n |-> g[1..i]]
<1>1. n \in Nat /\ DOMAIN lines = 1..n /\ \A i \in 1..n : lines[i] \in FileLine
  OBVIOUS
<1>2. parse_from(lines) = g[1..n]
  BY <1>1 DEF parse_from, FoldLeft, MapThenFoldSet
<1> HIDE DEF n
<1>3. \A st \in Parsing : \A i \in 1..n : parse_line(st, lines[i]) \in Parsing
  BY <1>1, LineParsed
<1>4. F \in [Parsing \X (1..n) -> Parsing]
  BY <1>3
<1>5. \E f : Unfolds(f)
  <2>1. PICK f \in [SUBSET (1..n) -> Parsing] : FoldsTo(F, Start, n, f)
    BY <1>1, <1>4, StartsParsing, FoldExists
  <2>2. ASSUME NEW s \in SUBSET (1..n)
        PROVE  f[s] = IF s = {} THEN Start ELSE parse_line(f[s \ {Max(s)}], lines[Max(s)])
    <3>1. f[s] = IF s = {} THEN Start ELSE F[<<f[s \ {Max(s)}], Max(s)>>]
      BY <2>1 DEF FoldsTo
    <3>2. CASE s # {}
      BY <1>1, <3>1, <3>2, LastIndex
    <3> QED  BY <3>1, <3>2
  <2> QED  BY <2>2
<1>6. \A s \in SUBSET (1..n) : g[s] = IF s = {} THEN Start ELSE parse_line(g[s \ {Max(s)}], lines[Max(s)])
  <2>1. Unfolds(g)
    BY <1>5
  <2> HIDE DEF g
  <2> QED  BY <2>1
<1> HIDE DEF g
<1>7. h[0] = Start
  <2>1. 1..0 = {} /\ {} \in SUBSET (1..n) /\ 0 \in 0..n
    BY <1>1
  <2> QED  BY <1>6, <2>1
<1>8. ASSUME NEW i \in 1..n  PROVE  h[i] = parse_line(h[i-1], lines[i])
  <2>1. i \in 0..n /\ i - 1 \in 0..n /\ 1..i \in SUBSET (1..n) /\ 1..i # {}
        /\ Max(1..i) = i /\ (1..i) \ {i} = 1..i-1
    BY <1>1, FirstIndices
  <2>2. g[1..i] = parse_line(g[1..i-1], lines[i])
    BY <1>6, <2>1
  <2> QED  BY <2>1, <2>2
<1>9. h[n] = g[1..n]
  BY <1>1
<1> HIDE DEF h, F
<1>10. \A i \in 0..n : h[i] \in Parsing
  <2> DEFINE S == {i \in 0..n : h[i] \in Parsing}
  <2>1. 0 \in S
    BY <1>1, <1>7, StartsParsing
  <2>2. \A i \in 1..n : i - 1 \in S => i \in S
    BY <1>1, <1>3, <1>8
  <2> HIDE DEF S
  <2>3. \A i \in 0..n : i \in S
    BY <1>1, <2>1, <2>2, IndexInduction
  <2> QED  BY <2>3 DEF S
<1> QED  BY <1>2, <1>7, <1>8, <1>9, <1>10 DEF n

(* The header above a line.                                                *)
Headers(lines, i) == {j \in 1..i-1 : lines[j].kind = "header"}

(* The header a line stands under, found in the lines before.              *)
LEMMA SectionAbove ==
  ASSUME NEW lines \in Seq(FileLine), NEW i \in 1..Len(lines)
  PROVE  SectionOf(lines, i + 1) = IF lines[i].kind = "header" THEN lines[i].name ELSE SectionOf(lines, i)
<1> DEFINE above == Headers(lines, i)
           upto == Headers(lines, i + 1)
<1>1. i \in Nat /\ (i + 1) - 1 = i /\ Len(lines) \in Nat
  OBVIOUS
<1>2. SectionOf(lines, i) = (IF above = {} THEN Absent ELSE lines[Max(above)].name)
      /\ SectionOf(lines, i + 1) = (IF upto = {} THEN Absent ELSE lines[Max(upto)].name)
  BY DEF SectionOf, Headers
<1>3. lines[i].kind # "header" => upto = above
  BY <1>1 DEF Headers
<1>4. ASSUME lines[i].kind = "header"  PROVE  Max(upto) = i /\ upto # {}
  <2>1. i \in upto /\ upto \in SUBSET Nat /\ \A x \in upto : x <= i
    BY <1>1, <1>4 DEF Headers
  <2> HIDE DEF upto
  <2> QED  BY <1>1, <2>1, GreatestOf
<1> HIDE DEF above, upto
<1> QED  BY <1>2, <1>3, <1>4

(* IsValid and Meaning of the first i lines.                               *)
LineIsValid(lines, i) ==
  \/ lines[i].kind = "blank"
  \/ lines[i].kind = "header" /\ lines[i].name \in SectionName
  \/ /\ lines[i].kind = "assign" /\ SectionOf(lines, i) \in SectionName
     /\ lines[i].key \in Variables[SectionOf(lines, i)] /\ Accepts(lines[i].key, lines[i].value)
Assigning(lines, i, f) ==
  {j \in 1..i : lines[j].kind = "assign" /\ lines[j].key = f[2] /\ SectionOf(lines, j) = f[1]}
ValueIn(lines, i, f) ==
  IF Assigning(lines, i, f) = {} THEN "default" ELSE lines[Max(Assigning(lines, i, f))].value

(* A line that assigns to the field is the last that does.                 *)
LEMMA LastAssignment ==
  ASSUME NEW lines \in Seq(FileLine), NEW i \in 1..Len(lines), NEW f
  PROVE  ValueIn(lines, i, f) =
           IF lines[i].kind = "assign" /\ lines[i].key = f[2] /\ SectionOf(lines, i) = f[1]
             THEN lines[i].value ELSE ValueIn(lines, i - 1, f)
<1> DEFINE before == Assigning(lines, i - 1, f)
           upto == Assigning(lines, i, f)
           Assigns == lines[i].kind = "assign" /\ lines[i].key = f[2] /\ SectionOf(lines, i) = f[1]
<1>1. i \in Nat /\ 1..i = (1..i-1) \cup {i}
  OBVIOUS
<1>2. ~Assigns => upto = before
  BY <1>1 DEF Assigning
<1>3. ASSUME Assigns  PROVE  Max(upto) = i /\ upto # {}
  <2>1. i \in upto /\ upto \in SUBSET Nat /\ \A x \in upto : x <= i
    BY <1>1, <1>3 DEF Assigning
  <2> HIDE DEF upto
  <2> QED  BY <1>1, <2>1, GreatestOf
<1>4. /\ ValueIn(lines, i, f) = IF upto = {} THEN "default" ELSE lines[Max(upto)].value
      /\ ValueIn(lines, i - 1, f) = IF before = {} THEN "default" ELSE lines[Max(before)].value
  BY DEF ValueIn
<1> HIDE DEF before, upto
<1> QED  BY <1>2, <1>3, <1>4

(* What is true of the lines that were read.                               *)
ReadSoFar(lines, i, st) ==
  /\ st.ok <=> \A j \in 1..i : LineIsValid(lines, j)
  /\ st.ok => /\ SectionOf(lines, i + 1) = IF st.section = "None" THEN Absent ELSE st.section
              /\ st.values = [f \in Field |-> ValueIn(lines, i, f)]

(* One line more keeps what was read so far.                               *)
LEMMA OneLineRead ==
  ASSUME NEW lines \in Seq(FileLine), NEW i \in 1..Len(lines), NEW st \in Parsing, ReadSoFar(lines, i - 1, st)
  PROVE  ReadSoFar(lines, i, parse_line(st, lines[i]))
<1> DEFINE line == lines[i]
           new == parse_line(st, line)
<1>1. i \in Nat /\ i \in 1..i /\ (i - 1) + 1 = i /\ line \in FileLine /\ (\A j \in 1..i : j = i \/ j \in 1..i-1)
  OBVIOUS
<1> HIDE DEF line
<1>0. ASSUME \A j \in 1..i : LineIsValid(lines, j)  PROVE  new.ok
  <2>1. st.ok /\ SectionOf(lines, i) = (IF st.section = "None" THEN Absent ELSE st.section)
        /\ st.section \in {"None"} \cup SectionName /\ LineIsValid(lines, i)
    BY <1>0, <1>1 DEF ReadSoFar, Parsing
  <2>2. SectionOf(lines, i) \in SectionName => st.section = SectionOf(lines, i)
    BY <2>1, AbsentAssumption
  <2>3. \/ line.kind = "blank"
        \/ line.kind = "header" /\ line.name \in SectionName
        \/ /\ line.kind = "assign" /\ st.section \in SectionName
           /\ line.key \in Variables[st.section] /\ Accepts(line.key, line.value)
    BY <2>1, <2>2 DEF LineIsValid, line
  <2> QED  BY <1>1, <2>1, <2>3, LineParsed
<1> SUFFICES ASSUME new.ok  PROVE  ReadSoFar(lines, i, new)
  BY <1>0 DEF ReadSoFar, line
<1>2. st.ok
  BY <1>1, LineParsed
<1>3. /\ \A j \in 1..i-1 : LineIsValid(lines, j)
      /\ SectionOf(lines, i) = IF st.section = "None" THEN Absent ELSE st.section
      /\ st.values = [f \in Field |-> ValueIn(lines, i - 1, f)]
  BY <1>1, <1>2 DEF ReadSoFar
<1>4. SectionOf(lines, i + 1) = IF line.kind = "header" THEN line.name ELSE SectionOf(lines, i)
  BY SectionAbove DEF line
<1>5. \A f \in Field : ValueIn(lines, i, f) =
        IF line.kind = "assign" /\ line.key = f[2] /\ SectionOf(lines, i) = f[1]
          THEN line.value ELSE ValueIn(lines, i - 1, f)
  BY LastAssignment DEF line
<1>6. "None" \notin SectionName
  BY DEF SectionName, Variables
<1>7. st = [section |-> st.section, values |-> st.values, ok |-> st.ok]
  BY DEF Parsing
<1>8. SUFFICES /\ LineIsValid(lines, i)
               /\ SectionOf(lines, i + 1) = IF new.section = "None" THEN Absent ELSE new.section
               /\ new.values = [f \in Field |-> ValueIn(lines, i, f)]
  BY <1>1, <1>3 DEF ReadSoFar
<1>9. CASE line.kind = "blank" /\ new = st
  BY <1>3, <1>4, <1>5, <1>9 DEF LineIsValid, line
<1>10. CASE /\ line.kind = "header" /\ line.name \in SectionName
            /\ new = [st EXCEPT !.section = line.name]
  BY <1>3, <1>4, <1>5, <1>6, <1>7, <1>10 DEF LineIsValid, line
<1>11. CASE /\ line.kind = "assign" /\ st.section \in SectionName
            /\ line.key \in Variables[st.section] /\ Accepts(line.key, line.value)
            /\ new = [st EXCEPT !.values[<<st.section, line.key>>] = line.value]
  <2> DEFINE at == <<st.section, line.key>>
  <2>1. new.section = st.section /\ new.values = [st.values EXCEPT ![at] = line.value]
    BY <1>7, <1>11
  <2>2. SectionOf(lines, i) = st.section
    BY <1>3, <1>6, <1>11
  <2>3. at \in Field /\ \A f \in Field : (line.key = f[2] /\ st.section = f[1]) <=> f = at
    BY <1>11 DEF Field
  <2>4. new.values = [f \in Field |-> ValueIn(lines, i, f)]
    <3>1. \A f \in Field : ValueIn(lines, i, f) = IF f = at THEN line.value ELSE ValueIn(lines, i - 1, f)
      BY <1>5, <1>11, <2>2, <2>3
    <3> HIDE DEF at, new
    <3>2. new.values = [f \in Field |-> IF f = at THEN line.value ELSE ValueIn(lines, i - 1, f)]
      BY <1>3, <2>1
    <3> QED  BY <3>1, <3>2
  <2> QED  BY <1>3, <1>4, <1>6, <1>11, <2>1, <2>2, <2>4 DEF LineIsValid, line
<1> QED  BY <1>1, <1>9, <1>10, <1>11, LineParsed

(* A file is accepted when and only when it is valid from its first line   *)
(* to its last, and its values are what it means: a line is judged by no   *)
(* more than the section parse_line remembers (src/config.rs).             *)
THEOREM FilesAreRead ==
  ASSUME NEW lines \in Seq(FileLine)
  PROVE  /\ parse_from(lines).ok <=> IsValid(lines)
         /\ IsValid(lines) => parse_from(lines).values = Meaning(lines)
<1>1. PICK h : /\ h[0] = Start /\ \A i \in 0..Len(lines) : h[i] \in Parsing
               /\ \A i \in 1..Len(lines) : h[i] = parse_line(h[i-1], lines[i])
               /\ parse_from(lines) = h[Len(lines)]
  BY ParsedOneByOne
<1> DEFINE n == Len(lines)
           S == {i \in 0..n : ReadSoFar(lines, i, h[i])}
<1>2. n \in Nat /\ DOMAIN lines = 1..n /\ n \in 0..n
  OBVIOUS
<1>3. 0 \in S
  <2>1. 1..0 = {} /\ 1..((0 + 1) - 1) = {} /\ 0 \in 0..n
    BY <1>2
  <2>2. SectionOf(lines, 0 + 1) = Absent /\ \A f \in Field : ValueIn(lines, 0, f) = "default"
    BY <2>1 DEF SectionOf, ValueIn, Assigning
  <2>3. Start.ok /\ Start.section = "None" /\ Start.values = [f \in Field |-> "default"]
    BY DEF Start, Defaults
  <2> HIDE DEF n
  <2> QED  BY <1>1, <2>1, <2>2, <2>3 DEF ReadSoFar
<1>4. \A i \in 1..n : i - 1 \in S => i \in S
  <2> TAKE i \in 1..n
  <2>1. i \in 0..n /\ i - 1 \in 0..n
    BY <1>2
  <2> QED  BY <1>1, <2>1, OneLineRead
<1> HIDE DEF S, n
<1>5. n \in S
  BY <1>2, <1>3, <1>4, IndexInduction
<1>6. ReadSoFar(lines, n, parse_from(lines))
  BY <1>1, <1>5 DEF S, n
<1> QED  BY <1>2, <1>6 DEF ReadSoFar, IsValid, LineIsValid, Meaning, ValueIn, Assigning

(* Config::parse as a whole.                                               *)
LEMMA ConfigIsRead ==
  ASSUME NEW h \in Homes, ParseConfig(h).ok
  PROVE  LET file == SelectedFile(h)
         IN IF file = Absent THEN ParseConfig(h).values = Defaults
            ELSE file # Unreadable /\ IsValid(file) /\ ParseConfig(h).values = Meaning(file)
<1> DEFINE file == SelectedFile(h)
<1>1. file \in {Absent, Unreadable} \cup Seq(FileLine)
  <2>1. config_base(h) \in Base
    BY DEF config_base, Base
  <2> QED  BY <2>1, HomesAssumption DEF SelectedFile, select_config_in
<1>2. ParseConfig(h) = IF file = Absent THEN Start ELSE IF file = Unreadable THEN Refused(Start) ELSE parse_from(file)
  BY DEF ParseConfig
<1>3. ~Refused(Start).ok /\ Start.values = Defaults
  BY DEF Refused, Start
<1> HIDE DEF file
<1>4. CASE file = Absent
  BY <1>2, <1>3, <1>4 DEF file
<1>5. CASE file # Absent
  <2>1. file # Unreadable
    BY <1>2, <1>3, <1>5
  <2>2. file \in Seq(FileLine) /\ parse_from(file).ok /\ ParseConfig(h) = parse_from(file)
    BY <1>1, <1>2, <1>5, <2>1
  <2> QED  BY <1>5, <2>1, <2>2, FilesAreRead DEF file
<1> QED  BY <1>4, <1>5

-----------------------------------------------------------------------------
(* The arguments.                                                          *)

TextField == Labels \cup {"wayland_display"}
SwitchField == {"get_pin", "json"}
Taking ==
  [outcome: {"reading", "help", "refused"}, wants: TextField \cup {Absent},
   request: [TextField \cup SwitchField -> STRING \cup {Absent} \cup BOOLEAN]]
NothingTaken == [outcome |-> "reading", wants |-> Absent, request |-> NoRequest]

(* What each flag sets is a field of the request.                          *)
LEMMA FlagNames ==
  /\ \A flag \in DOMAIN ValueFlags : ValueFlags[flag] \in TextField
  /\ \A flag \in DOMAIN Switches : Switches[flag] \in SwitchField
  /\ TextField \cap SwitchField = {}
  /\ Absent \notin TextField
<1>1. \A flag \in DOMAIN ValueFlags : ValueFlags[flag] \in TextField
  BY DEF ValueFlags, TextField, Labels
<1>2. \A flag \in DOMAIN Switches : Switches[flag] \in SwitchField
  BY DEF Switches, SwitchField
<1>3. TextField \cap SwitchField = {}
  BY DEF TextField, Labels, SwitchField
<1>4. Absent \notin TextField
  BY NamesAssumption DEF TextField, NoRequest
<1> QED  BY <1>1, <1>2, <1>3, <1>4

(* No argument is taken yet.                                               *)
LEMMA StartsTaking == NothingTaken \in Taking
<1>1. NoRequest \in [TextField \cup SwitchField -> STRING \cup {Absent} \cup BOOLEAN]
  <2>1. NoRequest = [f \in TextField \cup SwitchField |-> IF f \in {"get_pin", "json"} THEN FALSE ELSE Absent]
    BY DEF NoRequest, TextField, SwitchField
  <2> QED  BY <2>1
<1> QED  BY <1>1 DEF NothingTaken, Taking

(* What an accepted argument is.                                           *)
IsValue(acc, arg, new) ==
  /\ acc.wants # Absent /\ new.wants = Absent
  /\ new.request = [acc.request EXCEPT ![acc.wants] = arg]
IsValueFlag(acc, arg, new) ==
  /\ acc.wants = Absent /\ new.wants = ValueFlags[arg]
  /\ arg \in DOMAIN ValueFlags /\ acc.request[ValueFlags[arg]] = Absent
  /\ new.request = acc.request
IsSwitch(acc, arg, new) ==
  /\ acc.wants = Absent /\ new.wants = Absent
  /\ arg \in DOMAIN Switches /\ acc.request[Switches[arg]] # TRUE
  /\ new.request = [acc.request EXCEPT ![Switches[arg]] = TRUE]
IsTaken(acc, arg, new) ==
  /\ acc.outcome = "reading"
  /\ IsValue(acc, arg, new) \/ IsValueFlag(acc, arg, new) \/ IsSwitch(acc, arg, new)

(* One argument, and what it is taken for.                                 *)
LEMMA ArgumentTaken ==
  ASSUME NEW acc \in Taking, NEW arg \in STRING
  PROVE  /\ TakeArgument(acc, arg) \in Taking
         /\ TakeArgument(acc, arg).outcome = "reading" => IsTaken(acc, arg, TakeArgument(acc, arg))
<1> DEFINE new == TakeArgument(acc, arg)
           T == STRING \cup {Absent} \cup BOOLEAN
<1>1. acc = [outcome |-> acc.outcome, wants |-> acc.wants, request |-> acc.request]
      /\ acc.wants \in TextField \cup {Absent} /\ acc.request \in [TextField \cup SwitchField -> T]
      /\ acc.outcome \in {"reading", "help", "refused"}
  BY DEF Taking
<1>2. \A r \in [TextField \cup SwitchField -> T], w \in TextField \cup {Absent}, o \in {"reading", "help", "refused"} :
        [outcome |-> o, wants |-> w, request |-> r] \in Taking
  BY DEF Taking
<1>3. arg \in T /\ TRUE \in T
  BY Zenon
<1> HIDE DEF T
<1>4. CASE acc.outcome # "reading"
  BY <1>4 DEF TakeArgument
<1>5. CASE acc.outcome = "reading" /\ acc.wants # Absent
  <2>1. new = [outcome |-> "reading", wants |-> Absent, request |-> [acc.request EXCEPT ![acc.wants] = arg]]
    BY <1>1, <1>5 DEF TakeArgument
  <2>2. [acc.request EXCEPT ![acc.wants] = arg] \in [TextField \cup SwitchField -> T]
    BY <1>1, <1>3
  <2> HIDE DEF new
  <2>3. IsTaken(acc, arg, new)
    BY <1>5, <2>1 DEF IsTaken, IsValue
  <2> QED  BY <1>2, <2>1, <2>2, <2>3 DEF new
<1>6. CASE acc.outcome = "reading" /\ acc.wants = Absent /\ arg \in DOMAIN ValueFlags
           /\ acc.request[ValueFlags[arg]] = Absent
  <2>1. new = [outcome |-> "reading", wants |-> ValueFlags[arg], request |-> acc.request]
    BY <1>1, <1>6 DEF TakeArgument
  <2> HIDE DEF new
  <2>2. IsTaken(acc, arg, new)
    BY <1>6, <2>1 DEF IsTaken, IsValueFlag
  <2>3. ValueFlags[arg] \in TextField \cup {Absent}
    BY <1>6, FlagNames
  <2> QED  BY <1>1, <1>2, <2>1, <2>2, <2>3 DEF new
<1>7. CASE /\ acc.outcome = "reading" /\ acc.wants = Absent
           /\ ~(arg \in DOMAIN ValueFlags /\ acc.request[ValueFlags[arg]] = Absent)
           /\ arg \in DOMAIN Switches /\ ~acc.request[Switches[arg]]
  <2>1. new = [outcome |-> "reading", wants |-> Absent, request |-> [acc.request EXCEPT ![Switches[arg]] = TRUE]]
    BY <1>1, <1>7 DEF TakeArgument
  <2>2. [acc.request EXCEPT ![Switches[arg]] = TRUE] \in [TextField \cup SwitchField -> T]
    BY <1>1, <1>3, <1>7, FlagNames
  <2>3. acc.request[Switches[arg]] # TRUE
    BY <1>7
  <2> HIDE DEF new
  <2>4. IsTaken(acc, arg, new)
    BY <1>7, <2>1, <2>3 DEF IsTaken, IsSwitch
  <2> QED  BY <1>2, <2>1, <2>2, <2>4 DEF new
<1>8. CASE /\ acc.outcome = "reading" /\ acc.wants = Absent
           /\ ~(arg \in DOMAIN ValueFlags /\ acc.request[ValueFlags[arg]] = Absent)
           /\ ~(arg \in DOMAIN Switches /\ ~acc.request[Switches[arg]])
  <2>1. new = [outcome |-> IF arg \in {"--help", "-h"} THEN "help" ELSE "refused", wants |-> acc.wants,
               request |-> acc.request]
    BY <1>1, <1>8 DEF TakeArgument
  <2> HIDE DEF new
  <2>2. new.outcome # "reading" /\ new.outcome \in {"reading", "help", "refused"}
    BY <2>1
  <2> QED  BY <1>1, <1>2, <2>1, <2>2 DEF new
<1> QED  BY <1>4, <1>5, <1>6, <1>7, <1>8

(* The arguments are read one after the other.                             *)
LEMMA TakenOneByOne ==
  ASSUME NEW args \in Seq(STRING)
  PROVE  \E h : /\ h[0] = NothingTaken /\ \A i \in 0..Len(args) : h[i] \in Taking
                /\ \A i \in 1..Len(args) : h[i] = TakeArgument(h[i-1], args[i])
                /\ FoldLeft(TakeArgument, NothingTaken, args) = h[Len(args)]
<1> DEFINE n == Len(args)
           F == [x \in Taking \X (1..n) |-> TakeArgument(x[1], args[x[2]])]
           Unfolds(g) == g = [s \in SUBSET (1..n) |->
                               IF s = {} THEN NothingTaken ELSE TakeArgument(g[s \ {Max(s)}], args[Max(s)])]
           g == CHOOSE g : Unfolds(g)
           h == [i \in 0..n |-> g[1..i]]
<1>1. n \in Nat /\ DOMAIN args = 1..n /\ \A i \in 1..n : args[i] \in STRING
  OBVIOUS
<1>2. FoldLeft(TakeArgument, NothingTaken, args) = g[1..n]
  BY <1>1 DEF FoldLeft, MapThenFoldSet
<1> HIDE DEF n
<1>3. \A acc \in Taking : \A i \in 1..n : TakeArgument(acc, args[i]) \in Taking
  BY <1>1, ArgumentTaken
<1>4. F \in [Taking \X (1..n) -> Taking]
  BY <1>3
<1>5. \E f : Unfolds(f)
  <2>1. PICK f \in [SUBSET (1..n) -> Taking] : FoldsTo(F, NothingTaken, n, f)
    BY <1>1, <1>4, StartsTaking, FoldExists
  <2>2. ASSUME NEW s \in SUBSET (1..n)
        PROVE  f[s] = IF s = {} THEN NothingTaken ELSE TakeArgument(f[s \ {Max(s)}], args[Max(s)])
    <3>1. f[s] = IF s = {} THEN NothingTaken ELSE F[<<f[s \ {Max(s)}], Max(s)>>]
      BY <2>1 DEF FoldsTo
    <3>2. CASE s # {}
      BY <1>1, <3>1, <3>2, LastIndex
    <3> QED  BY <3>1, <3>2
  <2> QED  BY <2>2
<1>6. \A s \in SUBSET (1..n) :
        g[s] = IF s = {} THEN NothingTaken ELSE TakeArgument(g[s \ {Max(s)}], args[Max(s)])
  <2>1. Unfolds(g)
    BY <1>5
  <2> HIDE DEF g
  <2> QED  BY <2>1
<1> HIDE DEF g
<1>7. h[0] = NothingTaken
  <2>1. 1..0 = {} /\ {} \in SUBSET (1..n) /\ 0 \in 0..n
    BY <1>1
  <2> QED  BY <1>6, <2>1
<1>8. ASSUME NEW i \in 1..n  PROVE  h[i] = TakeArgument(h[i-1], args[i])
  <2>1. i \in 0..n /\ i - 1 \in 0..n /\ 1..i \in SUBSET (1..n) /\ 1..i # {}
        /\ Max(1..i) = i /\ (1..i) \ {i} = 1..i-1
    BY <1>1, FirstIndices
  <2>2. g[1..i] = TakeArgument(g[1..i-1], args[i])
    BY <1>6, <2>1
  <2> QED  BY <2>1, <2>2
<1>9. h[n] = g[1..n]
  BY <1>1
<1> HIDE DEF h, F
<1>10. \A i \in 0..n : h[i] \in Taking
  <2> DEFINE S == {i \in 0..n : h[i] \in Taking}
  <2>1. 0 \in S
    BY <1>1, <1>7, StartsTaking
  <2>2. \A i \in 1..n : i - 1 \in S => i \in S
    BY <1>1, <1>3, <1>8
  <2> HIDE DEF S
  <2>3. \A i \in 0..n : i \in S
    BY <1>1, <2>1, <2>2, IndexInduction
  <2> QED  BY <2>3 DEF S
<1> QED  BY <1>2, <1>7, <1>8, <1>9, <1>10 DEF n

(* What the first i arguments have left, if position k is a flag when      *)
(* flag[k] says so: a value flag is waiting for its value or has it, a     *)
(* switch is on, and no flag was there twice.                              *)
FlagsSoFar(args, flag, i, acc) ==
  /\ acc.wants = IF i \in flag /\ args[i] \in DOMAIN ValueFlags THEN ValueFlags[args[i]] ELSE Absent
  /\ \A k \in flag : k <= i =>
       /\ args[k] \in DOMAIN ValueFlags \cup DOMAIN Switches
       /\ args[k] \in DOMAIN Switches => acc.request[Switches[args[k]]] = TRUE
       /\ args[k] \in DOMAIN ValueFlags /\ k # i => acc.request[ValueFlags[args[k]]] # Absent
       /\ \A j \in flag : j < k => args[j] # args[k]

(* No flag both takes a value and is a switch.                             *)
LEMMA FlagsApart == DOMAIN ValueFlags \cap DOMAIN Switches = {}
BY DEF ValueFlags, Switches

(* One argument more keeps what was taken so far.                          *)
LEMMA OneArgumentTaken ==
  ASSUME NEW args \in Seq(STRING), NEW flag \in SUBSET (1..Len(args)), NEW i \in 1..Len(args),
         NEW acc \in Taking, NEW new \in Taking, IsTaken(acc, args[i], new),
         i \in flag <=> acc.wants = Absent, FlagsSoFar(args, flag, i - 1, acc)
  PROVE  FlagsSoFar(args, flag, i, new)
<1> DEFINE arg == args[i]
<1>2. i \in Nat /\ arg \in STRING /\ arg # Absent
  BY AbsentAssumption
<1>3. \A k \in flag : k \in Nat /\ (k <= i <=> (k = i \/ k <= i - 1)) /\ (k < i <=> k <= i - 1)
  BY <1>2
<1>4. acc.wants \in TextField \cup {Absent} /\ DOMAIN acc.request = TextField \cup SwitchField
  BY DEF Taking
<1>5. CASE IsValue(acc, arg, new)
  <2>1. i \notin flag /\ new.wants = Absent /\ acc.wants \in TextField
        /\ new.request = [acc.request EXCEPT ![acc.wants] = arg]
    BY <1>4, <1>5 DEF IsValue
  <2>2. i - 1 \in flag /\ args[i-1] \in DOMAIN ValueFlags /\ acc.wants = ValueFlags[args[i-1]]
    BY <1>5 DEF IsValue, FlagsSoFar
  <2>3. new.request[acc.wants] = arg /\ \A f \in TextField \cup SwitchField :
          f # acc.wants => new.request[f] = acc.request[f]
    BY <1>4, <2>1
  <2> HIDE DEF arg
  <2>4. ASSUME NEW k \in flag, k <= i
        PROVE  /\ args[k] \in DOMAIN ValueFlags \cup DOMAIN Switches
               /\ args[k] \in DOMAIN Switches => new.request[Switches[args[k]]] = TRUE
               /\ args[k] \in DOMAIN ValueFlags /\ k # i => new.request[ValueFlags[args[k]]] # Absent
               /\ \A j \in flag : j < k => args[j] # args[k]
    <3>1. k <= i - 1
      BY <1>3, <2>1, <2>4
    <3>2. /\ args[k] \in DOMAIN ValueFlags \cup DOMAIN Switches
          /\ args[k] \in DOMAIN Switches => acc.request[Switches[args[k]]] = TRUE
          /\ args[k] \in DOMAIN ValueFlags /\ k # i - 1 => acc.request[ValueFlags[args[k]]] # Absent
          /\ \A j \in flag : j < k => args[j] # args[k]
      BY <3>1 DEF FlagsSoFar
    <3> QED  BY <1>2, <2>1, <2>2, <2>3, <3>2, FlagNames
  <2> QED  BY <2>1, <2>4 DEF FlagsSoFar
<1>6. ASSUME acc.wants = Absent, arg \in DOMAIN ValueFlags \cup DOMAIN Switches,
             arg \in DOMAIN ValueFlags => acc.request[ValueFlags[arg]] = Absent,
             arg \in DOMAIN Switches => acc.request[Switches[arg]] # TRUE
      PROVE  \A k \in flag : k <= i - 1 =>
               /\ args[k] \in DOMAIN ValueFlags \cup DOMAIN Switches
               /\ args[k] \in DOMAIN Switches => acc.request[Switches[args[k]]] = TRUE
               /\ args[k] \in DOMAIN ValueFlags => acc.request[ValueFlags[args[k]]] # Absent
               /\ args[k] # arg
               /\ \A j \in flag : j < k => args[j] # args[k]
  <2> TAKE k \in flag
  <2> HAVE k <= i - 1
  <2>1. /\ args[k] \in DOMAIN ValueFlags \cup DOMAIN Switches
        /\ args[k] \in DOMAIN Switches => acc.request[Switches[args[k]]] = TRUE
        /\ args[k] \in DOMAIN ValueFlags /\ k # i - 1 => acc.request[ValueFlags[args[k]]] # Absent
        /\ \A j \in flag : j < k => args[j] # args[k]
    BY DEF FlagsSoFar
  <2>2. args[k] \in DOMAIN ValueFlags => k # i - 1
    <3>1. i - 1 \in flag /\ args[i-1] \in DOMAIN ValueFlags => acc.wants = ValueFlags[args[i-1]]
      BY DEF FlagsSoFar
    <3> QED  BY <1>6, <3>1, FlagNames
  <2> QED  BY <1>6, <2>1, <2>2
<1>7. CASE IsValueFlag(acc, arg, new)
  <2>1. /\ acc.wants = Absent /\ new.wants = ValueFlags[arg] /\ arg \in DOMAIN ValueFlags
        /\ acc.request[ValueFlags[arg]] = Absent /\ new.request = acc.request /\ i \in flag
        /\ arg \notin DOMAIN Switches
    BY <1>7, FlagsApart DEF IsValueFlag
  <2>2. \A k \in flag : k <= i - 1 =>
          /\ args[k] \in DOMAIN ValueFlags \cup DOMAIN Switches
          /\ args[k] \in DOMAIN Switches => acc.request[Switches[args[k]]] = TRUE
          /\ args[k] \in DOMAIN ValueFlags => acc.request[ValueFlags[args[k]]] # Absent
          /\ args[k] # arg
          /\ \A j \in flag : j < k => args[j] # args[k]
    BY <1>6, <2>1
  <2> QED  BY <1>3, <2>1, <2>2 DEF FlagsSoFar
<1>8. CASE IsSwitch(acc, arg, new)
  <2>1. /\ acc.wants = Absent /\ new.wants = Absent /\ arg \in DOMAIN Switches
        /\ acc.request[Switches[arg]] # TRUE /\ i \in flag /\ arg \notin DOMAIN ValueFlags
        /\ new.request = [acc.request EXCEPT ![Switches[arg]] = TRUE]
    BY <1>8, FlagsApart DEF IsSwitch
  <2>2. new.request[Switches[arg]] = TRUE /\ \A f \in TextField \cup SwitchField :
          f # Switches[arg] => new.request[f] = acc.request[f]
    BY <1>4, <2>1, FlagNames
  <2>3. \A k \in flag : k <= i - 1 =>
          /\ args[k] \in DOMAIN ValueFlags \cup DOMAIN Switches
          /\ args[k] \in DOMAIN Switches => acc.request[Switches[args[k]]] = TRUE
          /\ args[k] \in DOMAIN ValueFlags => acc.request[ValueFlags[args[k]]] # Absent
          /\ args[k] # arg
          /\ \A j \in flag : j < k => args[j] # args[k]
    BY <1>6, <2>1
  <2>4. \A k \in flag : k <= i - 1 =>
          /\ args[k] \in DOMAIN Switches => new.request[Switches[args[k]]] = TRUE
          /\ args[k] \in DOMAIN ValueFlags => new.request[ValueFlags[args[k]]] # Absent
    <3> TAKE k \in flag
    <3> HAVE k <= i - 1
    <3>1. args[k] \in DOMAIN Switches => acc.request[Switches[args[k]]] = TRUE
      BY <2>3
    <3>2. args[k] \in DOMAIN ValueFlags => acc.request[ValueFlags[args[k]]] # Absent
      BY <2>3
    <3>3. args[k] \in DOMAIN Switches => Switches[args[k]] \in TextField \cup SwitchField
      BY FlagNames
    <3>4. args[k] \in DOMAIN ValueFlags =>
            ValueFlags[args[k]] \in TextField \cup SwitchField /\ ValueFlags[args[k]] # Switches[arg]
      BY <2>1, FlagNames
    <3> HIDE DEF arg
    <3> QED  BY <2>2, <3>1, <3>2, <3>3, <3>4
  <2> QED  BY <1>3, <2>1, <2>2, <2>3, <2>4 DEF FlagsSoFar
<1> QED  BY <1>5, <1>7, <1>8 DEF IsTaken

(* Arguments that are read to their end are well formed: every one is a    *)
(* known flag, there once, or the value of the flag before it.             *)
THEOREM ArgumentsAreRead ==
  ASSUME NEW args \in Seq(STRING), parse_cli(args).outcome = "reading"
  PROVE  WellFormed(args)
<1>1. PICK h : /\ h[0] = NothingTaken /\ \A i \in 0..Len(args) : h[i] \in Taking
               /\ \A i \in 1..Len(args) : h[i] = TakeArgument(h[i-1], args[i])
               /\ FoldLeft(TakeArgument, NothingTaken, args) = h[Len(args)]
  BY TakenOneByOne
<1> DEFINE n == Len(args)
           flag == {k \in 1..n : h[k-1].wants = Absent}
           S == {i \in 0..n : h[i].outcome = "reading" => FlagsSoFar(args, flag, i, h[i])}
<1>2. n \in Nat /\ DOMAIN args = 1..n /\ (\A i \in 1..n : args[i] \in STRING) /\ n \in 0..n
  OBVIOUS
<1>3. h[n].outcome = "reading" /\ h[n].wants = Absent
  <2>1. parse_cli(args) = IF h[n].wants # Absent THEN [h[n] EXCEPT !.outcome = "refused"] ELSE h[n]
    BY <1>1 DEF parse_cli, NothingTaken
  <2>2. h[n] \in Taking
    BY <1>1, <1>2
  <2>3. [h[n] EXCEPT !.outcome = "refused"].outcome = "refused"
    BY <2>2 DEF Taking
  <2> QED  BY <2>1, <2>3
<1> HIDE DEF n
<1>4. 0 \in S
  <2>1. h[0].wants = Absent
    BY <1>1 DEF NothingTaken
  <2>2. 0 \notin flag /\ \A k \in flag : ~(k <= 0)
    BY <1>2
  <2> HIDE DEF flag
  <2> QED  BY <1>2, <2>1, <2>2 DEF FlagsSoFar
<1>5. \A i \in 1..n : i - 1 \in S => i \in S
  <2> HIDE DEF flag
  <2> SUFFICES ASSUME NEW i \in 1..n, i - 1 \in S, h[i].outcome = "reading"
               PROVE  FlagsSoFar(args, flag, i, h[i])
    <3>1. \A i \in 1..n : i \in 0..n
      BY <1>2
    <3> QED  BY <3>1
  <2>1. i \in 0..n /\ i - 1 \in 0..n /\ h[i] \in Taking /\ h[i-1] \in Taking /\ args[i] \in STRING
        /\ h[i] = TakeArgument(h[i-1], args[i])
    BY <1>1, <1>2 DEF n
  <2>2. IsTaken(h[i-1], args[i], h[i])
    BY <2>1, ArgumentTaken
  <2>3. FlagsSoFar(args, flag, i - 1, h[i-1])
    BY <2>2 DEF IsTaken
  <2>4. (i \in flag <=> h[i-1].wants = Absent) /\ flag \in SUBSET (1..n)
    BY DEF flag
  <2> QED  BY <2>1, <2>2, <2>3, <2>4, OneArgumentTaken DEF n
<1> HIDE DEF S
<1>6. \A i \in 0..n : i \in S
  BY <1>2, <1>4, <1>5, IndexInduction
<1>7. \A i \in 0..n : h[i].outcome = "reading"
  <2> DEFINE U == {k \in 0..n : h[n - k].outcome = "reading"}
  <2>1. 0 \in U
    BY <1>2, <1>3
  <2>2. \A k \in 1..n : k - 1 \in U => k \in U
    <3> SUFFICES ASSUME NEW k \in 1..n, h[n - (k - 1)].outcome = "reading"  PROVE  h[n - k].outcome = "reading"
      BY <1>2
    <3> DEFINE i == n - (k - 1)
    <3>1. i \in 1..n /\ i - 1 = n - k /\ i - 1 \in 0..n
      BY <1>2
    <3> HIDE DEF i
    <3>2. h[i] = TakeArgument(h[i-1], args[i]) /\ h[i-1] \in Taking /\ args[i] \in STRING
      BY <1>1, <1>2, <3>1 DEF n
    <3> QED  BY <3>1, <3>2, ArgumentTaken DEF IsTaken, i
  <2> HIDE DEF U
  <2>3. \A k \in 0..n : k \in U
    BY <1>2, <2>1, <2>2, IndexInduction
  <2> SUFFICES ASSUME NEW i \in 0..n  PROVE  h[i].outcome = "reading"
    OBVIOUS
  <2>4. n - i \in 0..n /\ n - (n - i) = i
    BY <1>2
  <2>5. n - i \in U
    BY <2>3, <2>4
  <2> QED  BY <2>4, <2>5 DEF U
<1>8. \A i \in 0..n : FlagsSoFar(args, flag, i, h[i])
  BY <1>6, <1>7 DEF S
<1>9. \A i \in 1..n : i \in flag <=> i = 1 \/ i - 1 \notin flag \/ args[i - 1] \notin DOMAIN ValueFlags
  <2> TAKE i \in 1..n
  <2>1. i - 1 \in 0..n /\ (i # 1 => i - 1 \in 1..n)
    BY <1>2
  <2>2. h[i-1].wants = IF i - 1 \in flag /\ args[i-1] \in DOMAIN ValueFlags THEN ValueFlags[args[i-1]] ELSE Absent
    BY <1>8, <2>1 DEF FlagsSoFar
  <2>3. i \in flag <=> h[i-1].wants = Absent
    OBVIOUS
  <2>4. i = 1 => i - 1 \notin flag
    BY <1>2
  <2> HIDE DEF flag
  <2> QED  BY <2>2, <2>3, <2>4, FlagNames
<1>10. flag \in SUBSET (1..n)
  OBVIOUS
<1> HIDE DEF flag
<1>11. FlagsSoFar(args, flag, n, h[n])
  BY <1>2, <1>8
<1>12. ASSUME NEW i \in flag
       PROVE  /\ args[i] \in DOMAIN ValueFlags \cup DOMAIN Switches
              /\ args[i] \in DOMAIN ValueFlags => i + 1 \in 1..n
              /\ \A j \in flag \ {i} : args[j] # args[i]
  <2>1. i \in Nat /\ i <= n /\ 1 <= i /\ (i # n => i + 1 \in 1..n)
    BY <1>2, <1>10
  <2>2. args[i] \in DOMAIN ValueFlags => i # n
    BY <1>3, <1>11, FlagNames DEF FlagsSoFar
  <2>3. args[i] \in DOMAIN ValueFlags \cup DOMAIN Switches
    BY <1>11, <2>1 DEF FlagsSoFar
  <2>4. ASSUME NEW j \in flag \ {i}  PROVE  args[j] # args[i]
    <3>1. j \in Nat /\ j <= n /\ (j < i \/ i < j)
      BY <1>2, <1>10, <2>1
    <3> QED  BY <1>11, <2>1, <3>1 DEF FlagsSoFar
  <2> QED  BY <2>1, <2>2, <2>3, <2>4
<1> QED  BY <1>2, <1>9, <1>10, <1>12 DEF WellFormed

-----------------------------------------------------------------------------
(* When the frontend is open.                                              *)

Before == {"arguments", "config", "secret", "select"}
During == {"enter", "flush", "poll", "leave", "deinit"}

RequestIsValid ==
  \/ invocation.name = "nowayprompt-ssh-askpass"
  \/ OfCli /\ WellFormed(invocation.args) /\ validate_cli(request)
ConfigIsValid ==
  LET file == SelectedFile(home)
  IN IF file = Absent THEN config = Defaults
     ELSE file # Unreadable /\ IsValid(file) /\ config = Meaning(file)

PhaseInv ==
  /\ invocation \in Invocations /\ home \in Homes
  /\ pc \in Before \cup During \cup {"write", "ended"}
  /\ pc # "ended" => status = Absent
  /\ pc \in During => frontend = "open"
  /\ pc \in Before => frontend = "none"
  /\ frontend = "open" => pc \in During
  /\ pc \in {"config", "secret", "select"} \/ frontend # "none" => RequestIsValid
  /\ pc \in {"secret", "select"} \/ frontend # "none" => ConfigIsValid

(* Steps behind the choice of the frontend that leave it as it is.         *)
LEMMA PhaseStays ==
  ASSUME PhaseInv, UNCHANGED <<asked, frontend>>, pc' \in During \cup {"write", "ended"},
         pc' # "ended" => pc # "ended" /\ status' = status,
         pc' \in During <=> frontend = "open"
  PROVE  PhaseInv'
BY DEF PhaseInv, Before, During, RequestIsValid, ConfigIsValid, OfCli, asked

(* A process that has not opened one.                                      *)
LEMMA PhaseRefused ==
  ASSUME PhaseInv, pc \in Before, Refuse
  PROVE  PhaseInv'
BY DEF PhaseInv, Before, During, RequestIsValid, ConfigIsValid, Refuse, Exit, asked

(* A request that is in order.                                             *)
LEMMA PhaseAccepted ==
  ASSUME PhaseInv, pc = "arguments", NEW r, Accept(r),
         \/ invocation.name = "nowayprompt-ssh-askpass"
         \/ OfCli /\ WellFormed(invocation.args) /\ validate_cli(r)
  PROVE  PhaseInv'
<1>1. RequestIsValid'
  BY DEF Accept, RequestIsValid, OfCli, validate_cli
<1>2. pc' = "config" /\ status' = status /\ UNCHANGED <<invocation, home, frontend>>
  BY DEF Accept, output
<1> QED  BY <1>1, <1>2 DEF PhaseInv, Before, During

(* parse_cli and validate_cli before the request is accepted.              *)
LEMMA ArgumentsPhase ==
  ASSUME PhaseInv, ReadArguments
  PROVE  PhaseInv'
<1>1. pc = "arguments" /\ pc \in Before /\ invocation \in Invocations
  BY DEF ReadArguments, Before, PhaseInv
<1>2. CASE invocation.name = "nowayprompt"
  <2> DEFINE parsed == parse_cli(invocation.args)
  <2>1. \/ Exit(IF reader THEN 0 ELSE 1) /\ UNCHANGED <<asked, frontend, wayland, result, stdout, reader, answer>>
        \/ parsed.outcome = "reading" /\ validate_cli(parsed.request) /\ Accept(parsed.request)
        \/ Refuse
    BY <1>2 DEF ReadArguments
  <2>2. parsed.outcome = "reading" => WellFormed(invocation.args)
    BY <1>1, ArgumentsAssumption, ArgumentsAreRead
  <2>3. OfCli
    BY <1>2 DEF OfCli
  <2> HIDE DEF parsed
  <2>4. ASSUME Exit(IF reader THEN 0 ELSE 1),
               UNCHANGED <<asked, frontend, wayland, result, stdout, reader, answer>>
        PROVE  PhaseInv'
    BY <1>1, <2>4 DEF PhaseInv, Before, During, RequestIsValid, ConfigIsValid, Exit, asked
  <2> QED  BY <1>1, <2>1, <2>2, <2>3, <2>4, PhaseRefused, PhaseAccepted
<1>3. CASE invocation.name = "nowayprompt-ssh-askpass"
  <2>1. Accept(AskpassRequest(invocation.args))
    BY <1>3 DEF ReadArguments
  <2> QED  BY <1>1, <1>3, <2>1, PhaseAccepted
<1>4. CASE invocation.name \notin {"nowayprompt", "nowayprompt-ssh-askpass"}
  BY <1>1, <1>4, PhaseRefused DEF ReadArguments
<1> QED  BY <1>2, <1>3, <1>4

(* The configuration before anything is opened.                            *)
LEMMA ConfigPhase ==
  ASSUME PhaseInv, ReadConfig
  PROVE  PhaseInv'
<1>1. pc = "config" /\ pc \in Before /\ home \in Homes
  BY DEF ReadConfig, Before, PhaseInv
<1>2. CASE ParseConfig(home).ok
  <2>1. /\ config' = ParseConfig(home).values /\ pc' = "secret" /\ status' = status
        /\ UNCHANGED <<invocation, home, request, frontend>>
    BY <1>2 DEF ReadConfig, output
  <2>2. ConfigIsValid'
    BY <1>1, <1>2, <2>1, ConfigIsRead DEF ConfigIsValid
  <2>3. RequestIsValid'
    BY <1>1, <2>1 DEF PhaseInv, RequestIsValid, OfCli
  <2> QED  BY <1>1, <2>1, <2>2, <2>3 DEF PhaseInv, Before, During
<1>3. CASE ~ParseConfig(home).ok
  BY <1>1, <1>3, PhaseRefused DEF ReadConfig
<1> QED  BY <1>2, <1>3

(* Every step.                                                             *)
LEMMA StepPhase == PhaseInv /\ [Next]_vars => PhaseInv'
<1> SUFFICES ASSUME PhaseInv, [Next]_vars  PROVE  PhaseInv'
  OBVIOUS
<1>1. CASE MakeSecret
  <2>1. pc = "secret" /\ pc \in Before
    BY <1>1 DEF MakeSecret, Before
  <2>2. CASE pc' = "select" /\ UNCHANGED <<asked, frontend, wayland, result, output, answer>>
    BY <2>1, <2>2 DEF PhaseInv, Before, During, RequestIsValid, ConfigIsValid, OfCli, asked, output
  <2> QED  BY <1>1, <2>1, <2>2, PhaseRefused DEF MakeSecret
<1>2. CASE Select
  <2>1. pc = "select" /\ pc \in Before
    BY <1>2 DEF Select, Before
  <2>2. CASE link # "up"
    BY <1>2, <2>1, <2>2, PhaseRefused DEF Select
  <2>3. CASE link = "up"
    <3>1. frontend' = "open" /\ pc' = "enter" /\ UNCHANGED <<asked, status>>
      BY <1>2, <2>3 DEF Select, output
    <3> QED  BY <2>1, <3>1 DEF PhaseInv, Before, During, RequestIsValid, ConfigIsValid, OfCli, asked
  <2> QED  BY <2>2, <2>3
<1>3. CASE EnterMode \/ Flush \/ HandleEvent \/ LeaveMode
  <2>1. pc \in During /\ pc' \in During /\ UNCHANGED <<asked, frontend, status>>
    BY <1>3 DEF EnterMode, Flush, HandleEvent, LeaveMode, Finish, During, output
  <2>2. frontend = "open" /\ pc # "ended" /\ pc' # "ended"
    BY <2>1 DEF PhaseInv, During
  <2> QED  BY <2>1, <2>2, PhaseStays
<1>4. CASE Deinit
  <2>1. pc = "deinit" /\ frontend' = "closed" /\ pc' = "write" /\ UNCHANGED <<asked, status>>
    BY <1>4 DEF Deinit, output
  <2> QED  BY <2>1 DEF PhaseInv, Before, During, RequestIsValid, ConfigIsValid, OfCli, asked
<1>5. CASE WriteLine \/ Return
  <2>1. pc = "write" /\ UNCHANGED <<asked, frontend>> /\ (pc' = "ended" \/ (pc' = "write" /\ status' = status))
    BY <1>5 DEF WriteLine, Return, Exit
  <2>2. frontend # "open"
    BY <2>1 DEF PhaseInv, During
  <2> QED  BY <2>1, <2>2, PhaseStays DEF During
<1>6. CASE Environment \/ UNCHANGED vars
  <2>1. UNCHANGED <<asked, frontend, pc, status>>
    BY <1>6 DEF Environment, Press, CompositorCloses, CompositorDies, ReaderLeaves, vars, asked, output
  <2> QED  BY <2>1 DEF PhaseInv, Before, During, RequestIsValid, ConfigIsValid, OfCli, asked
<1> QED
  BY <1>1, <1>2, <1>3, <1>4, <1>5, <1>6, ArgumentsPhase, ConfigPhase DEF Next, Process

(* So in every behaviour.                                                  *)
LEMMA PhaseInvariance == Spec => []PhaseInv
<1>1. Init => PhaseInv
  BY DEF Init, PhaseInv, Before, During
<1> QED  BY <1>1, StepPhase, PTL DEF Spec

(* The frontend, which holds pointers to the secret and the configuration, *)
(* is closed before the process ends, however the prompt ended (run and    *)
(* prompt in src/command.rs).                                              *)
THEOREM TheFrontendIsClosed == Spec => []FrontendIsReleased
<1>1. PhaseInv => FrontendIsReleased
  BY DEF PhaseInv, FrontendIsReleased, During
<1> QED  BY <1>1, PhaseInvariance, PTL

(* Nobody is asked for a secret unless the whole command line and the      *)
(* whole configuration file are in order: parse_cli and validate_cli       *)
(* accept nothing that is not well formed, and Config::parse leaves        *)
(* exactly the values the file means.                                      *)
THEOREM OnlyValidRequestsAreAsked == Spec => []OpensOnlyForValidRequests
<1>1. PhaseInv => OpensOnlyForValidRequests
  BY DEF PhaseInv, OpensOnlyForValidRequests, RequestIsValid, ConfigIsValid
<1> QED  BY <1>1, PhaseInvariance, PTL

-----------------------------------------------------------------------------
(* What dispatching the events that wait would make of the prompt.         *)

PromptMode == {"None", "GetPin", "Message"}
Event == Typed \cup Decision \cup {"Erase", "Sync", "SyncBare", "Closed"}
Dispatching == [mode: PromptMode, secret: Seq(Typed), reason: Decision \cup {"None", "Error"}]
Undispatched == [mode |-> mode, secret |-> secret, reason |-> "None"]

(* Erasing leaves a secret.                                                *)
LEMMA FrontShorter ==
  ASSUME NEW T, NEW s \in Seq(T), s # <<>>
  PROVE  Front(s) \in Seq(T)
BY DEF Front

(* One event.                                                              *)
Enters(st, e, new) ==
  e \in {"Sync", "SyncBare"} /\ new.mode = delayed /\ new.secret = st.secret /\ new.reason \in {st.reason, "Error"}
Closes(st, e, new) == e = "Closed" /\ new.mode = st.mode /\ new.secret = st.secret /\ new.reason = "Error"
Decides(st, e, new) == e \in Decision /\ new.mode = st.mode /\ new.secret = st.secret /\ new.reason = e
Types(st, e, new) ==
  /\ e \in Typed /\ new.mode = st.mode /\ new.reason = st.reason
  /\ new.secret = IF st.mode = "GetPin" THEN Append(st.secret, e) ELSE st.secret
Erases(st, e, new) ==
  /\ e = "Erase" /\ new.mode = st.mode /\ new.reason = st.reason
  /\ new.secret = IF st.mode = "GetPin" /\ st.secret # <<>> THEN Front(st.secret) ELSE st.secret

(* A character typed, a decision and the other events are apart.           *)
LEMMA EventsApart ==
  ASSUME NEW e \in Event
  PROVE  \/ e \in Typed /\ e \notin Decision /\ e \notin {"Erase", "Sync", "SyncBare", "Closed"}
         \/ e \in Decision /\ e \notin Typed /\ e \notin {"Erase", "Sync", "SyncBare", "Closed"}
         \/ e \in {"Erase", "Sync", "SyncBare", "Closed"} /\ e \notin Typed /\ e \notin Decision
BY TypedAssumption DEF Event, Decision

(* Dispatching one event does what its kind says.                          *)
LEMMA EventDispatched ==
  ASSUME delayed \in PromptMode, NEW st \in Dispatching, NEW e \in Event
  PROVE  /\ Dispatch(st, e) \in Dispatching
         /\ \/ Enters(st, e, Dispatch(st, e)) \/ Closes(st, e, Dispatch(st, e)) \/ Decides(st, e, Dispatch(st, e))
            \/ Types(st, e, Dispatch(st, e)) \/ Erases(st, e, Dispatch(st, e))
<1> DEFINE new == Dispatch(st, e)
           s1 == IF st.mode = "GetPin" THEN Append(st.secret, e) ELSE st.secret
           s2 == IF st.mode = "GetPin" /\ st.secret # <<>> THEN Front(st.secret) ELSE st.secret
           r1 == IF Drawable THEN st.reason ELSE "Error"
<1>1. st = [mode |-> st.mode, secret |-> st.secret, reason |-> st.reason]
      /\ st.mode \in PromptMode /\ st.secret \in Seq(Typed) /\ st.reason \in Decision \cup {"None", "Error"}
  BY DEF Dispatching
<1>2. \A m \in PromptMode, s \in Seq(Typed), r \in Decision \cup {"None", "Error"} :
        [mode |-> m, secret |-> s, reason |-> r] \in Dispatching
  BY DEF Dispatching
<1>3. (e \in Typed => s1 \in Seq(Typed)) /\ s2 \in Seq(Typed) /\ r1 \in {st.reason, "Error"}
  BY <1>1, FrontShorter
<1>4. CASE e \in {"Sync", "SyncBare"}
  <2>1. \E r \in {st.reason, "Error"} : new = [mode |-> delayed, secret |-> st.secret, reason |-> r]
    BY <1>1, <1>4, EventsApart DEF Dispatch
  <2> HIDE DEF new
  <2>2. Enters(st, e, new)
    BY <1>4, <2>1 DEF Enters
  <2> QED  BY <1>1, <1>2, <2>1, <2>2 DEF new
<1>5. CASE e = "Closed"
  <2>1. new = [mode |-> st.mode, secret |-> st.secret, reason |-> "Error"]
    BY <1>1, <1>5, EventsApart DEF Dispatch
  <2> HIDE DEF new
  <2>2. Closes(st, e, new)
    BY <1>5, <2>1 DEF Closes
  <2> QED  BY <1>1, <1>2, <2>1, <2>2 DEF new
<1>6. CASE e \in Decision
  <2>1. new = [mode |-> st.mode, secret |-> st.secret, reason |-> e]
    BY <1>1, <1>6, EventsApart DEF Dispatch
  <2> HIDE DEF new
  <2>2. Decides(st, e, new)
    BY <1>6, <2>1 DEF Decides
  <2> QED  BY <1>1, <1>2, <1>6, <2>1, <2>2 DEF new
<1>7. CASE e \in Typed
  <2>1. new = [mode |-> st.mode, secret |-> s1, reason |-> st.reason]
    BY <1>1, <1>7, EventsApart DEF Dispatch
  <2> HIDE DEF new
  <2>2. Types(st, e, new)
    BY <1>7, <2>1 DEF Types
  <2> HIDE DEF s1
  <2> QED  BY <1>1, <1>2, <1>3, <1>7, <2>1, <2>2 DEF new
<1>8. CASE e = "Erase"
  <2>1. new = [mode |-> st.mode, secret |-> s2, reason |-> st.reason]
    BY <1>1, <1>8, EventsApart DEF Dispatch
  <2> HIDE DEF new
  <2>2. Erases(st, e, new)
    BY <1>8, <2>1 DEF Erases
  <2> HIDE DEF s2
  <2> QED  BY <1>1, <1>2, <1>3, <2>1, <2>2 DEF new
<1> QED  BY <1>4, <1>5, <1>6, <1>7, <1>8 DEF Event

(* A run of the dispatch loop, one event after the other.                  *)
Runs(h, es) ==
  /\ h \in [0..Len(es) -> Dispatching]
  /\ h[0] = Undispatched
  /\ \A i \in 1..Len(es) : h[i] = Dispatch(h[i-1], es[i])

(* There is a run, and it ends in what the fold computes.                  *)
LEMMA DispatchedOneByOne ==
  ASSUME delayed \in PromptMode, Undispatched \in Dispatching, NEW es \in Seq(Event)
  PROVE  \E h : Runs(h, es) /\ FoldLeft(Dispatch, Undispatched, es) = h[Len(es)]
<1> DEFINE n == Len(es)
           F == [x \in Dispatching \X (1..n) |-> Dispatch(x[1], es[x[2]])]
           Unfolds(g) == g = [s \in SUBSET (1..n) |->
                               IF s = {} THEN Undispatched ELSE Dispatch(g[s \ {Max(s)}], es[Max(s)])]
           g == CHOOSE g : Unfolds(g)
           h == [i \in 0..n |-> g[1..i]]
<1>1. n \in Nat /\ DOMAIN es = 1..n /\ \A i \in 1..n : es[i] \in Event
  OBVIOUS
<1>2. FoldLeft(Dispatch, Undispatched, es) = g[1..n]
  BY <1>1 DEF FoldLeft, MapThenFoldSet
<1> HIDE DEF n
<1>3. \A st \in Dispatching : \A i \in 1..n : Dispatch(st, es[i]) \in Dispatching
  BY <1>1, EventDispatched
<1>4. F \in [Dispatching \X (1..n) -> Dispatching]
  BY <1>3
<1>5. \E f : Unfolds(f)
  <2>1. PICK f \in [SUBSET (1..n) -> Dispatching] : FoldsTo(F, Undispatched, n, f)
    BY <1>1, <1>4, FoldExists
  <2>2. ASSUME NEW s \in SUBSET (1..n)
        PROVE  f[s] = IF s = {} THEN Undispatched ELSE Dispatch(f[s \ {Max(s)}], es[Max(s)])
    <3>1. f[s] = IF s = {} THEN Undispatched ELSE F[<<f[s \ {Max(s)}], Max(s)>>]
      BY <2>1 DEF FoldsTo
    <3>2. CASE s # {}
      BY <1>1, <3>1, <3>2, LastIndex
    <3> QED  BY <3>1, <3>2
  <2> QED  BY <2>2
<1>6. \A s \in SUBSET (1..n) :
        g[s] = IF s = {} THEN Undispatched ELSE Dispatch(g[s \ {Max(s)}], es[Max(s)])
  <2>1. Unfolds(g)
    BY <1>5
  <2> HIDE DEF g
  <2> QED  BY <2>1
<1> HIDE DEF g
<1>7. h[0] = Undispatched
  <2>1. 1..0 = {} /\ {} \in SUBSET (1..n) /\ 0 \in 0..n
    BY <1>1
  <2> QED  BY <1>6, <2>1
<1>8. ASSUME NEW i \in 1..n  PROVE  h[i] = Dispatch(h[i-1], es[i])
  <2>1. i \in 0..n /\ i - 1 \in 0..n /\ 1..i \in SUBSET (1..n) /\ 1..i # {}
        /\ Max(1..i) = i /\ (1..i) \ {i} = 1..i-1
    BY <1>1, FirstIndices
  <2>2. g[1..i] = Dispatch(g[1..i-1], es[i])
    BY <1>6, <2>1
  <2> QED  BY <2>1, <2>2
<1>9. h[n] = g[1..n] /\ DOMAIN h = 0..n /\ h = [i \in 0..n |-> h[i]]
  BY <1>1
<1> HIDE DEF h, F
<1>10. \A i \in 0..n : h[i] \in Dispatching
  <2> DEFINE S == {i \in 0..n : h[i] \in Dispatching}
  <2>1. 0 \in S
    BY <1>1, <1>7
  <2>2. \A i \in 1..n : i - 1 \in S => i \in S
    BY <1>1, <1>3, <1>8
  <2> HIDE DEF S
  <2>3. \A i \in 0..n : i \in S
    BY <1>1, <2>1, <2>2, IndexInduction
  <2> QED  BY <2>3 DEF S
<1>11. h \in [0..n -> Dispatching]
  BY <1>9, <1>10
<1> QED  BY <1>2, <1>7, <1>8, <1>9, <1>11 DEF n, Runs

(* There is only one run.                                                  *)
LEMMA RunIsTheFold ==
  ASSUME delayed \in PromptMode, Undispatched \in Dispatching, NEW es \in Seq(Event), NEW h, Runs(h, es)
  PROVE  FoldLeft(Dispatch, Undispatched, es) = h[Len(es)]
<1>1. PICK k : Runs(k, es) /\ FoldLeft(Dispatch, Undispatched, es) = k[Len(es)]
  BY DispatchedOneByOne
<1> DEFINE n == Len(es)
           S == {i \in 0..n : h[i] = k[i]}
<1>2. n \in Nat /\ n \in 0..n /\ 0 \in 0..n /\ \A i \in 1..n : i \in 0..n
  OBVIOUS
<1>3. h[0] = k[0] /\ \A i \in 1..n : h[i] = Dispatch(h[i-1], es[i]) /\ k[i] = Dispatch(k[i-1], es[i])
  BY <1>1 DEF Runs
<1> HIDE DEF n
<1>4. 0 \in S /\ \A i \in 1..n : i - 1 \in S => i \in S
  BY <1>2, <1>3
<1> HIDE DEF S
<1>5. n \in S
  BY <1>2, <1>4, IndexInduction
<1> QED  BY <1>1, <1>5 DEF S, n

-----------------------------------------------------------------------------
(* JSON's escapes: what write_json_bytes writes reads as the secret.       *)

Byte == Typed \cup {"backslash", "quote", "r"}
Unread == [escaped |-> FALSE, text |-> <<>>]
Text == Byte \cup {"return", "end of string"}
Reading == [escaped: BOOLEAN, text: Seq(Text)]

(* One byte, in an escape or not.                                          *)
LEMMA ByteUnescaped ==
  ASSUME NEW st \in Reading, NEW c \in Byte
  PROVE  /\ Unescape(st, c) \in Reading
         /\ st.escaped => Unescape(st, c) = [escaped |-> FALSE, text |-> Append(st.text, IF c = "r" THEN "return" ELSE c)]
         /\ ~st.escaped /\ c = "backslash" => Unescape(st, c) = [escaped |-> TRUE, text |-> st.text]
         /\ ~st.escaped /\ c \notin {"backslash", "quote"} =>
              Unescape(st, c) = [escaped |-> FALSE, text |-> Append(st.text, c)]
<1>1. st = [escaped |-> st.escaped, text |-> st.text] /\ st.escaped \in BOOLEAN /\ st.text \in Seq(Text)
  BY DEF Reading
<1>2. \A e \in BOOLEAN, t \in Seq(Text) : [escaped |-> e, text |-> t] \in Reading
  BY DEF Reading
<1>3. c \in Text /\ "return" \in Text /\ "end of string" \in Text
  BY DEF Byte, Text
<1>4. \A d \in Text : Append(st.text, d) \in Seq(Text)
  BY <1>1
<1>5. CASE st.escaped
  <2>1. Unescape(st, c) = [escaped |-> FALSE, text |-> Append(st.text, IF c = "r" THEN "return" ELSE c)]
    BY <1>1, <1>5 DEF Unescape
  <2> QED  BY <1>2, <1>3, <1>4, <1>5, <2>1
<1>6. CASE ~st.escaped /\ c = "backslash"
  <2>1. Unescape(st, c) = [escaped |-> TRUE, text |-> st.text]
    BY <1>1, <1>6 DEF Unescape
  <2> QED  BY <1>1, <1>2, <1>6, <2>1
<1>7. CASE ~st.escaped /\ c = "quote"
  <2>1. Unescape(st, c) = [escaped |-> FALSE, text |-> Append(st.text, "end of string")]
    BY <1>1, <1>7 DEF Unescape
  <2> QED  BY <1>2, <1>3, <1>4, <1>7, <2>1
<1>8. CASE ~st.escaped /\ c \notin {"backslash", "quote"}
  <2>1. Unescape(st, c) = [escaped |-> FALSE, text |-> Append(st.text, c)]
    BY <1>1, <1>8 DEF Unescape
  <2> QED  BY <1>2, <1>3, <1>4, <1>8, <2>1
<1> QED  BY <1>1, <1>5, <1>6, <1>7, <1>8

(* The reader takes the bytes one by one.                                  *)
LEMMA UnescapedOneByOne ==
  ASSUME NEW es \in Seq(Byte)
  PROVE  \E h \in [0..Len(es) -> Reading] :
           /\ FoldLeft(Unescape, Unread, es) = h[Len(es)]
           /\ h[0] = Unread /\ \A i \in 1..Len(es) : h[i] = Unescape(h[i-1], es[i])
<1> DEFINE n == Len(es)
           F == [x \in Reading \X (1..n) |-> Unescape(x[1], es[x[2]])]
           Unfolds(g) == g = [s \in SUBSET (1..n) |->
                               IF s = {} THEN Unread ELSE Unescape(g[s \ {Max(s)}], es[Max(s)])]
           g == CHOOSE g : Unfolds(g)
           h == [i \in 0..n |-> g[1..i]]
<1>1. n \in Nat /\ DOMAIN es = 1..n /\ \A i \in 1..n : es[i] \in Byte
  OBVIOUS
<1>2. FoldLeft(Unescape, Unread, es) = g[1..n]
  BY <1>1 DEF FoldLeft, MapThenFoldSet
<1> HIDE DEF n
<1>3. \A st \in Reading : \A i \in 1..n : Unescape(st, es[i]) \in Reading
  BY <1>1, ByteUnescaped
<1>4. F \in [Reading \X (1..n) -> Reading] /\ Unread \in Reading
  BY <1>3 DEF Unread, Reading
<1>5. \E f : Unfolds(f)
  <2>1. PICK f \in [SUBSET (1..n) -> Reading] : FoldsTo(F, Unread, n, f)
    BY <1>1, <1>4, FoldExists
  <2>2. ASSUME NEW s \in SUBSET (1..n)
        PROVE  f[s] = IF s = {} THEN Unread ELSE Unescape(f[s \ {Max(s)}], es[Max(s)])
    <3>1. f[s] = IF s = {} THEN Unread ELSE F[<<f[s \ {Max(s)}], Max(s)>>]
      BY <2>1 DEF FoldsTo
    <3>2. CASE s # {}
      BY <1>1, <3>1, <3>2, LastIndex
    <3> QED  BY <3>1, <3>2
  <2> QED  BY <2>2
<1>6. \A s \in SUBSET (1..n) :
        g[s] = IF s = {} THEN Unread ELSE Unescape(g[s \ {Max(s)}], es[Max(s)])
  <2>1. Unfolds(g)
    BY <1>5
  <2> HIDE DEF g
  <2> QED  BY <2>1
<1> HIDE DEF g
<1>7. h[0] = Unread
  <2>1. 1..0 = {} /\ {} \in SUBSET (1..n) /\ 0 \in 0..n
    BY <1>1
  <2> QED  BY <1>6, <2>1
<1>8. ASSUME NEW i \in 1..n  PROVE  h[i] = Unescape(h[i-1], es[i])
  <2>1. i \in 0..n /\ i - 1 \in 0..n /\ 1..i \in SUBSET (1..n) /\ 1..i # {}
        /\ Max(1..i) = i /\ (1..i) \ {i} = 1..i-1
    BY <1>1, FirstIndices
  <2>2. g[1..i] = Unescape(g[1..i-1], es[i])
    BY <1>6, <2>1
  <2> QED  BY <2>1, <2>2
<1>9. h[n] = g[1..n] /\ DOMAIN h = 0..n /\ h = [i \in 0..n |-> h[i]]
  BY <1>1
<1> HIDE DEF h, F
<1>10. \A i \in 0..n : h[i] \in Reading
  <2> DEFINE S == {i \in 0..n : h[i] \in Reading}
  <2>1. 0 \in S
    BY <1>1, <1>4, <1>7
  <2>2. \A i \in 1..n : i - 1 \in S => i \in S
    BY <1>1, <1>3, <1>8
  <2> HIDE DEF S
  <2>3. \A i \in 0..n : i \in S
    BY <1>1, <2>1, <2>2, IndexInduction
  <2> QED  BY <2>3 DEF S
<1>11. h \in [0..n -> Reading]
  BY <1>9, <1>10
<1> QED  BY <1>2, <1>7, <1>8, <1>9, <1>11 DEF n

(* The writer takes the characters one by one.                             *)
LEMMA WrittenOneByOne ==
  ASSUME NEW es \in Seq(Typed)
  PROVE  \E h \in [0..Len(es) -> Seq(Byte)] :
           /\ write_json_bytes(es) = h[Len(es)]
           /\ h[0] = <<>> /\ \A i \in 1..Len(es) : h[i] = h[i-1] \o JsonCharacter(es[i])
<1> DEFINE n == Len(es)
           F == [x \in Seq(Byte) \X (1..n) |-> x[1] \o JsonCharacter(es[x[2]])]
           Unfolds(g) == g = [s \in SUBSET (1..n) |->
                               IF s = {} THEN <<>> ELSE g[s \ {Max(s)}] \o JsonCharacter(es[Max(s)])]
           g == CHOOSE g : Unfolds(g)
           h == [i \in 0..n |-> g[1..i]]
<1>1. n \in Nat /\ DOMAIN es = 1..n /\ \A i \in 1..n : es[i] \in Typed
  OBVIOUS
<1>2. write_json_bytes(es) = g[1..n]
  BY <1>1 DEF write_json_bytes, FoldLeft, MapThenFoldSet
<1> HIDE DEF n
<1>3. \A st \in Seq(Byte) : \A i \in 1..n : st \o JsonCharacter(es[i]) \in Seq(Byte)
  <2> SUFFICES ASSUME NEW i \in 1..n  PROVE  JsonCharacter(es[i]) \in Seq(Byte)
    OBVIOUS
  <2>1. JsonCharacter(es[i]) \in {<<"backslash", "quote">>, <<"backslash", "backslash">>, <<"backslash", "r">>, <<es[i]>>}
    BY DEF JsonCharacter
  <2>2. es[i] \in Byte /\ {"backslash", "quote", "r"} \subseteq Byte
    BY <1>1 DEF Byte
  <2>3. (\A x \in Byte : <<x>> \in Seq(Byte)) /\ (\A x, y \in Byte : <<x, y>> \in Seq(Byte))
    OBVIOUS
  <2>4. /\ <<es[i]>> \in Seq(Byte) /\ <<"backslash", "quote">> \in Seq(Byte)
        /\ <<"backslash", "backslash">> \in Seq(Byte) /\ <<"backslash", "r">> \in Seq(Byte)
    BY <2>2, <2>3
  <2> QED  BY <2>1, <2>4, Zenon
<1>4. F \in [Seq(Byte) \X (1..n) -> Seq(Byte)] /\ <<>> \in Seq(Byte)
  <2>1. \A x \in Seq(Byte) \X (1..n) : x[1] \in Seq(Byte) /\ x[2] \in 1..n
    OBVIOUS
  <2>2. \A x \in Seq(Byte) \X (1..n) : x[1] \o JsonCharacter(es[x[2]]) \in Seq(Byte)
    BY <1>3, <2>1
  <2> QED  BY <2>2
<1>5. \E f : Unfolds(f)
  <2>1. PICK f \in [SUBSET (1..n) -> Seq(Byte)] : FoldsTo(F, <<>>, n, f)
    BY <1>1, <1>4, FoldExists
  <2>2. ASSUME NEW s \in SUBSET (1..n)
        PROVE  f[s] = IF s = {} THEN <<>> ELSE f[s \ {Max(s)}] \o JsonCharacter(es[Max(s)])
    <3>1. f[s] = IF s = {} THEN <<>> ELSE F[<<f[s \ {Max(s)}], Max(s)>>]
      BY <2>1 DEF FoldsTo
    <3>2. CASE s # {}
      <4>1. Max(s) \in 1..n /\ f[s \ {Max(s)}] \in Seq(Byte)
        BY <1>1, <3>2, LastIndex
      <4> QED  BY <3>1, <3>2, <4>1
    <3> QED  BY <3>1, <3>2
  <2> QED  BY <2>2
<1>6. \A s \in SUBSET (1..n) :
        g[s] = IF s = {} THEN <<>> ELSE g[s \ {Max(s)}] \o JsonCharacter(es[Max(s)])
  <2>1. Unfolds(g)
    BY <1>5
  <2> HIDE DEF g
  <2> QED  BY <2>1
<1> HIDE DEF g
<1>7. h[0] = <<>>
  <2>1. 1..0 = {} /\ {} \in SUBSET (1..n) /\ 0 \in 0..n
    BY <1>1
  <2> QED  BY <1>6, <2>1
<1>8. ASSUME NEW i \in 1..n  PROVE  h[i] = h[i-1] \o JsonCharacter(es[i])
  <2>1. i \in 0..n /\ i - 1 \in 0..n /\ 1..i \in SUBSET (1..n) /\ 1..i # {}
        /\ Max(1..i) = i /\ (1..i) \ {i} = 1..i-1
    BY <1>1, FirstIndices
  <2>2. g[1..i] = g[1..i-1] \o JsonCharacter(es[i])
    BY <1>6, <2>1
  <2> QED  BY <2>1, <2>2
<1>9. h[n] = g[1..n] /\ DOMAIN h = 0..n /\ h = [i \in 0..n |-> h[i]]
  BY <1>1
<1> HIDE DEF h, F
<1>10. \A i \in 0..n : h[i] \in Seq(Byte)
  <2> DEFINE Good(i) == h[i] \in Seq(Byte)
             S == {i \in 0..n : Good(i)}
  <2>1. Good(0)
    BY <1>7
  <2>2. \A i \in 1..n : Good(i-1) => Good(i)
    BY <1>3, <1>8
  <2>3. \A i \in 1..n : i \in 0..n
    BY <1>1
  <2>4. 0 \in 0..n
    BY <1>1
  <2> HIDE DEF Good
  <2>5. 0 \in S /\ \A i \in 1..n : i - 1 \in S => i \in S
    BY <2>1, <2>2, <2>3, <2>4
  <2> HIDE DEF S
  <2>6. \A i \in 0..n : i \in S
    BY <1>1, <2>5, IndexInduction
  <2> QED  BY <2>6 DEF S, Good
<1>11. h \in [0..n -> Seq(Byte)]
  BY <1>9, <1>10
<1> QED  BY <1>2, <1>7, <1>8, <1>9, <1>11 DEF n

(* One byte more.                                                          *)
LEMMA UnescapedOneMore ==
  ASSUME NEW s \in Seq(Byte), NEW c \in Byte
  PROVE  /\ FoldLeft(Unescape, Unread, s) \in Reading
         /\ FoldLeft(Unescape, Unread, Append(s, c)) = Unescape(FoldLeft(Unescape, Unread, s), c)
<1> DEFINE t == Append(s, c)
           n == Len(s)
           read(z) == FoldLeft(Unescape, Unread, z)
<1>1. t \in Seq(Byte) /\ n \in Nat /\ Len(t) = n + 1 /\ t[n + 1] = c /\ \A i \in 1..n : t[i] = s[i]
  OBVIOUS
<1>2. PICK h \in [0..Len(s) -> Reading] :
        read(s) = h[Len(s)] /\ h[0] = Unread /\ \A i \in 1..Len(s) : h[i] = Unescape(h[i-1], s[i])
  BY UnescapedOneByOne
<1>3. PICK k \in [0..Len(t) -> Reading] :
        read(t) = k[Len(t)] /\ k[0] = Unread /\ \A i \in 1..Len(t) : k[i] = Unescape(k[i-1], t[i])
  BY <1>1, UnescapedOneByOne
<1> HIDE DEF read, t, n
<1> DEFINE S == {i \in 0..n : h[i] = k[i]}
<1>4. n \in 0..n /\ 0 \in 0..n /\ n + 1 \in 1..n+1 /\ (n + 1) - 1 = n
      /\ \A i \in 1..n : i \in 0..n /\ i \in 1..n+1
  BY <1>1
<1>5. 0 \in S /\ \A i \in 1..n : i - 1 \in S => i \in S
  BY <1>1, <1>2, <1>3, <1>4 DEF n
<1> HIDE DEF S
<1>6. n \in S
  BY <1>1, <1>4, <1>5, IndexInduction
<1>7. h[n] = k[n]
  BY <1>6 DEF S
<1>8. k[n + 1] = Unescape(k[n], c)
  BY <1>1, <1>3, <1>4
<1>9. read(s) = h[n] /\ read(t) = k[n + 1] /\ h[n] \in Reading
  BY <1>1, <1>2, <1>3, <1>4 DEF n
<1> QED  BY <1>7, <1>8, <1>9 DEF read, t

(* The characters one by one, each with its escape.                        *)
LEMMA JsonReadsBack ==
  ASSUME NEW pin \in Seq(Typed)
  PROVE  FoldLeft(Unescape, Unread, write_json_bytes(pin)).text = pin
<1> DEFINE n == Len(pin)
           read(z) == FoldLeft(Unescape, Unread, z)
           done(i) == [escaped |-> FALSE, text |-> [j \in 1..i |-> pin[j]]]
<1>1. PICK w \in [0..Len(pin) -> Seq(Byte)] :
        write_json_bytes(pin) = w[Len(pin)] /\ w[0] = <<>>
        /\ \A i \in 1..Len(pin) : w[i] = w[i-1] \o JsonCharacter(pin[i])
  BY WrittenOneByOne
<1> DEFINE S == {i \in 0..n : read(w[i]) = done(i)}
<1>2. n \in Nat /\ (\A i \in 1..n : pin[i] \in Typed) /\ pin = [j \in 1..n |-> pin[j]]
  OBVIOUS
<1>3. read(<<>>) = Unread
  <2>1. <<>> \in Seq(Byte) /\ Len(<<>>) = 0
    OBVIOUS
  <2> QED  BY <2>1, UnescapedOneByOne
<1>4. \A s \in Seq(Byte), c \in Byte :
        read(s) \in Reading /\ read(Append(s, c)) = Unescape(read(s), c)
  BY UnescapedOneMore
<1> HIDE DEF read, n
<1>5. 0 \in S
  <2>1. done(0) = Unread
    BY DEF Unread
  <2> QED  BY <1>1, <1>2, <1>3, <2>1
<1>6. ASSUME NEW i \in 1..n, i - 1 \in S  PROVE  i \in S
  <2> DEFINE c == pin[i]
             s == w[i-1]
             t == done(i-1).text
  <2>1. i \in 0..n /\ i - 1 \in 0..n /\ i - 1 \in Nat /\ s \in Seq(Byte) /\ read(s) = done(i-1)
        /\ w[i] = s \o JsonCharacter(c) /\ c \in Typed /\ c \in Byte /\ \A j \in 1..i-1 : pin[j] \in Typed
    <3>1. i \in 0..n /\ i - 1 \in 0..n /\ i - 1 \in Nat /\ \A j \in 1..i-1 : j \in 1..n
      BY <1>2
    <3>2. read(s) = done(i-1)
      BY <1>6
    <3>3. s \in Seq(Byte) /\ w[i] = s \o JsonCharacter(c)
      BY <1>1, <3>1 DEF n
    <3>4. c \in Typed /\ c \in Byte
      BY <1>2 DEF Byte
    <3> QED  BY <1>2, <3>1, <3>2, <3>3, <3>4
  <2>2. done(i-1) = [escaped |-> FALSE, text |-> t] /\ t \in Seq(Text)
    <3>1. \A j \in 1..i-1 : pin[j] \in Text
      BY <2>1 DEF Text, Byte
    <3> QED  BY <2>1, <3>1
  <2>3. done(i) = [escaped |-> FALSE, text |-> Append(t, c)]
    <3>1. [j \in 1..i |-> pin[j]] = Append([j \in 1..i-1 |-> pin[j]], pin[i])
      <4> DEFINE a == [j \in 1..i-1 |-> pin[j]]
      <4>1. a \in Seq(Typed) /\ Len(a) = i - 1
        BY <2>1
      <4> QED  BY <2>1, <4>1
    <3> QED  BY <3>1
  <2> HIDE DEF c, s, t, done
  <2>4. {"backslash", "quote", "r"} \subseteq Byte
    BY DEF Byte
  <2> DEFINE a == [escaped |-> FALSE, text |-> t]
             b == [escaped |-> TRUE, text |-> t]
  <2>5. a \in Reading /\ b \in Reading
    BY <2>2 DEF Reading
  <2>6. CASE c \in {"quote", "backslash", "return"}
    <3> DEFINE d == IF c = "return" THEN "r" ELSE c
    <3>1. d \in Byte /\ c = (IF d = "r" THEN "return" ELSE d)
      BY <2>4, <2>6
    <3>2. s \o JsonCharacter(c) = Append(Append(s, "backslash"), d)
      <4>1. JsonCharacter(c) = <<"backslash", d>>
        BY <2>6 DEF JsonCharacter
      <4> HIDE DEF d
      <4> QED  BY <2>1, <4>1
    <3>3. read(Append(s, "backslash")) = Unescape(a, "backslash") /\ Append(s, "backslash") \in Seq(Byte)
      BY <1>4, <2>1, <2>2, <2>4
    <3> HIDE DEF a, b, d
    <3>4. Unescape(a, "backslash") = b
      BY <2>4, <2>5, ByteUnescaped DEF a, b
    <3>5. read(w[i]) = Unescape(b, d)
      BY <1>4, <2>1, <3>1, <3>2, <3>3, <3>4
    <3>6. Unescape(b, d) = [escaped |-> FALSE, text |-> Append(t, IF d = "r" THEN "return" ELSE d)]
      BY <2>5, <3>1, ByteUnescaped DEF b
    <3> QED  BY <2>1, <2>3, <3>1, <3>5, <3>6
  <2>7. CASE c \notin {"quote", "backslash", "return"}
    <3>1. s \o JsonCharacter(c) = Append(s, c)
      <4>1. JsonCharacter(c) = <<c>>
        BY <2>7 DEF JsonCharacter
      <4> QED  BY <2>1, <4>1
    <3>2. read(w[i]) = Unescape(a, c)
      BY <1>4, <2>1, <2>2, <3>1
    <3> HIDE DEF a, b
    <3>3. Unescape(a, c) = [escaped |-> FALSE, text |-> Append(t, c)]
      BY <2>1, <2>5, <2>7, ByteUnescaped DEF a
    <3> QED  BY <2>1, <2>3, <3>2, <3>3
  <2> QED  BY <2>6, <2>7
<1> HIDE DEF S
<1>7. n \in S
  BY <1>2, <1>5, <1>6, IndexInduction
<1>8. read(w[n]) = done(n) /\ write_json_bytes(pin) = w[n]
  BY <1>1, <1>7 DEF S, n
<1> QED  BY <1>2, <1>8 DEF read

-----------------------------------------------------------------------------
(* What the prompt does with the events that wait is what the user did.    *)

Conversing ==
  /\ delayed \in PromptMode /\ mode \in PromptMode
  /\ secret \in Seq(Typed) /\ events \in Seq(Event)
  /\ link \in {"up", "down", "broken"}
  /\ answer \in [typed: Seq(Typed), decided: Decision \cup {Absent}]

(* Nobody was asked yet.                                                   *)
IdleInv ==
  pc \in Before \cup {"enter"} =>
    /\ mode = "None" /\ secret = <<>>
    /\ answer.typed = <<>> /\ answer.decided = Absent
    /\ events \in {<<>>, <<"Sync">>, <<"SyncBare">>}

(* Once the events are dispatched, a decision is the user's and comes with *)
(* all that was typed; no key is lost while the compositor is there.       *)
Foresees(st) ==
  /\ st.reason \in Decision => st.reason = answer.decided /\ st.secret = answer.typed
  /\ link = "up" => st.secret = answer.typed
  /\ mode # "None" => st.mode = mode
  /\ mode # "GetPin" => answer.typed = <<>>
LoopInv == pc \in {"flush", "poll"} => \E h : Runs(h, events) /\ Foresees(h[Len(events)])

ResultInv ==
  /\ result \in Decision =>
       result = answer.decided /\ secret = answer.typed /\ pc \in {"leave", "deinit", "write", "ended"}
  /\ pc = "leave" => result \in Decision
  /\ pc \in {"deinit", "write"} => result \in Decision \cup {"Error"}
  /\ pc = "write" => frontend = "closed"

TalkInv == Conversing /\ IdleInv /\ LoopInv /\ ResultInv

(* Where a run starts.                                                     *)
LEMMA ConversingTypes ==
  ASSUME Conversing
  PROVE  Undispatched \in Dispatching
BY DEF Conversing, Undispatched, Dispatching

(* No event, or only the one of the sync callback.                         *)
LEMMA FewEvents ==
  Conversing /\ events \in {<<>>, <<"Sync">>, <<"SyncBare">>} =>
    \E h : /\ Runs(h, events)
           /\ h[Len(events)].reason \notin Decision /\ h[Len(events)].secret = secret
           /\ events = <<>> => h[Len(events)].mode = mode
<1> SUFFICES ASSUME Conversing, events \in {<<>>, <<"Sync">>, <<"SyncBare">>}
             PROVE  \E h : /\ Runs(h, events)
                           /\ h[Len(events)].reason \notin Decision /\ h[Len(events)].secret = secret
                           /\ events = <<>> => h[Len(events)].mode = mode
  OBVIOUS
<1>1. events \in Seq(Event) /\ delayed \in PromptMode
  BY DEF Conversing
<1>2. Undispatched \in Dispatching
  BY ConversingTypes
<1>3. PICK h : Runs(h, events)
  BY <1>1, <1>2, DispatchedOneByOne
<1>4. Undispatched.reason = "None" /\ Undispatched.secret = secret /\ Undispatched.mode = mode
      /\ "None" \notin Decision /\ "Error" \notin Decision
  BY DEF Undispatched, Decision
<1>5. CASE events = <<>>
  <2>1. Len(events) = 0 /\ h[0] = Undispatched
    BY <1>3, <1>5 DEF Runs
  <2> QED  BY <1>3, <1>4, <1>5, <2>1
<1>6. CASE events # <<>>
  <2>1. Len(events) = 1 /\ events[1] \in {"Sync", "SyncBare"} /\ 1 \in 1..Len(events)
    BY <1>6
  <2>2. events[1] \in Event
    BY <2>1 DEF Event
  <2>3. h[1] = Dispatch(h[1-1], events[1]) /\ h[0] = Undispatched
    BY <1>3, <2>1 DEF Runs
  <2> DEFINE e == events[1]
             new == Dispatch(Undispatched, e)
  <2>4. \/ Enters(Undispatched, e, new) \/ Closes(Undispatched, e, new) \/ Decides(Undispatched, e, new)
        \/ Types(Undispatched, e, new) \/ Erases(Undispatched, e, new)
    BY <1>1, <1>2, <2>2, EventDispatched
  <2>5. h[1] = new
    BY <2>3
  <2> HIDE DEF new
  <2>6. new.secret = secret /\ new.reason \in {"None", "Error"}
    BY <1>4, <2>1, <2>2, <2>4, EventsApart DEF Enters, Closes, Decides, Types, Erases
  <2> QED  BY <1>3, <1>4, <1>6, <2>1, <2>5, <2>6
<1> QED  BY <1>5, <1>6

(* The same of the next state.                                             *)
LEMMA FewEventsNext ==
  (Conversing /\ events \in {<<>>, <<"Sync">>, <<"SyncBare">>})' =>
    \E h : /\ Runs(h, events)'
           /\ h[Len(events')].reason \notin Decision /\ h[Len(events')].secret = secret'
           /\ events' = <<>> => h[Len(events')].mode = mode'
<1> DEFINE P == Conversing /\ events \in {<<>>, <<"Sync">>, <<"SyncBare">>}
           Q == \E h : /\ Runs(h, events)
                       /\ h[Len(events)].reason \notin Decision /\ h[Len(events)].secret = secret
                       /\ events = <<>> => h[Len(events)].mode = mode
<1>1. P => Q
  BY FewEvents
<1> HIDE DEF P, Q
<1>2. P' => Q'
  BY <1>1, PTL
<1> QED  BY <1>2 DEF P, Q

(* One event more.                                                         *)
LEMMA RunGoesOn ==
  ASSUME Conversing, NEW h, Runs(h, events), NEW e \in Event, events' = Append(events, e),
         UNCHANGED <<delayed, mode, secret, request>>
  PROVE  \E k : Runs(k, events)' /\ k[Len(events')] = Dispatch(h[Len(events)], e)
<1> DEFINE n == Len(events)
           k0 == [i \in 0..n+1 |-> IF i = n + 1 THEN Dispatch(h[n], e) ELSE h[i]]
<1>1. n \in Nat /\ Len(events') = n + 1 /\ events'[n + 1] = e /\ \A i \in 1..n : events'[i] = events[i]
  BY DEF Conversing
<1>2. h \in [0..n -> Dispatching] /\ h[0] = Undispatched /\ \A i \in 1..n : h[i] = Dispatch(h[i-1], events[i])
  BY DEF Runs
<1> HIDE DEF n
<1>3. n \in 0..n /\ Dispatch(h[n], e) \in Dispatching
  BY <1>1, <1>2, EventDispatched DEF Conversing
<1>4. k0 \in [0..n+1 -> Dispatching] /\ k0[n + 1] = Dispatch(h[n], e) /\ k0[0] = Undispatched
      /\ \A i \in 0..n : k0[i] = h[i]
  BY <1>1, <1>2, <1>3
<1>5. \A i \in 1..n+1 : k0[i] = Dispatch(k0[i-1], events'[i])
  <2> SUFFICES ASSUME NEW i \in 1..n+1  PROVE  k0[i] = Dispatch(k0[i-1], events'[i])
    OBVIOUS
  <2>1. CASE i = n + 1
    <3>1. i - 1 = n
      BY <1>1, <2>1
    <3> QED  BY <1>1, <1>3, <1>4, <2>1, <3>1
  <2>2. CASE i # n + 1
    <3>1. i \in 1..n /\ i \in 0..n /\ i - 1 \in 0..n
      BY <1>1, <2>2
    <3> QED  BY <1>1, <1>2, <1>4, <3>1
  <2> QED  BY <2>1, <2>2
<1> HIDE DEF k0
<1>6. PICK k : /\ k \in [0..n+1 -> Dispatching] /\ k[n + 1] = Dispatch(h[n], e) /\ k[0] = Undispatched
               /\ \A i \in 1..n+1 : k[i] = Dispatch(k[i-1], events'[i])
  BY <1>4, <1>5
<1>7. (\A i \in 1..Len(events) : k[i] = Dispatch(k[i-1], events[i]))'
  <2>1. delayed' = delayed /\ Drawable' = Drawable
    BY DEF Drawable
  <2>2. SUFFICES ASSUME NEW i \in 1..n+1  PROVE  (k[i] = Dispatch(k[i-1], events[i]))'
    BY <1>1
  <2>3. \A a, d : Dispatch(a, d)' = Dispatch(a, d)
    BY <2>1 DEF Dispatch
  <2>4. \A a, d : a = k[i-1] /\ d = events'[i] => k[i] = Dispatch(a, d)'
    BY <1>6, <2>3
  <2> QED  BY <2>4 DEF Dispatch
<1>8. (k \in [0..Len(events) -> Dispatching] /\ k[0] = Undispatched)'
  BY <1>1, <1>6 DEF Undispatched
<1>9. Runs(k, events)'
  BY <1>7, <1>8 DEF Runs
<1> QED  BY <1>1, <1>6, <1>9 DEF n

(* Absence, an error and no reason are no decisions.                       *)
LEMMA NamesApart ==
  /\ Absent \notin Decision /\ Absent # "Error" /\ "Error" \notin Decision /\ "None" \notin Decision
BY NamesAssumption DEF Decision

(* Steps that leave the conversation as it is, outside the loop.           *)
LEMMA TalkStays ==
  ASSUME TalkInv, UNCHANGED <<wayland, result, answer>>,
         pc' \notin {"flush", "poll", "leave"},
         pc' \in Before \cup {"enter"} => pc \in Before \cup {"enter"},
         result \in Decision => pc' \in {"deinit", "write", "ended"},
         pc' \in {"deinit", "write"} => result \in Decision \cup {"Error"},
         pc' = "write" => frontend' = "closed"
  PROVE  TalkInv'
<1>1. UNCHANGED <<delayed, mode, events, link, secret>>
  BY DEF wayland
<1> QED  BY <1>1 DEF TalkInv, Conversing, IdleInv, LoopInv, ResultInv

(* Before the frontend is chosen.                                          *)
LEMMA EarlyTalk ==
  ASSUME TalkInv, ReadArguments \/ ReadConfig \/ MakeSecret
  PROVE  TalkInv'
<1>1. pc \in Before /\ pc' \in Before \cup {"ended"} /\ UNCHANGED <<wayland, result, answer>>
  <2>1. CASE ReadArguments
    BY <2>1 DEF ReadArguments, Refuse, Accept, Exit, Before
  <2>2. CASE ReadConfig
    BY <2>2 DEF ReadConfig, Refuse, Exit, Before
  <2>3. CASE MakeSecret
    BY <2>3 DEF MakeSecret, Refuse, Exit, Before
  <2> QED  BY <2>1, <2>2, <2>3
<1>2. result \notin Decision
  BY <1>1 DEF TalkInv, ResultInv, Before
<1>3. pc' \notin {"flush", "poll", "leave", "deinit", "write"}
  BY <1>1 DEF Before
<1> QED  BY <1>1, <1>2, <1>3, TalkStays

(* The compositor has sent the event of the sync callback.                 *)
LEMMA SelectTalk ==
  ASSUME TalkInv, Select
  PROVE  TalkInv'
<1>1. pc = "select" /\ result \notin Decision
  BY DEF Select, TalkInv, ResultInv
<1>2. CASE link # "up"
  BY <1>1, <1>2, TalkStays DEF Select, Refuse, Exit, Before
<1>3. CASE link = "up"
  <2>1. pc' = "enter" /\ events' \in {<<"Sync">>, <<"SyncBare">>}
        /\ UNCHANGED <<delayed, mode, link, secret, result, answer>>
    BY <1>3 DEF Select
  <2>2. events' \in Seq(Event)
    <3>1. "Sync" \in Event /\ "SyncBare" \in Event
      BY DEF Event
    <3>2. \A x \in Event : <<x>> \in Seq(Event)
      OBVIOUS
    <3> QED  BY <2>1, <3>1, <3>2
  <2>3. Conversing'
    BY <2>1, <2>2 DEF TalkInv, Conversing
  <2>4. IdleInv'
    BY <1>1, <2>1 DEF TalkInv, IdleInv, Before
  <2>5. ResultInv' /\ LoopInv'
    BY <1>1, <2>1 DEF ResultInv, LoopInv
  <2> QED  BY <2>3, <2>4, <2>5 DEF TalkInv
<1> QED  BY <1>2, <1>3

(* From here on the events that wait count.                                *)
LEMMA EnterTalk ==
  ASSUME TalkInv, EnterMode
  PROVE  TalkInv'
<1>1. pc = "enter" /\ pc' = "flush" /\ delayed' \in PromptMode
      /\ UNCHANGED <<mode, events, link, secret, result, answer>>
  BY DEF EnterMode, PromptMode
<1>2. /\ mode = "None" /\ secret = <<>> /\ answer.typed = <<>> /\ result \notin Decision
      /\ events \in {<<>>, <<"Sync">>, <<"SyncBare">>}
  BY <1>1 DEF TalkInv, IdleInv, ResultInv
<1>3. Conversing'
  BY <1>1 DEF TalkInv, Conversing
<1>4. PICK h : Runs(h, events)' /\ h[Len(events')].reason \notin Decision /\ h[Len(events')].secret = secret'
  BY <1>1, <1>2, <1>3, FewEventsNext
<1>5. LoopInv'
  <2>1. Foresees(h[Len(events)])'
    BY <1>1, <1>2, <1>4 DEF Foresees
  <2> QED  BY <1>4, <2>1 DEF LoopInv
<1>6. IdleInv' /\ ResultInv'
  BY <1>1, <1>2 DEF IdleInv, ResultInv, Before
<1> QED  BY <1>3, <1>5, <1>6 DEF TalkInv

(* What the run of the same events over the same prompt is.                *)
LEMMA RunIsStable ==
  ASSUME UNCHANGED <<delayed, mode, secret, events, request>>, NEW h, Runs(h, events)
  PROVE  Runs(h, events)'
<1>1. delayed' = delayed /\ Drawable' = Drawable /\ Undispatched' = Undispatched
  BY DEF Drawable, Undispatched
<1>2. \A a, d : Dispatch(a, d)' = Dispatch(a, d)
  BY <1>1 DEF Dispatch
<1>3. (\A i \in 1..Len(events) : h[i] = Dispatch(h[i-1], events[i]))'
  <2> SUFFICES ASSUME NEW i \in 1..Len(events)  PROVE  (h[i] = Dispatch(h[i-1], events[i]))'
    OBVIOUS
  <2>1. h[i] = Dispatch(h[i-1], events[i])
    BY DEF Runs
  <2>2. \A a, d : a = h[i-1] /\ d = events[i] => h[i] = Dispatch(a, d)'
    BY <1>2, <2>1
  <2> QED  BY <2>2 DEF Dispatch
<1> QED  BY <1>1, <1>3 DEF Runs

(* Back to waiting, or an error.                                           *)
LEMMA FlushTalk ==
  ASSUME TalkInv, Flush
  PROVE  TalkInv'
<1>1. pc = "flush" /\ result \notin Decision /\ UNCHANGED <<asked, frontend, wayland, output, answer>>
  BY DEF Flush, TalkInv, ResultInv
<1>2. UNCHANGED <<delayed, mode, events, link, secret, request>>
  BY <1>1 DEF wayland, asked
<1>3. CASE Finish("Error")
  <2>1. result' = "Error" /\ pc' = "deinit"
    BY <1>3 DEF Finish
  <2> QED  BY <1>1, <1>2, <2>1, NamesApart DEF TalkInv, Conversing, IdleInv, LoopInv, ResultInv, Before
<1>4. CASE pc' = "poll" /\ UNCHANGED result
  <2>1. pc' = "poll" /\ result' = result
    BY <1>4
  <2>2. PICK h : Runs(h, events) /\ Foresees(h[Len(events)])
    BY <1>1 DEF TalkInv, LoopInv
  <2>3. Runs(h, events)' /\ Foresees(h[Len(events)])'
    BY <1>1, <1>2, <2>2, RunIsStable DEF Foresees
  <2>4. LoopInv'
    BY <2>3 DEF LoopInv
  <2> QED  BY <1>1, <1>2, <2>1, <2>4 DEF TalkInv, Conversing, IdleInv, ResultInv, Before
<1> QED  BY <1>3, <1>4 DEF Flush

(* All that waits is dispatched.                                           *)
LEMMA HandleEventTalk ==
  ASSUME TalkInv, HandleEvent
  PROVE  TalkInv'
<1> DEFINE st == FoldLeft(Dispatch, Undispatched, events)
<1>1. /\ pc = "poll" /\ result \notin Decision /\ UNCHANGED <<asked, frontend, output, answer>>
      /\ link' \in {"up", "down", "broken"} /\ (link' = "up" => link = "up")
  BY DEF HandleEvent, TalkInv, ResultInv
<1>2. mode' = st.mode /\ secret' = st.secret /\ events' = <<>>
      /\ delayed' = IF \E i \in DOMAIN events : events[i] \in {"Sync", "SyncBare"} THEN "None" ELSE delayed
  BY DEF HandleEvent, Undispatched
<1>3. /\ st.reason = "None" => pc' = "flush" /\ UNCHANGED result
      /\ st.reason = "Error" => pc' = "deinit" /\ result' = "Error"
      /\ st.reason \notin {"None", "Error"} => pc' = "leave" /\ result' = st.reason
  BY DEF HandleEvent, Undispatched, Finish
<1>4. PICK h : Runs(h, events) /\ Foresees(h[Len(events)])
  BY <1>1 DEF TalkInv, LoopInv
<1>5. st = h[Len(events)] /\ st \in Dispatching
  <2>1. Conversing /\ delayed \in PromptMode /\ events \in Seq(Event) /\ Len(events) \in 0..Len(events)
    BY DEF TalkInv, Conversing
  <2>2. h[Len(events)] \in Dispatching
    BY <1>4, <2>1 DEF Runs
  <2> QED  BY <1>4, <2>1, <2>2, ConversingTypes, RunIsTheFold
<1> HIDE DEF st
<1>6. Foresees(st)
  BY <1>4, <1>5
<1>7. st.mode \in PromptMode /\ st.secret \in Seq(Typed) /\ st.reason \in Decision \cup {"None", "Error"}
  BY <1>5 DEF Dispatching
<1>8. Conversing'
  BY <1>1, <1>2, <1>7 DEF TalkInv, Conversing, PromptMode
<1>9. answer.typed = <<>> \/ mode' = mode
  BY <1>2, <1>6 DEF Foresees
<1>10. IdleInv'
  BY <1>3, <1>7 DEF IdleInv, Before
<1>11. ResultInv'
  BY <1>1, <1>2, <1>3, <1>6, <1>7, NamesApart DEF ResultInv, Foresees
<1>12. LoopInv'
  <2> SUFFICES ASSUME pc' \in {"flush", "poll"}
               PROVE  \E k : Runs(k, events)' /\ Foresees(k[Len(events)])'
    BY DEF LoopInv
  <2>1. PICK k : /\ Runs(k, events)' /\ k[Len(events')].reason \notin Decision
                 /\ k[Len(events')].secret = secret' /\ k[Len(events')].mode = mode'
    BY <1>2, <1>8, FewEventsNext
  <2>2. Foresees(k[Len(events)])'
    BY <1>1, <1>2, <1>6, <1>9, <2>1 DEF Foresees
  <2> QED  BY <2>1, <2>2
<1> QED  BY <1>8, <1>10, <1>11, <1>12 DEF TalkInv

(* Behind the loop.                                                        *)
LEMMA LateTalk ==
  ASSUME TalkInv, LeaveMode \/ Deinit \/ WriteLine \/ Return
  PROVE  TalkInv'
<1>1. CASE LeaveMode
  <2>1. pc = "leave" /\ pc' = "deinit" /\ mode' = "None"
        /\ UNCHANGED <<delayed, events, link, secret, result, answer>>
    BY <1>1 DEF LeaveMode
  <2>2. Conversing'
    BY <2>1 DEF TalkInv, Conversing, PromptMode
  <2> QED  BY <2>1, <2>2 DEF TalkInv, IdleInv, LoopInv, ResultInv, Before
<1>2. CASE Deinit
  <2>1. pc = "deinit" /\ pc' = "write" /\ frontend' = "closed" /\ UNCHANGED <<wayland, result, answer>>
    BY <1>2 DEF Deinit
  <2>2. result \in Decision \cup {"Error"}
    BY <2>1 DEF TalkInv, ResultInv
  <2> QED  BY <2>1, <2>2, TalkStays DEF Before
<1>3. CASE WriteLine \/ Return
  <2>1. pc = "write" /\ pc' \in {"write", "ended"} /\ UNCHANGED <<wayland, result, answer, frontend>>
    BY <1>3 DEF WriteLine, Return, Exit
  <2>2. result \in Decision \cup {"Error"} /\ frontend = "closed"
    BY <2>1 DEF TalkInv, ResultInv
  <2> QED  BY <2>1, <2>2, TalkStays DEF Before
<1> QED  BY <1>1, <1>2, <1>3

(* A key waits, and the user has pressed it.                               *)
LEMMA PressTalk ==
  ASSUME TalkInv, NEW key \in Typed \cup Decision \cup {"Erase"}, Press(key)
  PROVE  TalkInv'
<1>1. /\ mode # "None" /\ link = "up" /\ answer.decided = Absent
      /\ events' = Append(events, key)
      /\ UNCHANGED <<asked, pc, frontend, delayed, mode, link, secret, result>>
  BY DEF Press
<1>2. /\ key \in Decision => answer' = [answer EXCEPT !.decided = key]
      /\ key = "Erase" /\ answer.typed # <<>> => answer' = [answer EXCEPT !.typed = Front(@)]
      /\ key \in Typed /\ mode = "GetPin" => answer' = [answer EXCEPT !.typed = Append(@, key)]
      /\ (key = "Erase" /\ answer.typed = <<>>) \/ (key \in Typed /\ mode # "GetPin") => answer' = answer
  <2>1. key \in Event
    BY DEF Event
  <2> QED  BY <2>1, EventsApart DEF Press
<1>3. /\ Conversing /\ answer \in [typed: Seq(Typed), decided: Decision \cup {Absent}]
      /\ events \in Seq(Event) /\ key \in Event /\ result \notin Decision
  BY <1>1, NamesApart DEF TalkInv, Conversing, ResultInv, Event
<1>4. /\ answer'.typed \in Seq(Typed) /\ answer'.decided \in Decision \cup {Absent}
      /\ answer' = [typed |-> answer'.typed, decided |-> answer'.decided]
      /\ key \in Decision => answer'.decided = key /\ answer'.typed = answer.typed
      /\ key = "Erase" => answer'.typed = (IF answer.typed # <<>> THEN Front(answer.typed) ELSE answer.typed)
      /\ key \in Typed => answer'.typed = (IF mode = "GetPin" THEN Append(answer.typed, key) ELSE answer.typed)
  <2>1. answer = [typed |-> answer.typed, decided |-> answer.decided]
        /\ answer.typed \in Seq(Typed) /\ answer.decided \in Decision \cup {Absent}
    BY <1>3
  <2>2. CASE key \in Decision
    <3>1. answer' = [typed |-> answer.typed, decided |-> key]
      BY <1>2, <2>1, <2>2
    <3> QED  BY <1>3, <2>1, <2>2, <3>1, EventsApart
  <2>3. CASE key = "Erase"
    <3>1. answer' = [typed |-> IF answer.typed # <<>> THEN Front(answer.typed) ELSE answer.typed, decided |-> answer.decided]
      BY <1>2, <2>1, <2>3
    <3>2. (IF answer.typed # <<>> THEN Front(answer.typed) ELSE answer.typed) \in Seq(Typed)
      BY <2>1, FrontShorter
    <3> QED  BY <1>3, <2>1, <2>3, <3>1, <3>2, EventsApart
  <2>4. CASE key \in Typed
    <3>1. answer' = [typed |-> IF mode = "GetPin" THEN Append(answer.typed, key) ELSE answer.typed, decided |-> answer.decided]
      BY <1>2, <2>1, <2>4
    <3>2. (IF mode = "GetPin" THEN Append(answer.typed, key) ELSE answer.typed) \in Seq(Typed)
      BY <2>1, <2>4
    <3> QED  BY <1>3, <2>1, <2>4, <3>1, <3>2, EventsApart
  <2> QED  BY <2>2, <2>3, <2>4
<1>5. Conversing'
  <2>1. events' \in Seq(Event)
    BY <1>1, <1>3
  <2>2. answer' \in [typed: Seq(Typed), decided: Decision \cup {Absent}]
    BY <1>4
  <2> QED  BY <1>1, <1>3, <2>1, <2>2 DEF Conversing
<1>6. IdleInv' /\ ResultInv'
  BY <1>1, <1>3 DEF TalkInv, IdleInv, ResultInv
<1>7. ASSUME pc \in {"flush", "poll"}
      PROVE  \E k : Runs(k, events)' /\ Foresees(k[Len(events)])'
  <2>1. PICK h : Runs(h, events) /\ Foresees(h[Len(events)])
    BY <1>7 DEF TalkInv, LoopInv
  <2> DEFINE st == h[Len(events)]
             new == Dispatch(st, key)
  <2>2. PICK k : Runs(k, events)' /\ k[Len(events')] = new
    BY <1>1, <1>3, <2>1, RunGoesOn DEF asked
  <2>3. st \in Dispatching /\ delayed \in PromptMode
    BY <1>3, <2>1 DEF Runs, Conversing
  <2>4. st.mode = mode /\ st.secret = answer.typed /\ (mode # "GetPin" => answer.typed = <<>>)
        /\ (st.reason \in Decision => st.reason = answer.decided)
    BY <1>1, <2>1 DEF Foresees
  <2>5. st.reason \notin Decision
    BY <1>1, <2>4, NamesApart
  <2>6. \/ Enters(st, key, new) \/ Closes(st, key, new) \/ Decides(st, key, new)
        \/ Types(st, key, new) \/ Erases(st, key, new)
    BY <1>3, <2>3, EventDispatched
  <2> HIDE DEF st, new
  <2>7. key \notin {"Sync", "SyncBare", "Closed"}
    BY EventsApart, <1>3 DEF Decision
  <2>8. /\ new.reason \in Decision => new.reason = answer'.decided
        /\ new.secret = answer'.typed /\ new.mode = mode
        /\ mode # "GetPin" => answer'.typed = <<>>
    <3>1. CASE Decides(st, key, new)
      BY <1>4, <2>4, <3>1 DEF Decides
    <3>2. CASE Types(st, key, new)
      BY <1>4, <2>4, <2>5, <3>2 DEF Types
    <3>3. CASE Erases(st, key, new)
      BY <1>4, <2>4, <2>5, <3>3 DEF Erases
    <3> QED  BY <2>6, <2>7, <3>1, <3>2, <3>3 DEF Enters, Closes
  <2>9. Foresees(k[Len(events)])'
    BY <1>1, <2>2, <2>8 DEF Foresees
  <2> QED  BY <2>2, <2>9
<1>8. LoopInv'
  BY <1>1, <1>7 DEF LoopInv
<1> QED  BY <1>5, <1>6, <1>8 DEF TalkInv

(* The dialog is closed from outside: an error waits.                      *)
LEMMA ClosesTalk ==
  ASSUME TalkInv, CompositorCloses
  PROVE  TalkInv'
<1>1. /\ mode # "None" /\ events' = Append(events, "Closed")
      /\ UNCHANGED <<asked, pc, frontend, delayed, mode, link, secret, result, answer>>
  BY DEF CompositorCloses
<1>2. Conversing /\ events \in Seq(Event) /\ "Closed" \in Event
  BY DEF TalkInv, Conversing, Event
<1>3. Conversing' /\ IdleInv' /\ ResultInv'
  <2>1. events' \in Seq(Event)
    BY <1>1, <1>2
  <2> QED  BY <1>1, <2>1 DEF TalkInv, Conversing, IdleInv, ResultInv
<1>4. ASSUME pc \in {"flush", "poll"}
      PROVE  \E k : Runs(k, events)' /\ Foresees(k[Len(events)])'
  <2>1. PICK h : Runs(h, events) /\ Foresees(h[Len(events)])
    BY <1>4 DEF TalkInv, LoopInv
  <2> DEFINE st == h[Len(events)]
             new == Dispatch(st, "Closed")
  <2>2. PICK k : Runs(k, events)' /\ k[Len(events')] = new
    BY <1>1, <1>2, <2>1, RunGoesOn DEF asked
  <2>3. st \in Dispatching /\ delayed \in PromptMode
    BY <1>2, <2>1 DEF Runs, Conversing
  <2>4. \/ Enters(st, "Closed", new) \/ Closes(st, "Closed", new) \/ Decides(st, "Closed", new)
        \/ Types(st, "Closed", new) \/ Erases(st, "Closed", new)
    BY <1>2, <2>3, EventDispatched
  <2> HIDE DEF new
  <2>5. new.mode = st.mode /\ new.secret = st.secret /\ new.reason = "Error"
    BY <1>2, <2>4, EventsApart DEF Enters, Closes, Decides, Types, Erases
  <2>6. Foresees(k[Len(events)])'
    BY <1>1, <2>1, <2>2, <2>5, NamesApart DEF Foresees
  <2> QED  BY <2>2, <2>6
<1>5. LoopInv'
  BY <1>1, <1>4 DEF LoopInv
<1> QED  BY <1>3, <1>5 DEF TalkInv

(* The events that wait may be lost with the compositor.                   *)
LEMMA DiesTalk ==
  ASSUME TalkInv, CompositorDies
  PROVE  TalkInv'
<1>1. /\ link' = "down" /\ events' \in {events, <<>>}
      /\ UNCHANGED <<asked, pc, frontend, delayed, mode, secret, result, answer>>
  BY DEF CompositorDies
<1>2. Conversing' /\ IdleInv' /\ ResultInv'
  <2>1. events' \in Seq(Event)
    <3>1. events \in Seq(Event) /\ <<>> \in Seq(Event)
      BY DEF TalkInv, Conversing
    <3> QED  BY <1>1, <3>1
  <2> QED  BY <1>1, <2>1 DEF TalkInv, Conversing, IdleInv, ResultInv
<1>3. ASSUME pc \in {"flush", "poll"}
      PROVE  \E k : Runs(k, events)' /\ Foresees(k[Len(events)])'
  <2>1. PICK h : Runs(h, events) /\ Foresees(h[Len(events)])
    BY <1>3 DEF TalkInv, LoopInv
  <2>2. CASE events' = events
    <3>1. Runs(h, events)'
      BY <1>1, <2>1, <2>2, RunIsStable DEF asked
    <3>2. Foresees(h[Len(events)])'
      BY <1>1, <2>1, <2>2 DEF Foresees
    <3> QED  BY <3>1, <3>2
  <2>3. CASE events' = <<>>
    <3>1. PICK k : /\ Runs(k, events)' /\ k[Len(events')].reason \notin Decision
                   /\ k[Len(events')].secret = secret' /\ k[Len(events')].mode = mode'
      BY <1>2, <2>3, FewEventsNext
    <3>2. Foresees(k[Len(events)])'
      BY <1>1, <2>1, <3>1 DEF Foresees
    <3> QED  BY <3>1, <3>2
  <2> QED  BY <1>1, <2>2, <2>3
<1>4. LoopInv'
  BY <1>1, <1>3 DEF LoopInv
<1> QED  BY <1>2, <1>4 DEF TalkInv

(* Steps that are none of the prompt's.                                    *)
LEMMA SameTalk ==
  ASSUME TalkInv, ReaderLeaves \/ UNCHANGED vars
  PROVE  TalkInv'
<1>1. UNCHANGED <<asked, wayland, pc, frontend, result, answer>>
  BY DEF ReaderLeaves, vars, asked, wayland
<1>2. UNCHANGED <<delayed, mode, secret, events, link, request>>
  BY <1>1 DEF asked, wayland
<1>3. LoopInv'
  <2> SUFFICES ASSUME pc \in {"flush", "poll"}
               PROVE  \E k : Runs(k, events)' /\ Foresees(k[Len(events)])'
    BY <1>1 DEF LoopInv
  <2>1. PICK h : Runs(h, events) /\ Foresees(h[Len(events)])
    BY DEF TalkInv, LoopInv
  <2> QED  BY <1>1, <1>2, <2>1, RunIsStable DEF Foresees
<1> QED  BY <1>1, <1>2, <1>3 DEF TalkInv, Conversing, IdleInv, ResultInv

(* So in every behaviour.                                                  *)
LEMMA TalkInvariance == Spec => []TalkInv
<1>1. Init => TalkInv
  <2> SUFFICES ASSUME Init  PROVE  TalkInv
    OBVIOUS
  <2>1. Conversing
    <3>1. <<>> \in Seq(Typed) /\ <<>> \in Seq(Event)
      OBVIOUS
    <3> QED  BY <3>1 DEF Init, Conversing, PromptMode
  <2> QED  BY <2>1, NamesApart DEF Init, TalkInv, IdleInv, LoopInv, ResultInv
<1>2. TalkInv /\ [Next]_vars => TalkInv'
  BY EarlyTalk, SelectTalk, EnterTalk, FlushTalk, HandleEventTalk, LateTalk, PressTalk, ClosesTalk, DiesTalk,
     SameTalk DEF Next, Process, Environment
<1> QED  BY <1>1, <1>2, PTL DEF Spec

-----------------------------------------------------------------------------
(* The answer.                                                             *)

(* Only the command line asks for JSON.                                    *)
JsonInv ==
  OfCli \/ pc = "arguments" \/ (pc = "ended" /\ frontend = "none") \/ request.json = FALSE

Written == \E k \in 0..Len(AnswerLines) : stdout = [i \in 1..k |-> AnswerLines[i]]
OutputInv ==
  /\ stdout = <<>> \/ (pc \in {"write", "ended"} /\ result \in Decision /\ frontend # "none" /\ Written)
  /\ pc = "ended" /\ status \notin {Absent, 1} /\ frontend # "none" =>
       result \in Decision /\ status = AnswerStatus /\ Len(stdout) = Len(AnswerLines)

AnswerInv == TalkInv /\ PhaseInv /\ JsonInv /\ OutputInv

(* The request is written once.                                            *)
LEMMA StepJson ==
  ASSUME PhaseInv, JsonInv, [Next]_vars
  PROVE  JsonInv'
<1>1. CASE ReadArguments
  <2>1. pc = "arguments" /\ frontend = "none"
    BY <1>1 DEF ReadArguments, PhaseInv, Before
  <2>2. CASE Accept(AskpassRequest(invocation.args))
    <3>1. AskpassRequest(invocation.args).json = FALSE
      BY DEF AskpassRequest, NoRequest, Labels
    <3> QED  BY <2>2, <3>1 DEF JsonInv, Accept
  <2>3. CASE OfCli
    <3>1. invocation' = invocation
      BY <1>1 DEF ReadArguments, Accept, Refuse, Exit, asked
    <3> QED  BY <2>3, <3>1 DEF JsonInv, OfCli
  <2>4. CASE Refuse
    BY <2>1, <2>4 DEF Refuse, Exit, JsonInv
  <2> QED  BY <1>1, <2>2, <2>3, <2>4 DEF ReadArguments, OfCli
<1>2. CASE ReadConfig \/ MakeSecret \/ Select
  <2>1. pc \in {"config", "secret", "select"} /\ frontend = "none" /\ UNCHANGED <<invocation, request>>
        /\ pc' # "arguments" /\ (pc' = "ended" => frontend' = frontend)
    BY <1>2 DEF ReadConfig, MakeSecret, Select, Refuse, Exit, asked, PhaseInv, Before
  <2> QED  BY <2>1 DEF JsonInv, OfCli
<1>3. CASE ~(ReadArguments \/ ReadConfig \/ MakeSecret \/ Select)
  <2>1. UNCHANGED asked /\ (pc = "ended" => UNCHANGED <<pc, frontend>>) /\ (pc = "arguments" => pc' = pc)
    BY <1>3 DEF Next, Process, Environment, EnterMode, Flush, HandleEvent, Finish, LeaveMode, Deinit, WriteLine,
         Return, Exit, Press, CompositorCloses, CompositorDies, ReaderLeaves, vars, asked
  <2> QED  BY <2>1 DEF JsonInv, OfCli, asked
<1> QED  BY <1>1, <1>2, <1>3

(* The lines that are written.                                             *)
Told ==
  {Line("action", result), Line("pin", secret), Line("pin", write_json_bytes(secret)),
   Line("no pin", <<>>), Line("}", <<>>)}
PinIsTold == request.get_pin /\ result = "UserOk" /\ secret # <<>>

(* Sequences of one, two and three lines.                                  *)
LEMMA FewLines ==
  \A x, y, z \in Told :
    /\ <<x>> \in Seq(Told) /\ DOMAIN <<x>> = {1} /\ <<x>>[1] = x
    /\ <<x, y>> \in Seq(Told) /\ DOMAIN <<x, y>> = {1, 2} /\ <<x, y>>[1] = x /\ <<x, y>>[2] = y
    /\ <<x, y, z>> \in Seq(Told) /\ DOMAIN <<x, y, z>> = {1, 2, 3}
    /\ <<x, y, z>>[1] = x /\ <<x, y, z>>[2] = y /\ <<x, y, z>>[3] = z
    /\ <<x>> \o <<>> = <<x>> /\ <<x>> \o <<y>> = <<x, y>> /\ <<x, y>> \o <<>> = <<x, y>>
    /\ <<x, y>> \o <<z>> = <<x, y, z>>
<1> SUFFICES ASSUME NEW x \in Told, NEW y \in Told, NEW z \in Told
             PROVE  /\ <<x>> \in Seq(Told) /\ DOMAIN <<x>> = {1} /\ <<x>>[1] = x
                    /\ <<x, y>> \in Seq(Told) /\ DOMAIN <<x, y>> = {1, 2} /\ <<x, y>>[1] = x /\ <<x, y>>[2] = y
                    /\ <<x, y, z>> \in Seq(Told) /\ DOMAIN <<x, y, z>> = {1, 2, 3}
                    /\ <<x, y, z>>[1] = x /\ <<x, y, z>>[2] = y /\ <<x, y, z>>[3] = z
                    /\ <<x>> \o <<>> = <<x>> /\ <<x>> \o <<y>> = <<x, y>> /\ <<x, y>> \o <<>> = <<x, y>>
                    /\ <<x, y>> \o <<z>> = <<x, y, z>>
  OBVIOUS
<1>1. <<x>> \in Seq(Told) /\ <<x, y>> \in Seq(Told) /\ <<x, y, z>> \in Seq(Told)
  OBVIOUS
<1>2. <<x>> \o <<>> = <<x>> /\ <<x, y>> \o <<>> = <<x, y>>
  BY <1>1
<1>3. \A s \in Seq(Told), t \in Told : s \o <<t>> = Append(s, t)
  OBVIOUS
<1>4. Append(<<x>>, y) = <<x, y>> /\ Append(<<x, y>>, z) = <<x, y, z>>
  <2>1. \A s, t \in Seq(Told) : Len(s) = Len(t) /\ (\A i \in 1..Len(s) : s[i] = t[i]) => s = t
    OBVIOUS
  <2>2. Append(<<x>>, y) \in Seq(Told) /\ Append(<<x, y>>, z) \in Seq(Told)
    BY <1>1
  <2>3. Append(<<x>>, y) = <<x, y>>
    <3> DEFINE u == Append(<<x>>, y)
               v == <<x, y>>
    <3>1. u \in Seq(Told) /\ v \in Seq(Told)
      BY <1>1, <2>2
    <3>2. Len(u) = 2 /\ Len(v) = 2
      BY <1>1
    <3>3. u[1] = v[1] /\ u[2] = v[2]
      BY <1>1
    <3>4. \A i \in 1..2 : i = 1 \/ i = 2
      OBVIOUS
    <3> HIDE DEF u, v
    <3>5. \A i \in 1..2 : u[i] = v[i]
      BY <3>3, <3>4
    <3>6. u = v
      BY <2>1, <3>1, <3>2, <3>5
    <3> QED  BY <3>6 DEF u, v
  <2>4. Append(<<x, y>>, z) = <<x, y, z>>
    <3> DEFINE u == Append(<<x, y>>, z)
               v == <<x, y, z>>
    <3>1. u \in Seq(Told) /\ v \in Seq(Told)
      BY <1>1, <2>2
    <3>2. Len(u) = 3 /\ Len(v) = 3
      BY <1>1
    <3>3. u[1] = v[1] /\ u[2] = v[2] /\ u[3] = v[3]
      BY <1>1
    <3>4. \A i \in 1..3 : i = 1 \/ i = 2 \/ i = 3
      OBVIOUS
    <3> HIDE DEF u, v
    <3>5. \A i \in 1..3 : u[i] = v[i]
      BY <3>3, <3>4
    <3>6. u = v
      BY <2>1, <3>1, <3>2, <3>5
    <3> QED  BY <3>6 DEF u, v
  <2> QED  BY <2>3, <2>4
<1>5. DOMAIN <<x>> = {1} /\ DOMAIN <<x, y>> = {1, 2} /\ DOMAIN <<x, y, z>> = {1, 2, 3}
  OBVIOUS
<1> QED  BY <1>1, <1>2, <1>3, <1>4, <1>5

(* The first line is the decision;                                         *)
(* there is a line with the pin if it is to be told.                       *)
LEMMA LinesOfTheAnswer ==
  /\ AnswerLines \in Seq(Told)
  /\ OfCli => 1 \in DOMAIN AnswerLines /\ AnswerLines[1] = Line("action", result)
  /\ \A i \in DOMAIN AnswerLines : AnswerLines[i].what = "pin" =>
       /\ PinIsTold
       /\ AnswerLines[i].value = IF OfCli /\ request.json THEN write_json_bytes(secret) ELSE secret
  /\ PinIsTold => \E i \in DOMAIN AnswerLines : AnswerLines[i].what = "pin"
<1> DEFINE text == IF OfCli /\ request.json THEN write_json_bytes(secret) ELSE secret
           a == Line("action", result)
           p == Line("pin", text)
           n == Line("no pin", <<>>)
           e == Line("}", <<>>)
<1>1. {a, p, n, e} \subseteq Told
  BY DEF Told
<1>2. a.what # "pin" /\ n.what # "pin" /\ e.what # "pin" /\ p.what = "pin" /\ p.value = text
  BY DEF Line
<1>3. PinToTell = (IF PinIsTold THEN secret ELSE <<>>) /\ (PinIsTold => PinToTell # <<>>)
  BY DEF PinToTell, PinIsTold
<1>4. CASE OfCli
  <2>1. PinIsTold => AnswerLines \in {<<a, p>>, <<a, p, e>>}
    <3> SUFFICES ASSUME PinIsTold  PROVE  AnswerLines \in {<<a, p>>, <<a, p, e>>}
      OBVIOUS
    <3>1. PinToTell = secret /\ secret # <<>>
      BY <1>3
    <3> HIDE DEF a
    <3>2. AnswerLines = <<a>> \o <<p>> \o (IF request.json THEN <<e>> ELSE <<>>)
      BY <1>4, <3>1 DEF AnswerLines, CliLines, a
    <3> HIDE DEF p, e
    <3>3. <<a>> \o <<p>> = <<a, p>> /\ <<a, p>> \o <<>> = <<a, p>> /\ <<a, p>> \o <<e>> = <<a, p, e>>
      <4>1. a \in Told /\ p \in Told /\ e \in Told
        BY <1>1
      <4> QED  BY <4>1, FewLines
    <3> QED  BY <3>2, <3>3
  <2>2. ~PinIsTold => AnswerLines \in {<<a>>, <<a, e>>, <<a, n>>, <<a, n, e>>}
    <3> SUFFICES ASSUME ~PinIsTold  PROVE  AnswerLines \in {<<a>>, <<a, e>>, <<a, n>>, <<a, n, e>>}
      OBVIOUS
    <3>1. PinToTell = <<>>
      BY <1>3
    <3> HIDE DEF a, p
    <3>2. AnswerLines = <<a>> \o (IF request.get_pin THEN <<n>> ELSE <<>>) \o (IF request.json THEN <<e>> ELSE <<>>)
      BY <1>4, <3>1 DEF AnswerLines, CliLines, a
    <3> HIDE DEF n, e
    <3>3. /\ <<a>> \o <<>> = <<a>> /\ <<a>> \o <<e>> = <<a, e>> /\ <<a>> \o <<n>> = <<a, n>>
          /\ <<a, n>> \o <<>> = <<a, n>> /\ <<a, n>> \o <<e>> = <<a, n, e>>
      <4>1. a \in Told /\ n \in Told /\ e \in Told
        BY <1>1
      <4> QED  BY <4>1, FewLines
    <3> QED  BY <3>2, <3>3
  <2> HIDE DEF a, p, n, e, text
  <2>3. \A l \in {<<a, p>>, <<a, p, e>>, <<a>>, <<a, e>>, <<a, n>>, <<a, n, e>>} :
          l \in Seq(Told) /\ 1 \in DOMAIN l /\ l[1] = a
    <3>1. ASSUME NEW x \in Told, NEW y \in Told, NEW z \in Told
          PROVE  \A l \in {<<x>>, <<x, y>>, <<x, y, z>>} : l \in Seq(Told) /\ 1 \in DOMAIN l /\ l[1] = x
      <4>1. <<x>> \in Seq(Told) /\ 1 \in DOMAIN <<x>> /\ <<x>>[1] = x
        BY FewLines
      <4>2. <<x, y>> \in Seq(Told) /\ 1 \in DOMAIN <<x, y>> /\ <<x, y>>[1] = x
        BY FewLines
      <4>3. <<x, y, z>> \in Seq(Told) /\ 1 \in DOMAIN <<x, y, z>> /\ <<x, y, z>>[1] = x
        BY FewLines
      <4> QED  BY <4>1, <4>2, <4>3, Zenon
    <3>2. \A l \in {<<a>>, <<a, p>>, <<a, p, e>>} : l \in Seq(Told) /\ 1 \in DOMAIN l /\ l[1] = a
      BY <1>1, <3>1
    <3>3. \A l \in {<<a>>, <<a, n>>, <<a, n, e>>} : l \in Seq(Told) /\ 1 \in DOMAIN l /\ l[1] = a
      BY <1>1, <3>1
    <3>4. <<a, e>> \in Seq(Told) /\ 1 \in DOMAIN <<a, e>> /\ <<a, e>>[1] = a
      BY <1>1, FewLines
    <3> QED  BY <3>2, <3>3, <3>4
  <2>4. \A l \in {<<a, p>>, <<a, p, e>>} :
          2 \in DOMAIN l /\ l[2] = p /\ \A i \in DOMAIN l : l[i].what = "pin" => l[i].value = text
    BY <1>1, <1>2, FewLines
  <2>5. \A l \in {<<a>>, <<a, e>>, <<a, n>>, <<a, n, e>>} : \A i \in DOMAIN l : l[i].what # "pin"
    BY <1>1, <1>2, FewLines
  <2> QED  BY <1>2, <1>4, <2>1, <2>2, <2>3, <2>4, <2>5 DEF a, text
<1>5. CASE ~OfCli
  <2>1. PinIsTold => AnswerLines = <<p>>
    BY <1>3, <1>5 DEF AnswerLines, AskpassLines
  <2>2. ~PinIsTold => AnswerLines = <<>>
    BY <1>3, <1>5 DEF AnswerLines, AskpassLines
  <2> HIDE DEF p, text
  <2>3. <<p>> \in Seq(Told) /\ DOMAIN <<p>> = {1} /\ <<p>>[1] = p
    BY <1>1, FewLines
  <2>4. <<>> \in Seq(Told) /\ DOMAIN <<>> = {}
    OBVIOUS
  <2> QED  BY <1>2, <1>5, <2>1, <2>2, <2>3, <2>4 DEF text
<1> QED  BY <1>4, <1>5

(* The answer is settled before its first line.                            *)
LEMMA LinesAreStable ==
  ASSUME UNCHANGED <<invocation, request, result, secret>>
  PROVE  AnswerLines' = AnswerLines /\ AnswerStatus' = AnswerStatus
BY DEF AnswerLines, AnswerStatus, CliLines, AskpassLines, PinToTell, OfCli

(* One line more, or the end.                                              *)
LEMMA WritingOutput ==
  ASSUME TalkInv, PhaseInv, OutputInv, WriteLine \/ Return
  PROVE  OutputInv'
<1>1. /\ pc = "write" /\ frontend = "closed" /\ result \in Decision \cup {"Error"}
      /\ UNCHANGED <<asked, frontend, wayland, result>> /\ status = Absent
  BY DEF WriteLine, Return, TalkInv, ResultInv, PhaseInv
<1>2. AnswerLines' = AnswerLines /\ AnswerStatus' = AnswerStatus
  BY <1>1, LinesAreStable DEF asked, wayland
<1>3. AnswerLines \in Seq(Told) /\ Len(AnswerLines) \in Nat
  BY LinesOfTheAnswer
<1>4. CASE WriteLine /\ reader
  <2>1. /\ stdout' = Append(stdout, AnswerLines[Len(stdout) + 1]) /\ UNCHANGED <<pc, status>>
        /\ Len(stdout) < Len(AnswerLines) /\ result # "Error"
    BY <1>4 DEF WriteLine
  <2>2. Written
    <3>1. CASE stdout = <<>>
      <4>1. 0 \in 0..Len(AnswerLines) /\ stdout = [i \in 1..0 |-> AnswerLines[i]]
        BY <1>3, <3>1
      <4> QED  BY <4>1 DEF Written
    <3> QED  BY <3>1 DEF OutputInv
  <2>3. PICK k \in 0..Len(AnswerLines) : stdout = [i \in 1..k |-> AnswerLines[i]]
    BY <2>2 DEF Written
  <2> DEFINE L == AnswerLines
  <2>4. \A l \in Seq(Told) : \A j \in 0..Len(l) : j < Len(l) =>
          /\ Len([i \in 1..j |-> l[i]]) = j /\ j + 1 \in 0..Len(l)
          /\ Append([i \in 1..j |-> l[i]], l[j + 1]) = [i \in 1..j+1 |-> l[i]]
    <3> SUFFICES ASSUME NEW l \in Seq(Told), NEW j \in 0..Len(l), j < Len(l)
                 PROVE  /\ Len([i \in 1..j |-> l[i]]) = j /\ j + 1 \in 0..Len(l)
                        /\ Append([i \in 1..j |-> l[i]], l[j + 1]) = [i \in 1..j+1 |-> l[i]]
      OBVIOUS
    <3> DEFINE s == [i \in 1..j |-> l[i]]
    <3>1. s \in Seq(Told) /\ Len(s) = j /\ \A i \in 1..j : s[i] = l[i]
      OBVIOUS
    <3>2. l[j + 1] \in Told
      OBVIOUS
    <3> HIDE DEF s
    <3>3. Append(s, l[j + 1]) = [i \in 1..j+1 |-> l[i]]
      BY <3>1, <3>2
    <3> QED  BY <3>1, <3>3 DEF s
  <2> DEFINE d(j) == [i \in 1..j |-> AnswerLines[i]]
  <2>5. Len(stdout) = k
    <3>1. Len(d(k)) = k
      BY <1>3, <2>3
    <3> QED  BY <2>3, <3>1
  <2>6. stdout' = [i \in 1..k+1 |-> AnswerLines[i]] /\ k + 1 \in 0..Len(AnswerLines)
    BY <1>3, <2>1, <2>3, <2>4, <2>5
  <2>7. Written'
    BY <1>2, <2>6 DEF Written
  <2> QED  BY <1>1, <2>1, <2>7 DEF OutputInv
<1>5. CASE WriteLine /\ ~reader
  <2>1. pc' = "ended" /\ status' = 1 /\ stdout' = stdout
    BY <1>5 DEF WriteLine, Exit
  <2> QED  BY <1>1, <1>2, <2>1 DEF OutputInv, Written
<1>6. CASE Return
  <2>1. /\ pc' = "ended" /\ stdout' = stdout /\ (result = "Error" \/ Len(stdout) = Len(AnswerLines))
        /\ status' = IF result = "Error" THEN 1 ELSE AnswerStatus
    BY <1>6 DEF Return, Exit
  <2> QED  BY <1>1, <1>2, <2>1 DEF OutputInv, Written
<1> QED  BY <1>4, <1>5, <1>6

(* Every step.                                                             *)
LEMMA StepOutput ==
  ASSUME TalkInv, PhaseInv, OutputInv, [Next]_vars
  PROVE  OutputInv'
<1>1. CASE WriteLine \/ Return
  BY <1>1, WritingOutput
<1>2. CASE ReadArguments \/ ReadConfig \/ MakeSecret
  <2>1. pc \in Before /\ UNCHANGED <<stdout, frontend>> /\ frontend = "none"
    BY <1>2 DEF ReadArguments, ReadConfig, MakeSecret, Refuse, Accept, Exit, output, Before, PhaseInv
  <2> QED  BY <2>1 DEF OutputInv, Before
<1>3. CASE Select \/ EnterMode \/ Flush \/ HandleEvent \/ LeaveMode \/ Deinit
  <2>1. pc \notin {"write", "ended"} /\ stdout' = stdout /\ (pc' = "ended" => frontend' = "none")
    BY <1>3 DEF Select, EnterMode, Flush, HandleEvent, Finish, LeaveMode, Deinit, Refuse, Exit, output, PhaseInv, Before
  <2> QED  BY <2>1 DEF OutputInv
<1>4. CASE Environment \/ UNCHANGED vars
  <2>1. UNCHANGED <<invocation, request, result, secret, stdout, status, pc, frontend>>
    BY <1>4 DEF Environment, Press, CompositorCloses, CompositorDies, ReaderLeaves, vars, asked, wayland, output
  <2> QED  BY <2>1, LinesAreStable DEF OutputInv, Written
<1> QED  BY <1>1, <1>2, <1>3, <1>4 DEF Next, Process

(* So in every behaviour.                                                  *)
LEMMA AnswerInvariance == Spec => []AnswerInv
<1>1. Init => JsonInv /\ OutputInv
  BY DEF Init, JsonInv, OutputInv
<1>2. TalkInv /\ PhaseInv /\ JsonInv /\ OutputInv /\ [Next]_vars => JsonInv' /\ OutputInv'
  BY StepJson, StepOutput
<1> QED  BY <1>1, <1>2, TalkInvariance, PhaseInvariance, PTL DEF Spec, AnswerInv

(* Whatever fails on the way, the secret is on stdout only if it was asked *)
(* for, typed and confirmed, and then it reads as it was typed, through    *)
(* the escapes of JSON too; an exit status other than 1 is the one of the  *)
(* user's decision, with that decision on stdout, and with the secret if   *)
(* there is one to tell (run, write_cli_output, write_askpass_output).     *)
THEOREM TheAnswerIsTold == Spec => []AnswerIsTold
<1>1. AnswerInv => AnswerIsTold
  <2> SUFFICES ASSUME AnswerInv  PROVE  AnswerIsTold
    OBVIOUS
  <2>1. result \in Decision => result = answer.decided /\ secret = answer.typed
    BY DEF AnswerInv, TalkInv, ResultInv
  <2>2. secret \in Seq(Typed)
    BY DEF AnswerInv, TalkInv, Conversing
  <2>3. ASSUME stdout # <<>>
        PROVE  /\ result \in Decision /\ frontend # "none"
               /\ DOMAIN stdout \subseteq DOMAIN AnswerLines
               /\ \A i \in DOMAIN stdout : stdout[i] = AnswerLines[i]
    <3>1. result \in Decision /\ frontend # "none" /\ Written
      BY <2>3 DEF AnswerInv, OutputInv
    <3>2. PICK k \in 0..Len(AnswerLines) : stdout = [i \in 1..k |-> AnswerLines[i]]
      BY <3>1 DEF Written
    <3>3. AnswerLines \in Seq(Told)
      BY LinesOfTheAnswer
    <3>4. DOMAIN stdout = 1..k /\ DOMAIN AnswerLines = 1..Len(AnswerLines) /\ Len(AnswerLines) \in Nat
      BY <3>2, <3>3
    <3> QED  BY <3>1, <3>2, <3>4
  <2>4. ASSUME NEW i \in ToldPins
        PROVE  /\ request.get_pin /\ answer.decided = "UserOk" /\ answer.typed # <<>>
               /\ PinRead(stdout[i]) = answer.typed
    <3>1. i \in DOMAIN stdout /\ stdout[i].what = "pin" /\ stdout # <<>>
      BY DEF ToldPins
    <3>2. result \in Decision /\ frontend # "none" /\ i \in DOMAIN AnswerLines /\ stdout[i] = AnswerLines[i]
      BY <2>3, <3>1
    <3>3. PinIsTold /\ stdout[i].value = IF OfCli /\ request.json THEN write_json_bytes(secret) ELSE secret
      BY <3>1, <3>2, LinesOfTheAnswer
    <3>4. OfCli \/ request.json = FALSE
      BY <3>2, <2>3, <3>1 DEF AnswerInv, JsonInv, OutputInv
    <3>5. PinRead(stdout[i]) = secret
      <4>1. CASE request.json
        <5>1. OfCli /\ stdout[i].value = write_json_bytes(secret)
          BY <3>3, <3>4, <4>1
        <5>2. FoldLeft(Unescape, Unread, write_json_bytes(secret)).text = secret
          BY <2>2, JsonReadsBack
        <5> QED  BY <4>1, <5>1, <5>2 DEF PinRead, Unread
      <4>2. CASE ~request.json
        BY <3>3, <4>2 DEF PinRead
      <4> QED  BY <4>1, <4>2
    <3> QED  BY <2>1, <3>2, <3>3, <3>5 DEF PinIsTold
  <2>5. ASSUME status \notin {Absent, 1}, frontend # "none"
        PROVE  /\ status = CASE answer.decided = "UserOk" -> 0 [] answer.decided = "UserAbort" -> 10
                             [] answer.decided = "UserNotOk" -> 20
               /\ OfCli => stdout[1] = Line("action", answer.decided)
               /\ ToldPins # {} <=> status = 0 /\ request.get_pin /\ answer.typed # <<>>
    <3>1. result \in Decision /\ status = AnswerStatus /\ Len(stdout) = Len(AnswerLines)
      BY <2>5 DEF AnswerInv, OutputInv, PhaseInv
    <3>2. result = answer.decided /\ secret = answer.typed
      BY <2>1, <3>1
    <3>3. \A i \in DOMAIN AnswerLines : i \in DOMAIN stdout /\ stdout[i] = AnswerLines[i]
      <4>1. AnswerLines \in Seq(Told)
        BY LinesOfTheAnswer
      <4>2. CASE stdout = <<>>
        <5>1. Len(AnswerLines) = 0
          BY <3>1, <4>2
        <5> QED  BY <4>1, <5>1
      <4>3. CASE stdout # <<>>
        <5>1. Written
          BY <4>3 DEF AnswerInv, OutputInv
        <5>2. PICK k \in 0..Len(AnswerLines) : stdout = [i \in 1..k |-> AnswerLines[i]]
          BY <5>1 DEF Written
        <5> DEFINE d == [i \in 1..k |-> AnswerLines[i]]
        <5>3. Len(d) = k /\ DOMAIN AnswerLines = 1..Len(AnswerLines) /\ DOMAIN d = 1..k
          BY <4>1
        <5> QED  BY <3>1, <5>2, <5>3
      <4> QED  BY <4>2, <4>3
    <3>4. ToldPins # {} <=> PinIsTold
      <4>1. ToldPins # {} => PinIsTold
        BY <2>4, <3>1, <3>2 DEF PinIsTold
      <4>2. PinIsTold => ToldPins # {}
        BY <3>3, LinesOfTheAnswer DEF ToldPins
      <4> QED  BY <4>1, <4>2
    <3>5. CASE OfCli
      <4>1. status = exit_status[result]
        BY <3>1, <3>5 DEF AnswerStatus
      <4>2. /\ result = "UserOk" => status = 0
            /\ result = "UserAbort" => status = 10
            /\ result = "UserNotOk" => status = 20
        BY <4>1 DEF exit_status
      <4>3. stdout[1] = Line("action", result)
        BY <3>3, <3>5, LinesOfTheAnswer
      <4> QED  BY <3>1, <3>2, <3>4, <4>2, <4>3 DEF Decision, PinIsTold
    <3>6. CASE ~OfCli
      <4>1. AskpassLines # <<>> /\ status = 0
        BY <2>5, <3>1, <3>6 DEF AnswerStatus
      <4>2. PinIsTold
        BY <4>1 DEF AskpassLines, PinToTell, PinIsTold
      <4> QED  BY <3>2, <3>4, <3>6, <4>1, <4>2 DEF PinIsTold
    <3> QED  BY <3>5, <3>6
  <2> QED  BY <2>4, <2>5 DEF AnswerIsTold
<1> QED  BY <1>1, AnswerInvariance, PTL

-----------------------------------------------------------------------------
(* The end.  Once the user has decided, or the compositor is gone, the     *)
(* process has a number of calls left to make, whatever is still done to   *)
(* it.                                                                     *)

Due == answer.decided # Absent \/ (frontend # "none" /\ link # "up")

CallsLeft ==
  CASE pc = "ended" -> 0
    [] pc = "write" -> IF result = "Error" THEN 1 ELSE 1 + (Len(AnswerLines) - Len(stdout))
    [] pc = "deinit" -> 5
    [] pc = "leave" -> 6
    [] pc = "flush" -> IF link = "up" THEN 9 ELSE IF link = "down" THEN 8 ELSE 6
    [] pc = "poll" -> IF link = "up" THEN 8 ELSE 7
    [] OTHER -> 10

EndsInTime ==
  [][Due => Due' /\ IF Process THEN CallsLeft' < CallsLeft ELSE CallsLeft' <= CallsLeft]_vars

(* While the compositor is there, a decision waits to be dispatched or has *)
(* ended the loop.                                                         *)
DecidedInv ==
  answer.decided # Absent /\ link = "up" =>
    \/ pc \in {"leave", "deinit", "write", "ended"}
    \/ pc \in {"flush", "poll"} /\ \E i \in DOMAIN events : events[i] \in Decision

(* A reason to go stays one, whatever is dispatched behind it.             *)
LEMMA ReasonsStay ==
  ASSUME Conversing, NEW h, Runs(h, events), NEW i \in DOMAIN events, events[i] \in Decision
  PROVE  h[Len(events)].reason # "None"
<1> DEFINE n == Len(events)
           S == {j \in 0..n : j >= i => h[j].reason # "None"}
<1>1. n \in Nat /\ i \in 1..n /\ \A j \in 1..n : events[j] \in Event
  BY DEF Conversing
<1> HIDE DEF n
<1>2. /\ \A j \in 0..n : h[j] \in Dispatching
      /\ \A j \in 1..n : h[j] = Dispatch(h[j-1], events[j])
  BY <1>1 DEF Runs, n
<1>3. 0 \in S
  BY <1>1
<1>4. ASSUME NEW j \in 1..n, j - 1 \in S  PROVE  j \in S
  <2>1. j - 1 \in 0..n /\ j \in 0..n
    BY <1>1
  <2> DEFINE st == h[j - 1]
             e == events[j]
  <2>2. st \in Dispatching /\ e \in Event /\ h[j] = Dispatch(st, e)
    BY <1>1, <1>2, <2>1
  <2>3. j >= i => e \in Decision \/ st.reason # "None"
    BY <1>1, <1>4, <2>1
  <2> HIDE DEF st, e
  <2>4. e \in Decision \/ st.reason # "None" => Dispatch(st, e).reason # "None"
    <3>1. delayed \in PromptMode
      BY DEF Conversing
    <3> DEFINE new == Dispatch(st, e)
    <3>2. Enters(st, e, new) \/ Closes(st, e, new) \/ Decides(st, e, new) \/ Types(st, e, new) \/ Erases(st, e, new)
      BY <2>2, <3>1, EventDispatched
    <3> HIDE DEF new
    <3>3. e \in Decision => Decides(st, e, new)
      BY <2>2, <3>2, EventsApart DEF Enters, Closes, Types, Erases
    <3>4. e \notin Decision => new.reason \in {st.reason, "Error"}
      BY <3>2 DEF Enters, Closes, Decides, Types, Erases
    <3>5. e \in Decision \/ st.reason # "None" => new.reason # "None"
      BY <3>3, <3>4, NamesApart DEF Decides
    <3> QED  BY <3>5 DEF new
  <2> QED  BY <2>1, <2>2, <2>3, <2>4
<1>5. n \in S
  <2> HIDE DEF S
  <2>1. \A j \in 0..n : j \in S
    BY <1>1, <1>3, <1>4, IndexInduction
  <2> QED  BY <1>1, <2>1
<1> QED  BY <1>1, <1>5 DEF n

(* What a batch with a decision leads to: the loop is left.                *)
LEMMA DecisionEndsTheLoop ==
  ASSUME TalkInv, HandleEvent, NEW i \in DOMAIN events, events[i] \in Decision
  PROVE  pc' \in {"leave", "deinit"}
<1> DEFINE st == FoldLeft(Dispatch, Undispatched, events)
<1>1. pc = "poll" /\ (st.reason # "None" => pc' \in {"leave", "deinit"})
  BY DEF HandleEvent, Undispatched, Finish
<1>2. PICK h : Runs(h, events)
  BY <1>1 DEF TalkInv, LoopInv
<1>3. Conversing /\ delayed \in PromptMode /\ events \in Seq(Event)
  BY DEF TalkInv, Conversing
<1>4. st = h[Len(events)]
  BY <1>2, <1>3, ConversingTypes, RunIsTheFold
<1> HIDE DEF st
<1>5. h[Len(events)].reason # "None"
  BY <1>2, <1>3, ReasonsStay
<1> QED  BY <1>1, <1>4, <1>5

(* A decision that waits is dispatched or lost with the compositor.        *)
LEMMA StepDecided ==
  ASSUME TalkInv, PhaseInv, DecidedInv, [Next]_vars
  PROVE  DecidedInv'
<1> SUFFICES ASSUME answer'.decided # Absent, link' = "up"  PROVE  DecidedInv'
  BY DEF DecidedInv
<1> DEFINE Waiting == \E i \in DOMAIN events : events[i] \in Decision
<1>1. events \in Seq(Event)
  BY DEF TalkInv, Conversing
<1>2. CASE ReadArguments \/ ReadConfig \/ MakeSecret \/ Select \/ EnterMode
  <2>1. pc \in Before \cup {"enter"} /\ answer' = answer
    BY <1>2 DEF ReadArguments, ReadConfig, MakeSecret, Select, EnterMode, Accept, Refuse, Exit, Before
  <2> QED  BY <2>1 DEF TalkInv, IdleInv
<1>3. CASE Flush
  <2>1. pc = "flush" /\ pc' \in {"poll", "deinit"} /\ UNCHANGED <<events, link, answer>>
    BY <1>3 DEF Flush, Finish, wayland
  <2> QED  BY <2>1 DEF DecidedInv
<1>4. CASE HandleEvent
  <2>1. pc = "poll" /\ answer' = answer /\ (link' = "up" => link = "up")
    BY <1>4 DEF HandleEvent
  <2>2. Waiting
    BY <2>1 DEF DecidedInv
  <2>3. pc' \in {"leave", "deinit"}
    BY <1>4, <2>2, DecisionEndsTheLoop
  <2> QED  BY <2>3 DEF DecidedInv
<1>5. CASE LeaveMode \/ Deinit \/ WriteLine \/ Return
  <2>1. pc' \in {"deinit", "write", "ended"}
    BY <1>5 DEF LeaveMode, Deinit, WriteLine, Return, Exit
  <2> QED  BY <2>1 DEF DecidedInv
<1>6. ASSUME NEW key \in Typed \cup Decision \cup {"Erase"}, Press(key)
      PROVE  DecidedInv'
  <2>1. /\ events' = Append(events, key) /\ pc' = pc /\ answer.decided = Absent
        /\ answer' = CASE key \in Decision -> [answer EXCEPT !.decided = key]
                       [] key = "Erase" /\ answer.typed # <<>> -> [answer EXCEPT !.typed = Front(@)]
                       [] key \in Typed /\ mode = "GetPin" -> [answer EXCEPT !.typed = Append(@, key)]
                       [] OTHER -> answer
    BY <1>6 DEF Press
  <2>2. key \in Event /\ answer \in [typed: Seq(Typed), decided: Decision \cup {Absent}]
    BY DEF Event, TalkInv, Conversing
  <2>3. key \in Decision
    <3> SUFFICES ASSUME key \notin Decision  PROVE  FALSE
      OBVIOUS
    <3>1. answer' \in {[answer EXCEPT !.typed = Front(@)], [answer EXCEPT !.typed = Append(@, key)], answer}
      BY <2>1
    <3>2. answer'.decided = answer.decided
      BY <2>2, <3>1
    <3> QED  BY <2>1, <3>2
  <2>4. Len(events) + 1 \in DOMAIN events' /\ events'[Len(events) + 1] = key
    BY <1>1, <2>1, <2>2
  <2>5. pc \in {"flush", "poll", "leave", "deinit", "write", "ended"}
    <3>1. mode # "None"
      BY <1>6 DEF Press
    <3> QED  BY <3>1 DEF TalkInv, IdleInv, PhaseInv, Before, During
  <2> QED  BY <2>1, <2>3, <2>4, <2>5 DEF DecidedInv
<1>7. CASE CompositorCloses
  <2>1. events' = Append(events, "Closed") /\ UNCHANGED <<pc, link, answer>>
    BY <1>7 DEF CompositorCloses
  <2>2. ASSUME NEW i \in DOMAIN events  PROVE  i \in DOMAIN events' /\ events'[i] = events[i]
    <3>1. "Closed" \in Event
      BY DEF Event
    <3> QED  BY <1>1, <2>1, <3>1
  <2> QED  BY <2>1, <2>2 DEF DecidedInv
<1>8. CASE CompositorDies
  BY <1>8 DEF CompositorDies
<1>9. CASE ReaderLeaves \/ UNCHANGED vars
  <2>1. UNCHANGED <<pc, events, link, answer>>
    BY <1>9 DEF ReaderLeaves, wayland, vars
  <2> QED  BY <2>1 DEF DecidedInv
<1> QED  BY <1>2, <1>3, <1>4, <1>5, <1>6, <1>7, <1>8, <1>9 DEF Next, Process, Environment

(* The answer has at most three lines, and no more are written.            *)
LEMMA FewLinesLeft ==
  ASSUME AnswerInv
  PROVE  Len(AnswerLines) \in 0..3 /\ Len(stdout) \in 0..Len(AnswerLines)
<1>1. Len(AnswerLines) \in 0..3
  <2> DEFINE a == Line("action", result)
             p == Line("pin", IF request.json THEN write_json_bytes(PinToTell) ELSE PinToTell)
             n == Line("no pin", <<>>)
             e == Line("}", <<>>)
             A == IF PinToTell # <<>> THEN <<p>> ELSE IF request.get_pin THEN <<n>> ELSE <<>>
             B == IF request.json THEN <<e>> ELSE <<>>
             L == {a, p, n, e}
  <2>1. CliLines = <<a>> \o A \o B
    BY DEF CliLines
  <2> HIDE DEF a, p, n, e
  <2>2. /\ <<a>> \in Seq(L) /\ <<p>> \in Seq(L) /\ <<n>> \in Seq(L) /\ <<e>> \in Seq(L) /\ <<>> \in Seq(L)
        /\ Len(<<a>>) = 1 /\ Len(<<p>>) = 1 /\ Len(<<n>>) = 1 /\ Len(<<e>>) = 1 /\ Len(<<>>) = 0
    OBVIOUS
  <2>3. A \in {<<p>>, <<n>>, <<>>} /\ B \in {<<e>>, <<>>}
    BY Zenon
  <2>4. Len(AskpassLines) \in 0..1
    BY DEF AskpassLines
  <2>5. \A x \in Seq(L), y \in Seq(L) : x \o y \in Seq(L) /\ Len(x \o y) = Len(x) + Len(y)
    OBVIOUS
  <2> HIDE DEF A, B, L
  <2>6. Len(CliLines) \in 0..3
    <3>1. A \in Seq(L) /\ Len(A) \in 0..1 /\ B \in Seq(L) /\ Len(B) \in 0..1
      <4>1. \A x \in {<<p>>, <<n>>, <<e>>, <<>>} : x \in Seq(L) /\ (Len(x) = 0 \/ Len(x) = 1)
        BY <2>2, Zenon
      <4>2. A \in {<<p>>, <<n>>, <<e>>, <<>>} /\ B \in {<<p>>, <<n>>, <<e>>, <<>>}
        BY <2>3, Zenon
      <4>3. /\ A \in Seq(L) /\ (Len(A) = 0 \/ Len(A) = 1)
            /\ B \in Seq(L) /\ (Len(B) = 0 \/ Len(B) = 1)
        BY <4>1, <4>2, Zenon
      <4> QED  BY <4>3
    <3> DEFINE f == <<a>>
               g == f \o A
    <3>2. f \in Seq(L) /\ Len(f) = 1 /\ CliLines = g \o B
      BY <2>1, <2>2
    <3> HIDE DEF f
    <3>3. g \in Seq(L) /\ Len(g) = 1 + Len(A)
      BY <2>5, <3>1, <3>2
    <3> HIDE DEF g
    <3>4. Len(g \o B) = Len(g) + Len(B)
      BY <2>5, <3>1, <3>3
    <3>5. \A x \in 0..1, y \in 0..1 : (1 + x) + y \in 0..3
      OBVIOUS
    <3> QED  BY <3>1, <3>2, <3>3, <3>4, <3>5, Zenon
  <2> QED  BY <2>4, <2>6 DEF AnswerLines
<1>2. CASE stdout = <<>>
  BY <1>1, <1>2
<1>3. CASE stdout # <<>>
  <2>1. Written
    BY <1>3 DEF AnswerInv, OutputInv
  <2>2. PICK k \in 0..Len(AnswerLines) : stdout = [i \in 1..k |-> AnswerLines[i]]
    BY <2>1 DEF Written
  <2> DEFINE d == [i \in 1..k |-> AnswerLines[i]]
  <2>3. k \in Nat
    BY <1>1
  <2>4. Len(d) = k
    BY <2>3
  <2> QED  BY <1>1, <2>2, <2>4
<1> QED  BY <1>1, <1>2, <1>3

(* So in every behaviour.                                                  *)
LEMMA DecidedInvariance == Spec => []DecidedInv
<1>1. Init => DecidedInv
  BY DEF Init, DecidedInv
<1>2. TalkInv /\ PhaseInv /\ DecidedInv /\ [Next]_vars => DecidedInv'
  BY StepDecided
<1> QED  BY <1>1, <1>2, TalkInvariance, PhaseInvariance, PTL DEF Spec

(* The calls a process has left when it is due.                            *)
LEMMA CallsOfTheDue ==
  ASSUME AnswerInv, Due
  PROVE  /\ pc \in During \cup {"write", "ended"}
         /\ pc = "enter" => link # "up"
         /\ pc = "write" => CallsLeft \in 1..4
<1>1. pc \in During \cup {"write", "ended"} /\ (pc = "enter" => link # "up")
  BY DEF Due, AnswerInv, PhaseInv, TalkInv, IdleInv, Before, During
<1>2. ASSUME pc = "write"  PROVE  CallsLeft \in 1..4
  <2> DEFINE m == Len(AnswerLines)
             k == Len(stdout)
  <2>1. m \in 0..3 /\ k \in 0..m
    BY FewLinesLeft
  <2>2. CallsLeft = IF result = "Error" THEN 1 ELSE 1 + (m - k)
    BY <1>2 DEF CallsLeft
  <2> HIDE DEF m, k
  <2> QED  BY <2>1, <2>2
<1> QED  BY <1>1, <1>2

(* A decision the user has made, and a compositor that is gone, end the    *)
(* process in at most ten of its own steps: whatever is pressed, closed or *)
(* lost meanwhile, every call brings the end nearer and nothing that is    *)
(* done to the process puts it off (prompt, run).                          *)
THEOREM ThePromptEndsInTime == Spec => EndsInTime
<1>1. ASSUME AnswerInv, DecidedInv, Due, Process
      PROVE  Due' /\ CallsLeft' < CallsLeft
  <2>1. /\ pc \in During \cup {"write", "ended"} /\ (pc = "enter" => link # "up")
        /\ pc = "write" => CallsLeft \in 1..4
    BY <1>1, CallsOfTheDue
  <2>2. link \in {"up", "down", "broken"}
    BY <1>1 DEF AnswerInv, TalkInv, Conversing
  <2>3. CASE EnterMode
    <3>1. pc = "enter" /\ pc' = "flush" /\ UNCHANGED <<frontend, link, answer>>
      BY <2>3 DEF EnterMode
    <3> QED  BY <1>1, <2>1, <3>1 DEF Due, CallsLeft
  <2>4. CASE Flush
    <3>1. pc = "flush" /\ UNCHANGED <<frontend, link, answer>>
          /\ \/ link # "up" /\ pc' = "deinit"
             \/ link # "broken" /\ pc' = "poll"
      BY <2>4 DEF Flush, Finish, wayland
    <3>2. Due'
      BY <1>1, <3>1 DEF Due
    <3>3. CASE link # "up" /\ pc' = "deinit"
      <4>1. CallsLeft \in {6, 8} /\ CallsLeft' = 5
        BY <3>1, <3>3 DEF CallsLeft
      <4> QED  BY <3>2, <4>1
    <3>4. CASE link = "up" /\ pc' = "poll"
      <4>1. CallsLeft = 9 /\ CallsLeft' = 8
        BY <3>1, <3>4 DEF CallsLeft
      <4> QED  BY <3>2, <4>1
    <3>5. CASE link = "down" /\ pc' = "poll"
      <4>1. CallsLeft = 8 /\ CallsLeft' = 7
        BY <3>1, <3>5 DEF CallsLeft
      <4> QED  BY <3>2, <4>1
    <3> QED  BY <2>2, <3>1, <3>3, <3>4, <3>5
  <2>5. CASE HandleEvent
    <3>1. /\ pc = "poll" /\ pc' \in {"flush", "leave", "deinit"} /\ UNCHANGED <<frontend, answer>>
          /\ link' = IF link = "up" THEN "up" ELSE "broken"
      BY <2>5 DEF HandleEvent, Finish
    <3>2. link = "up" => pc' \in {"leave", "deinit"}
      <4> SUFFICES ASSUME link = "up"  PROVE  pc' \in {"leave", "deinit"}
        OBVIOUS
      <4>1. PICK i \in DOMAIN events : events[i] \in Decision
        BY <1>1, <3>1 DEF Due, DecidedInv
      <4>2. TalkInv
        BY <1>1 DEF AnswerInv
      <4> QED  BY <2>5, <4>1, <4>2, DecisionEndsTheLoop
    <3> QED  BY <1>1, <2>2, <3>1, <3>2 DEF Due, CallsLeft
  <2>6. CASE LeaveMode
    <3>1. pc = "leave" /\ pc' = "deinit" /\ UNCHANGED <<frontend, link, answer>>
      BY <2>6 DEF LeaveMode
    <3> QED  BY <1>1, <3>1 DEF Due, CallsLeft
  <2>7. CASE Deinit
    <3>1. pc = "deinit" /\ pc' = "write" /\ frontend' = "closed" /\ UNCHANGED <<invocation, request, wayland, result, stdout, answer>>
      BY <2>7 DEF Deinit, asked, output
    <3>2. stdout = <<>> /\ Len(AnswerLines) \in 0..3
      BY <1>1, <3>1, FewLinesLeft DEF AnswerInv, OutputInv
    <3>3. AnswerLines' = AnswerLines
      BY <3>1, LinesAreStable DEF wayland
    <3>4. CallsLeft' \in 1..4
      <4>1. stdout' = <<>> /\ Len(stdout') = 0
        BY <3>1, <3>2
      <4> DEFINE m == Len(AnswerLines)
      <4>2. CallsLeft' = IF result' = "Error" THEN 1 ELSE 1 + (m - 0)
        BY <3>1, <3>3, <4>1 DEF CallsLeft
      <4>3. m \in 0..3
        BY <3>2
      <4> HIDE DEF m
      <4>4. 1 \in 1..4 /\ 1 + (m - 0) \in 1..4
        BY <4>3
      <4> QED  BY <4>2, <4>4
    <3> QED  BY <1>1, <3>1, <3>4 DEF Due, CallsLeft, wayland
  <2>8. CASE WriteLine
    <3>1. /\ pc = "write" /\ result # "Error" /\ UNCHANGED <<invocation, request, frontend, wayland, result, answer>>
          /\ \/ pc' = "ended"
             \/ stdout' = Append(stdout, AnswerLines[Len(stdout) + 1]) /\ pc' = pc
      BY <2>8 DEF WriteLine, Exit, asked
    <3>2. AnswerLines' = AnswerLines
      BY <3>1, LinesAreStable DEF wayland
    <3>3. Due'
      BY <1>1, <3>1 DEF Due, wayland
    <3>4. CASE pc' = "ended"
      <4>1. CallsLeft \in 1..4
        BY <2>1, <3>1
      <4>2. CallsLeft' = 0
        BY <3>4 DEF CallsLeft
      <4> QED  BY <3>3, <4>1, <4>2
    <3>5. CASE stdout' = Append(stdout, AnswerLines[Len(stdout) + 1]) /\ pc' = pc
      <4> DEFINE m == Len(AnswerLines)
                 k == Len(stdout)
      <4>1. m \in 0..3 /\ k \in 0..m
        BY <1>1, FewLinesLeft
      <4>2. Len(stdout') = k + 1
        BY <3>5, <4>1
      <4>3. CallsLeft = 1 + (m - k) /\ CallsLeft' = 1 + (m - (k + 1))
        BY <3>1, <3>2, <3>5, <4>2 DEF CallsLeft
      <4> HIDE DEF m, k
      <4> QED  BY <3>3, <4>1, <4>3
    <3> QED  BY <3>1, <3>4, <3>5
  <2>9. CASE Return
    <3>1. pc = "write" /\ pc' = "ended" /\ UNCHANGED <<frontend, wayland, answer>>
      BY <2>9 DEF Return, Exit
    <3>2. CallsLeft \in 1..4
      BY <2>1, <3>1
    <3>3. CallsLeft' = 0
      BY <3>1 DEF CallsLeft
    <3>4. Due'
      BY <1>1, <3>1 DEF Due, wayland
    <3> QED  BY <3>2, <3>3, <3>4
  <2>10. ~(ReadArguments \/ ReadConfig \/ MakeSecret \/ Select)
    BY <2>1 DEF ReadArguments, ReadConfig, MakeSecret, Select, During
  <2> QED  BY <1>1, <2>3, <2>4, <2>5, <2>6, <2>7, <2>8, <2>9, <2>10 DEF Process
<1>2. ASSUME AnswerInv, Due, Environment \/ UNCHANGED vars
      PROVE  Due' /\ CallsLeft' <= CallsLeft
  <2>1. /\ UNCHANGED <<invocation, request, pc, frontend, secret, result, stdout>>
        /\ link' = link \/ (link = "up" /\ link' = "down")
        /\ answer' = answer \/ (answer.decided = Absent /\ link = "up")
    BY <1>2 DEF Environment, Press, CompositorCloses, CompositorDies, ReaderLeaves, vars, asked, wayland, output
  <2>2. answer' = answer
    BY <1>2, <2>1 DEF Due
  <2>3. AnswerLines' = AnswerLines
    BY <2>1, LinesAreStable
  <2>4. Due'
    BY <1>2, <2>1, <2>2 DEF Due
  <2>5. CallsLeft \in Int
    <3>1. pc = "write" => CallsLeft \in 1..4
      BY <1>2, CallsOfTheDue
    <3>2. pc # "write" => CallsLeft \in {0, 5, 6, 7, 8, 9, 10}
      BY DEF CallsLeft
    <3> QED  BY <3>1, <3>2
  <2>6. CallsLeft' = CallsLeft \/ (pc = "flush" /\ CallsLeft = 9 /\ CallsLeft' = 8)
          \/ (pc = "poll" /\ CallsLeft = 8 /\ CallsLeft' = 7)
    <3>1. CASE link' = link
      <4>1. CallsLeft' = CallsLeft
        BY <2>1, <2>3, <3>1 DEF CallsLeft
      <4> QED  BY <4>1
    <3>2. CASE link = "up" /\ link' = "down"
      <4>1. pc = "flush" => CallsLeft = 9 /\ CallsLeft' = 8
        BY <2>1, <3>2 DEF CallsLeft
      <4>2. pc = "poll" => CallsLeft = 8 /\ CallsLeft' = 7
        BY <2>1, <3>2 DEF CallsLeft
      <4>3. pc \notin {"flush", "poll"} => CallsLeft' = CallsLeft
        BY <2>1, <2>3 DEF CallsLeft
      <4> QED  BY <4>1, <4>2, <4>3
    <3> QED  BY <2>1, <3>1, <3>2
  <2> QED  BY <2>4, <2>5, <2>6
<1>3. AnswerInv /\ DecidedInv /\ [Next]_vars =>
        (Due => Due' /\ IF Process THEN CallsLeft' < CallsLeft ELSE CallsLeft' <= CallsLeft)
  BY <1>1, <1>2 DEF Next
<1> QED  BY <1>3, AnswerInvariance, DecidedInvariance, PTL DEF Spec, EndsInTime

=============================================================================
