----------------------------- MODULE ConfigFile -----------------------------
(***************************************************************************)
(* The configuration file (src/config.rs): which file is read, and what    *)
(* its lines do, one after the other, in the section the last header       *)
(* opened.                                                                 *)
(*                                                                         *)
(* A line is what trimming and taking off comments, quotes and semicolons  *)
(* leave of it; a value is good or bad for a number or a colour, and any   *)
(* value is good for a font.                                               *)
(***************************************************************************)
EXTENDS Naturals, SequencesExt

CONSTANTS
  Values,      \* values that both a number and a colour may have
  Absent,      \* nothing there
  Unreadable   \* a file that exists and cannot be read, or a directory

Blank == [kind |-> "blank"]
Broken == [kind |-> "broken"]  \* a header without its bracket, a line without "="
Header(name) == [kind |-> "header", name |-> name]
Assign(key, value) == [kind |-> "assign", key |-> key, value |-> value]
FileLine ==
  {Blank, Broken} \cup [kind: {"header"}, name: STRING]
                 \cup [kind: {"assign"}, key: STRING, value: STRING]

\* One variable of each type; border is a number in one section and a colour
\* in the other.
Variables == [general |-> {"border", "font-regular"}, colours |-> {"border", "text"}]
SectionName == DOMAIN Variables
\* What is absent is no text, and no section.
ASSUME AbsentAssumption == Absent \notin STRING \cup SectionName
Accepts(key, value) == key = "font-regular" \/ value \in Values

Field == UNION {{<<s, key>> : key \in Variables[s]} : s \in SectionName}
Defaults == [f \in Field |-> "default"]

\* What parsing keeps: the section, the values, and whether a line was refused.
Start == [section |-> "None", values |-> Defaults, ok |-> TRUE]
Refused(st) == [st EXCEPT !.ok = FALSE]

(* WaylandUi::assign and WaylandColours::assign.                           *)
AssignIn(st, line) ==
  IF line.key \in Variables[st.section] /\ Accepts(line.key, line.value)
    THEN [st EXCEPT !.values[<<st.section, line.key>>] = line.value]
    ELSE Refused(st)

(* A bug: an unknown header is skipped, and the old section goes on.       *)
parse_line_SkipsUnknownHeaders(st, line) ==
  IF ~st.ok \/ line.kind = "blank" THEN st
  ELSE CASE line.kind = "header" ->
              IF line.name \in SectionName THEN [st EXCEPT !.section = line.name] ELSE st
         [] line.kind = "assign" /\ st.section # "None" -> AssignIn(st, line)
         [] OTHER -> Refused(st)

(* One line; nothing is read behind a line that is refused.                *)
parse_line(st, line) ==
  IF ~st.ok \/ line.kind = "blank" THEN st
  ELSE CASE line.kind = "header" ->
              IF line.name \in SectionName THEN [st EXCEPT !.section = line.name] ELSE Refused(st)
         [] line.kind = "assign" /\ st.section # "None" -> AssignIn(st, line)
         [] OTHER -> Refused(st)

parse_from(lines) == FoldLeft(parse_line, Start, lines)

-----------------------------------------------------------------------------
(* Where the file is.  A home says what two variables hold and which files *)
(* exist below each base.                                                  *)

Base == {"xdg", "home", "etc"}

(* The base is chosen once, by the variables alone.                        *)
config_base(home) ==
  IF home.XDG_CONFIG_HOME \notin {Absent, ""} THEN "xdg"
  ELSE IF home.HOME \notin {Absent, ""} THEN "home"
  ELSE "etc"

(* The file of the name that exists first, whatever is in it.              *)
select_config_in(files) ==
  IF files.nowayprompt # Absent THEN files.nowayprompt ELSE files.wayprompt

SelectedFile(home) == select_config_in(home.files[config_base(home)])

(* Config::parse: no file keeps the defaults, and one that cannot be read  *)
(* is an error.                                                            *)
ParseConfig(home) ==
  LET file == SelectedFile(home)
  IN IF file = Absent THEN Start ELSE IF file = Unreadable THEN Refused(Start) ELSE parse_from(file)

-----------------------------------------------------------------------------
(* What a file means, said without reading it line by line.                *)

(* The section line i is in: that of the last header above it.             *)
SectionOf(lines, i) ==
  LET above == {j \in 1 .. i - 1 : lines[j].kind = "header"}
  IN IF above = {} THEN Absent ELSE lines[Max(above)].name

IsValid(lines) ==
  \A i \in DOMAIN lines :
    \/ lines[i].kind = "blank"
    \/ lines[i].kind = "header" /\ lines[i].name \in SectionName
    \/ /\ lines[i].kind = "assign" /\ SectionOf(lines, i) \in SectionName
       /\ lines[i].key \in Variables[SectionOf(lines, i)] /\ Accepts(lines[i].key, lines[i].value)

(* Each field has the value of the last line that assigns to it.           *)
Meaning(lines) ==
  [f \in Field |->
     LET assigning == {i \in DOMAIN lines : /\ lines[i].kind = "assign" /\ lines[i].key = f[2]
                                            /\ SectionOf(lines, i) = f[1]}
     IN IF assigning = {} THEN "default" ELSE lines[Max(assigning)].value]
=============================================================================
