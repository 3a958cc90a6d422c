--------------------------- MODULE Terminal_proofs ---------------------------
(***************************************************************************)
(* The terminal frontend for every set of settings, keys, labels and       *)
(* sizes: whatever ends the process, and between whichever two of its      *)
(* calls, the terminal is given back; however reads cut the keys, the      *)
(* secret is UTF-8 that fits its page and its stars are on the screen;     *)
(* what does not fit on the screen is left out from the end; and whole     *)
(* keys do what they mean.                                                 *)
(***************************************************************************)
EXTENDS Terminal, NatInduction, SequenceTheorems, TLAPS

InRawMode == pc \in {"entered", "prompt", "answered"}

(* Where the settings of the terminal are kept while it is raw, and what   *)
(* they are when it is not.                                                *)
RunningDevice ==
  /\ InRawMode => guard = owner /\ termios = "raw" /\ mode # "None" /\ isTty
  /\ ~InRawMode => guard = Absent /\ termios = owner /\ mode = "None"
  /\ isTty /\ pc \notin {"start", "close"} => saved # Absent

DeviceInv ==
  /\ owner \in Settings
  /\ saved \in Settings \cup {Absent}
  /\ fate = "running" => RunningDevice
  /\ fate # "running" => termios \in Settings
  /\ fate \notin {"running", "killed"} => termios = owner

(* A step that touches neither the device nor the caller's place keeps it. *)
LEMMA Elsewhere ==
  ASSUME DeviceInv, UNCHANGED <<fate, pc, device, mode>>
  PROVE  DeviceInv'
BY DEF DeviceInv, RunningDevice, InRawMode, device

LEMMA DeviceInit == Init => DeviceInv
BY SettingsAssumption DEF Init, DeviceInv, RunningDevice, InRawMode

(* The drop of RawTty undoes raw mode, if there is any.                    *)
LEMMA DropRestores ==
  ASSUME DeviceInv, fate = "running", FailAndDrop
  PROVE  DeviceInv'
BY SettingsAssumption DEF DeviceInv, RunningDevice, InRawMode, FailAndDrop

LEMMA SignalRestores ==
  ASSUME DeviceInv, Signal
  PROVE  DeviceInv'
<1>1. fate = "running" /\ fate' = "killed" /\ RunningDevice
  BY DEF Signal, DeviceInv
<1>2. termios' \in Settings
  BY <1>1, SettingsAssumption DEF Signal, DeviceInv, RunningDevice, InRawMode
<1> QED
  BY <1>1, <1>2 DEF Signal, DeviceInv

LEMMA SettingsChange ==
  ASSUME DeviceInv, NEW s \in Settings, ChangeSettings(s)
  PROVE  DeviceInv'
BY SettingsAssumption DEF ChangeSettings, At, DeviceInv, RunningDevice, InRawMode, prompt

LEMMA OpeningKeeps ==
  ASSUME DeviceInv, OpenTty
  PROVE  DeviceInv'
BY SettingsAssumption DEF OpenTty, At, DeviceInv, RunningDevice, InRawMode, prompt

(* Raw mode saves the settings of now, which are the owner's.              *)
LEMMA EnteringKeeps ==
  ASSUME DeviceInv, NEW m \in {"GetPin", "Message"}, NEW ls \in LabelSets, EnterMode(m, ls)
  PROVE  DeviceInv'
BY SettingsAssumption
   DEF EnterMode, RawTtySaves, At, DeviceInv, RunningDevice, InRawMode

LEMMA RenderingKeeps ==
  ASSUME DeviceInv, FirstRender
  PROVE  DeviceInv'
<1>1. CASE pc' = "prompt" /\ UNCHANGED <<fate, device>>
  BY <1>1 DEF FirstRender, At, DeviceInv, RunningDevice, InRawMode, device, prompt
<1>2. CASE FailAndDrop
  BY <1>2, DropRestores DEF FirstRender, At
<1> QED
  BY <1>1, <1>2 DEF FirstRender

LEMMA ReadingKeeps ==
  ASSUME DeviceInv, NEW n \in 1 .. ReadSize, HandleEvent(n)
  PROVE  DeviceInv'
<1>1. At("prompt") /\ UNCHANGED <<fate, device, mode>>
  BY DEF HandleEvent, prompt
<1>2. pc' \in {"prompt", "answered"}
  BY DEF HandleEvent
<1> QED
  BY <1>1, <1>2 DEF At, DeviceInv, RunningDevice, InRawMode, device

LEMMA LeavingKeeps ==
  ASSUME DeviceInv, LeaveMode
  PROVE  DeviceInv'
BY SettingsAssumption DEF LeaveMode, At, DeviceInv, RunningDevice, InRawMode

(* The three steps of deinit, each of which a signal may follow.           *)
LEMMA ClosingKeeps ==
  ASSUME DeviceInv, Deinit \/ Unregister \/ CloseAndReturn
  PROVE  DeviceInv'
<1>1. CASE Deinit
  BY <1>1, SettingsAssumption DEF Deinit, At, DeviceInv, RunningDevice, InRawMode, prompt
<1>2. CASE Unregister
  BY <1>2, SettingsAssumption DEF Unregister, At, DeviceInv, RunningDevice, InRawMode, prompt
<1>3. CASE CloseAndReturn
  BY <1>3, SettingsAssumption DEF CloseAndReturn, At, DeviceInv, RunningDevice, InRawMode, prompt, device
<1> QED
  BY <1>1, <1>2, <1>3

LEMMA DeviceStep == DeviceInv /\ [Next]_vars => DeviceInv'
<1> SUFFICES ASSUME DeviceInv, [Next]_vars PROVE DeviceInv'
  OBVIOUS
<1>1. CASE UNCHANGED vars
  BY <1>1, Elsewhere DEF vars, device
<1>2. ASSUME NEW k \in UserKeys, Press(k) PROVE DeviceInv'
  BY <1>2, Elsewhere DEF Press, prompt
<1>3. ASSUME NEW h \in Heights, Resize(h) PROVE DeviceInv'
  BY <1>3, Elsewhere DEF Resize, prompt
<1>4. CASE EnterModeFails \/ ReadFails
  BY <1>4, DropRestores DEF EnterModeFails, ReadFails, At
<1> QED
  BY <1>1, <1>2, <1>3, <1>4, SignalRestores, SettingsChange, OpeningKeeps, EnteringKeeps,
     RenderingKeeps, ReadingKeeps, LeavingKeeps, ClosingKeeps
  DEF Next

THEOREM DeviceIsKept == Spec => []DeviceInv
BY DeviceInit, DeviceStep, PTL DEF Spec

(* A process that is gone never leaves the terminal raw: not after deinit, *)
(* not after an error that only drops the frontend, not after a signal     *)
(* between any two calls (RawTty and the statics of the signal handler).   *)
THEOREM TerminalIsCooked == Spec => []CookedWhenGone
<1>1. DeviceInv => CookedWhenGone
  BY SettingsAssumption DEF DeviceInv, CookedWhenGone
<1> QED
  BY <1>1, DeviceIsKept, PTL

(* And, unless it was killed, as the owner last set it, whenever no prompt *)
(* is open (what raw mode saves is taken at each prompt).                  *)
THEOREM TerminalIsReturned == Spec => []OwnersSettingsReturn
<1>1. DeviceInv => OwnersSettingsReturn
  BY DEF DeviceInv, RunningDevice, InRawMode, OwnersSettingsReturn
<1> QED
  BY <1>1, DeviceIsKept, PTL

-----------------------------------------------------------------------------
(* The bytes of a sequence of characters, or of keys.                      *)

Flattens(seqs, n, f) == f = [i \in 1..n |-> IF i = 1 THEN seqs[i] ELSE f[i-1] \o seqs[i]]

LEMMA FlatteningExists ==
  ASSUME NEW seqs
  PROVE  \A n \in Nat : \E f : Flattens(seqs, n, f)
<1> DEFINE S == {n \in Nat : \E f : Flattens(seqs, n, f)}
<1>1. 0 \in S
  <2> DEFINE f == [i \in 1..0 |-> 0]
  <2>1. Flattens(seqs, 0, f)
    BY DEF Flattens
  <2> QED  BY <2>1
<1>2. ASSUME NEW n \in Nat, n \in S  PROVE  n + 1 \in S
  <2>1. PICK f : Flattens(seqs, n, f)
    BY <1>2
  <2> DEFINE d == [i \in 1..n+1 |-> IF i <= n THEN f[i] ELSE IF i = 1 THEN seqs[i] ELSE f[n] \o seqs[i]]
  <2>2. \A i \in 1..n : f[i] = IF i = 1 THEN seqs[i] ELSE f[i-1] \o seqs[i]
    BY <2>1 DEF Flattens
  <2>3. ASSUME NEW i \in 1..n+1  PROVE  d[i] = IF i = 1 THEN seqs[i] ELSE d[i-1] \o seqs[i]
    <3>1. CASE i <= n
      BY <2>2, <3>1
    <3>2. CASE i = n + 1
      BY <3>2
    <3> QED  BY <3>1, <3>2
  <2>4. Flattens(seqs, n + 1, d)
    BY <2>3 DEF Flattens
  <2> QED  BY <2>4
<1> HIDE DEF S
<1>3. \A n \in Nat : n \in S
  BY <1>1, <1>2, SetInduction
<1> QED  BY <1>3 DEF S

(* The flattened prefixes.                                                 *)
LEMMA FlattenedOneByOne ==
  ASSUME NEW T, NEW seqs \in Seq(T), seqs # <<>>
  PROVE  \E f : Flattens(seqs, Len(seqs), f) /\ FlattenSeq(seqs) = f[Len(seqs)]
<1> DEFINE n == Len(seqs)
           f == CHOOSE f : Flattens(seqs, n, f)
<1>1. n \in Nat /\ n # 0
  OBVIOUS
<1>2. FlattenSeq(seqs) = f[n]
  BY <1>1 DEF FlattenSeq, Flattens
<1> HIDE DEF n
<1>3. Flattens(seqs, n, f)
  BY <1>1, FlatteningExists
<1> HIDE DEF f
<1> QED  BY <1>2, <1>3 DEF n

Begins(B, seqs, n, more) == \A i \in 1..n : seqs[i] \in Seq(B) /\ more[i] = seqs[i]

LEMMA FlattenedPrefixes ==
  ASSUME NEW B, NEW seqs, NEW n \in Nat, NEW more, Begins(B, seqs, n, more),
         NEW f, Flattens(seqs, n, f), NEW g, Flattens(more, n + 1, g)
  PROVE  \A i \in 1..n : f[i] \in Seq(B) /\ g[i] = f[i]
<1> DEFINE S == {i \in Nat : i + 1 \in 1..n => f[i + 1] \in Seq(B) /\ g[i + 1] = f[i + 1]}
<1>1. /\ \A i \in 1..n : f[i] = IF i = 1 THEN seqs[i] ELSE f[i-1] \o seqs[i]
      /\ \A i \in 1..n+1 : g[i] = IF i = 1 THEN more[i] ELSE g[i-1] \o more[i]
  BY DEF Flattens
<1>2. 0 \in S
  BY <1>1 DEF Begins
<1>3. ASSUME NEW i \in Nat, i \in S  PROVE  i + 1 \in S
  <2> SUFFICES ASSUME i + 2 \in 1..n
               PROVE  f[i + 2] \in Seq(B) /\ g[i + 2] = f[i + 2]
    OBVIOUS
  <2>1. /\ i + 1 \in 1..n /\ i + 2 \in 1..n+1 /\ i + 2 # 1 /\ (i + 2) - 1 = i + 1
    OBVIOUS
  <2>2. f[i + 1] \in Seq(B) /\ g[i + 1] = f[i + 1]
    BY <1>3, <2>1
  <2>3. f[i + 2] = f[i + 1] \o seqs[i + 2] /\ g[i + 2] = g[i + 1] \o more[i + 2]
    BY <1>1, <2>1
  <2>4. seqs[i + 2] \in Seq(B) /\ more[i + 2] = seqs[i + 2]
    BY DEF Begins
  <2> QED  BY <2>2, <2>3, <2>4
<1> HIDE DEF S
<1>4. \A i \in Nat : i \in S
  BY <1>2, <1>3, SetInduction
<1>5. ASSUME NEW i \in 1..n  PROVE  f[i] \in Seq(B) /\ g[i] = f[i]
  <2>1. i - 1 \in Nat /\ (i - 1) + 1 = i
    OBVIOUS
  <2> QED  BY <1>4, <2>1 DEF S
<1> QED  BY <1>5

LEMMA FlattenOneMore ==
  ASSUME NEW B, NEW seqs \in Seq(Seq(B)), NEW e \in Seq(B)
  PROVE  /\ FlattenSeq(seqs) \in Seq(B)
         /\ FlattenSeq(Append(seqs, e)) = FlattenSeq(seqs) \o e
<1> DEFINE more == Append(seqs, e)
           n == Len(seqs)
<1>1. /\ n \in Nat /\ more \in Seq(Seq(B)) /\ more # <<>> /\ Len(more) = n + 1
      /\ more[n + 1] = e /\ \A i \in 1..n : more[i] = seqs[i] /\ seqs[i] \in Seq(B)
  OBVIOUS
<1>2. PICK g : Flattens(more, n + 1, g) /\ FlattenSeq(more) = g[n + 1]
  BY <1>1, FlattenedOneByOne
<1> HIDE DEF n, more
<1>3. g[n + 1] = IF n + 1 = 1 THEN e ELSE g[n] \o e
  <2>1. \A i \in 1..n+1 : g[i] = IF i = 1 THEN more[i] ELSE g[i-1] \o more[i]
    BY <1>2 DEF Flattens
  <2>2. n + 1 \in 1..n+1 /\ (n + 1) - 1 = n
    BY <1>1
  <2> QED  BY <1>1, <2>1, <2>2
<1>4. CASE seqs = <<>>
  <2>1. FlattenSeq(seqs) = <<>>
    BY <1>4 DEF FlattenSeq
  <2>2. n = 0
    BY <1>4 DEF n
  <2>3. <<>> \o e = e
    OBVIOUS
  <2> QED  BY <1>2, <1>3, <2>1, <2>2, <2>3 DEF more
<1>5. CASE seqs # <<>>
  <2>1. n # 0
    BY <1>5 DEF n
  <2>2. PICK f : Flattens(seqs, n, f) /\ FlattenSeq(seqs) = f[n]
    BY <1>5, FlattenedOneByOne DEF n
  <2>3. f[n] \in Seq(B) /\ g[n] = f[n]
    <3>1. Begins(B, seqs, n, more) /\ n \in Nat /\ n \in 1..n
      BY <1>1, <2>1 DEF Begins
    <3>2. \A i \in 1..n : f[i] \in Seq(B) /\ g[i] = f[i]
      BY <1>2, <2>2, <3>1, FlattenedPrefixes
    <3> QED  BY <3>1, <3>2
  <2>5. n + 1 # 1
    BY <1>1, <2>1
  <2>4. FlattenSeq(more) = FlattenSeq(seqs) \o e
    BY <1>2, <1>3, <2>2, <2>3, <2>5
  <2> QED  BY <2>2, <2>3, <2>4 DEF more
<1> QED  BY <1>4, <1>5

-----------------------------------------------------------------------------
(* The parser.  Every token is cut from the bytes of the read, and text is *)
(* only what is well-formed.                                               *)

Kinds ==
  {"Unknown", "Codepoint", "Backspace", "Cu", "Cw", "CBackspace", "Enter", "Escape", "Cc"}
Tokens == {t \in [kind : Kinds, bytes : Seq(Nat)] : t.kind = "Codepoint" => WellFormed(t.bytes)}

LEMMA CutOut ==
  ASSUME NEW buf \in Seq(Nat), NEW i \in 1..Len(buf), NEW j \in i..Len(buf)
  PROVE  SubSeq(buf, i, j) \in Seq(Nat) /\ Len(SubSeq(buf, i, j)) = j - i + 1
OBVIOUS

LEMMA SequenceLengths ==
  ASSUME NEW b \in Nat
  PROVE  Utf8SeqLen(b) \in 0..4
BY DEF Utf8SeqLen

LEMMA EscapeLengths ==
  ASSUME NEW buf \in Seq(Nat), NEW i \in 1..Len(buf), i < Len(buf)
  PROVE  EscapeLen(buf, i) \in 1..Len(buf) - i + 1
<1> DEFINE final == {j \in i + 2..Len(buf) : buf[j] \in 64..126}
<1>1. Len(buf) \in Nat /\ i \in Nat
  OBVIOUS
<1>2. final \in SUBSET Nat /\ \A j \in final : j >= i + 2 /\ j <= Len(buf)
  BY <1>1
<1>3. EscapeLen(buf, i) = IF buf[i + 1] # Bracket THEN 2
                          ELSE (IF final = {} THEN Len(buf) ELSE Min(final)) - i + 1
  BY DEF EscapeLen
<1> HIDE DEF final
<1>6. buf[i + 1] # Bracket => EscapeLen(buf, i) \in 1..Len(buf) - i + 1
  <2>1. 2 \in 1..Len(buf) - i + 1
    BY <1>1
  <2> QED  BY <1>3, <2>1
<1>4. CASE final = {}
  BY <1>1, <1>3, <1>4, <1>6
<1>5. CASE final # {}
  <2>1. Min(final) \in final
    BY <1>2, <1>5, LeastOf
  <2>2. Min(final) \in Nat /\ Min(final) >= i + 2 /\ Min(final) <= Len(buf)
    BY <1>2, <2>1
  <2>3. Min(final) - i + 1 \in 1..Len(buf) - i + 1
    <3> DEFINE m == Min(final)
    <3>1. m \in Nat /\ m >= i + 2 /\ m <= Len(buf)
      BY <2>2
    <3> HIDE DEF m
    <3>2. m - i + 1 \in 1..Len(buf) - i + 1
      BY <1>1, <3>1
    <3> QED  BY <3>2 DEF m
  <2>4. buf[i + 1] = Bracket => EscapeLen(buf, i) = Min(final) - i + 1
    BY <1>3, <1>5
  <2> QED  BY <1>6, <2>3, <2>4
<1> QED  BY <1>4, <1>5

LEMMA TokenTypes ==
  ASSUME NEW buf \in Seq(Nat), NEW i \in 1..Len(buf)
  PROVE  TokenAt(buf, i) \in Tokens /\ Len(TokenAt(buf, i).bytes) \in 1..Len(buf) - i + 1
<1>1. Len(buf) \in Nat /\ i \in Nat /\ buf[i] \in Nat /\ <<buf[i]>> \in Seq(Nat) /\ Len(<<buf[i]>>) = 1
  OBVIOUS
<1> DEFINE Fits(t) == t \in Tokens /\ Len(t.bytes) \in 1..Len(buf) - i + 1
<1>2. ASSUME NEW k \in Kinds, k # "Codepoint"
      PROVE  Fits(Token(k, <<buf[i]>>))
  BY <1>1, <1>2 DEF Token, Tokens
<1>3. CASE buf[i] \in DOMAIN ControlKey
  <2>1. ControlKey[buf[i]] \in Kinds /\ ControlKey[buf[i]] # "Codepoint"
    BY <1>3 DEF ControlKey, Kinds
  <2>2. TokenAt(buf, i) = Token(ControlKey[buf[i]], <<buf[i]>>)
    BY <1>3 DEF TokenAt, ControlKey, ESC
  <2> HIDE DEF Fits
  <2>3. Fits(TokenAt(buf, i))
    BY <1>2, <2>1, <2>2
  <2> QED  BY <2>3 DEF Fits
<1>4. CASE buf[i] \notin DOMAIN ControlKey /\ buf[i] = ESC /\ i = Len(buf)
  <2>1. TokenAt(buf, i) = Token("Escape", <<buf[i]>>)
    BY <1>4 DEF TokenAt, ControlKey, ESC
  <2> HIDE DEF Fits
  <2>2. Fits(TokenAt(buf, i))
    BY <1>2, <2>1 DEF Kinds
  <2> QED  BY <2>2 DEF Fits
<1>5. CASE buf[i] \notin DOMAIN ControlKey /\ buf[i] = ESC /\ i < Len(buf)
  <2> DEFINE e == EscapeLen(buf, i)
  <2>1. e \in 1..Len(buf) - i + 1
    BY <1>5, EscapeLengths
  <2>2. TokenAt(buf, i) = Token("Unknown", SubSeq(buf, i, i + e - 1))
    BY <1>5 DEF TokenAt, ControlKey, ESC
  <2> HIDE DEF e
  <2>3. SubSeq(buf, i, i + e - 1) \in Seq(Nat) /\ Len(SubSeq(buf, i, i + e - 1)) = e
    <3>1. i + e - 1 \in i..Len(buf) /\ (i + e - 1) - i + 1 = e
      BY <1>1, <2>1
    <3> QED  BY <3>1, CutOut
  <2> QED  BY <2>1, <2>2, <2>3 DEF Token, Tokens, Kinds
<1>6. CASE buf[i] \notin DOMAIN ControlKey /\ buf[i] # ESC
  <2> DEFINE n == Utf8SeqLen(buf[i])
  <2>1. n \in 0..4
    BY <1>1, SequenceLengths
  <2>2. TokenAt(buf, i) = TextAt(buf, i)
    BY <1>6 DEF TokenAt
  <2>3. CASE n # 0 /\ i + n - 1 <= Len(buf) /\ WellFormed(SubSeq(buf, i, i + n - 1))
    <3>1. TextAt(buf, i) = Token("Codepoint", SubSeq(buf, i, i + n - 1))
      BY <2>3 DEF TextAt
    <3> HIDE DEF n
    <3>2. SubSeq(buf, i, i + n - 1) \in Seq(Nat) /\ Len(SubSeq(buf, i, i + n - 1)) = n
      <4>1. i + n - 1 \in i..Len(buf) /\ (i + n - 1) - i + 1 = n
        BY <1>1, <2>1, <2>3
      <4> QED  BY <4>1, CutOut
    <3> DEFINE c == SubSeq(buf, i, i + n - 1)
    <3>3. c \in Seq(Nat) /\ Len(c) = n /\ WellFormed(c) /\ TokenAt(buf, i) = Token("Codepoint", c)
      BY <2>2, <2>3, <3>1, <3>2
    <3>4. n \in 1..Len(buf) - i + 1
      BY <1>1, <2>1, <2>3
    <3> HIDE DEF c
    <3> QED  BY <3>3, <3>4 DEF Token, Tokens, Kinds
  <2>4. CASE ~(n # 0 /\ i + n - 1 <= Len(buf) /\ WellFormed(SubSeq(buf, i, i + n - 1)))
    <3>1. TextAt(buf, i) = Token("Unknown", <<buf[i]>>)
      BY <2>4 DEF TextAt
    <3> HIDE DEF Fits
    <3>2. Fits(TokenAt(buf, i))
      BY <1>2, <2>2, <3>1 DEF Kinds
    <3> QED  BY <3>2 DEF Fits
  <2> QED  BY <2>3, <2>4
<1> QED  BY <1>1, <1>3, <1>4, <1>5, <1>6

Parses(buf, k, g) ==
  g = [i \in k..Len(buf) + 1 |->
         IF i > Len(buf) THEN <<>> ELSE <<TokenAt(buf, i)>> \o g[i + Len(TokenAt(buf, i).bytes)]]

LEMMA ParseExists ==
  ASSUME NEW buf \in Seq(Nat)
  PROVE  \A n \in Nat : n <= Len(buf) => \E g : Parses(buf, Len(buf) + 1 - n, g)
<1> DEFINE last == Len(buf) + 1
           S == {n \in Nat : n <= Len(buf) => \E g : Parses(buf, last - n, g)}
<1>1. Len(buf) \in Nat
  OBVIOUS
<1>2. 0 \in S
  <2> DEFINE g == [i \in last..last |-> <<>>]
  <2>1. Parses(buf, last - 0, g)
    BY <1>1 DEF Parses
  <2> QED  BY <2>1
<1>3. ASSUME NEW n \in Nat, n \in S  PROVE  n + 1 \in S
  <2> SUFFICES ASSUME n + 1 <= Len(buf)  PROVE  \E g : Parses(buf, last - (n + 1), g)
    OBVIOUS
  <2>1. PICK g : Parses(buf, last - n, g)
    BY <1>1, <1>3
  <2> DEFINE k == last - (n + 1)
             t == TokenAt(buf, k)
             d == [i \in k..last |-> IF i = k THEN <<t>> \o g[k + Len(t.bytes)] ELSE g[i]]
  <2>2. k \in 1..Len(buf) /\ last - n = k + 1 /\ last \in Nat
    BY <1>1
  <2>3. Len(t.bytes) \in 1..Len(buf) - k + 1
    BY <2>2, TokenTypes
  <2>4. \A i \in k+1..last :
          g[i] = IF i > Len(buf) THEN <<>> ELSE <<TokenAt(buf, i)>> \o g[i + Len(TokenAt(buf, i).bytes)]
    BY <2>1, <2>2 DEF Parses
  <2> HIDE DEF k, t
  <2>5. ASSUME NEW i \in k..last
        PROVE  d[i] = IF i > Len(buf) THEN <<>>
                      ELSE <<TokenAt(buf, i)>> \o d[i + Len(TokenAt(buf, i).bytes)]
    <3>1. CASE i = k
      <4>1. k + Len(t.bytes) \in k+1..last /\ k + Len(t.bytes) # k /\ k \in k..last
        BY <1>1, <2>2, <2>3
      <4> DEFINE next == k + Len(t.bytes)
      <4>2. d[next] = g[next] /\ d[k] = <<t>> \o g[next]
        <5>1. \A j \in k..last : d[j] = IF j = k THEN <<t>> \o g[next] ELSE g[j]
          OBVIOUS
        <5>2. next \in k..last /\ next # k /\ k \in k..last
          BY <1>1, <2>2, <4>1
        <5> HIDE DEF d, next
        <5> QED  BY <5>1, <5>2
      <4>3. ~(k > Len(buf))
        BY <1>1, <2>2
      <4> QED  BY <3>1, <4>2, <4>3 DEF t
    <3>2. CASE i # k /\ i > Len(buf)
      <4>1. i \in k+1..last /\ d[i] = g[i]
        BY <2>2, <3>2
      <4> QED  BY <2>4, <3>2, <4>1
    <3>3. CASE i # k /\ ~(i > Len(buf))
      <4> DEFINE next == i + Len(TokenAt(buf, i).bytes)
      <4>1. i \in k+1..last /\ d[i] = g[i] /\ i \in 1..Len(buf)
        BY <1>1, <2>2, <3>3
      <4>2. Len(TokenAt(buf, i).bytes) \in 1..Len(buf) - i + 1
        BY <4>1, TokenTypes
      <4> DEFINE l == Len(TokenAt(buf, i).bytes)
      <4>6. i \in Nat /\ k \in Nat /\ k < i /\ i <= Len(buf)
        BY <1>1, <2>2, <4>1
      <4> HIDE DEF l
      <4>7. l \in Nat /\ 1 <= l /\ l <= Len(buf) - i + 1
        BY <1>1, <4>2, <4>6 DEF l
      <4>3. next \in k..last /\ next # k
        <5>1. i + l \in k..last /\ i + l # k
          BY <1>1, <4>6, <4>7
        <5> QED  BY <5>1 DEF l
      <4> HIDE DEF next
      <4>4. d[next] = g[next]
        BY <4>3
      <4>5. g[i] = <<TokenAt(buf, i)>> \o g[next]
        BY <2>4, <3>3, <4>1 DEF next
      <4> QED  BY <3>3, <4>1, <4>4, <4>5 DEF next
    <3> QED  BY <3>1, <3>2, <3>3
  <2>6. Parses(buf, k, d)
    BY <2>5 DEF Parses
  <2> QED  BY <2>6 DEF k
<1> HIDE DEF S
<1>4. \A n \in Nat : n \in S
  BY <1>2, <1>3, SetInduction
<1> QED  BY <1>4 DEF S

LEMMA ParseTypes ==
  ASSUME NEW buf \in Seq(Nat), NEW g, Parses(buf, 1, g)
  PROVE  \A i \in 1..Len(buf) + 1 : g[i] \in Seq(Tokens)
<1> DEFINE last == Len(buf) + 1
           S == {n \in Nat : \A i \in 1..last : i >= last - n => g[i] \in Seq(Tokens)}
<1>1. Len(buf) \in Nat
  OBVIOUS
<1>2. \A i \in 1..last :
        g[i] = IF i > Len(buf) THEN <<>> ELSE <<TokenAt(buf, i)>> \o g[i + Len(TokenAt(buf, i).bytes)]
  BY DEF Parses
<1>0. <<>> \in Seq(Tokens)
  OBVIOUS
<1>3. 0 \in S
  <2> SUFFICES ASSUME NEW i \in 1..last, i >= last - 0  PROVE  g[i] \in Seq(Tokens)
    OBVIOUS
  <2>1. i > Len(buf)
    BY <1>1
  <2>2. g[i] = <<>>
    BY <1>2, <2>1
  <2> QED  BY <1>0, <2>2
<1>4. ASSUME NEW n \in Nat, n \in S  PROVE  n + 1 \in S
  <2> SUFFICES ASSUME NEW i \in 1..last, i >= last - (n + 1)  PROVE  g[i] \in Seq(Tokens)
    BY <1>1
  <2>1. CASE i > Len(buf)
    <3>1. g[i] = <<>>
      BY <1>2, <2>1
    <3> QED  BY <1>0, <3>1
  <2>2. CASE ~(i > Len(buf))
    <3> DEFINE next == i + Len(TokenAt(buf, i).bytes)
    <3>1. i \in 1..Len(buf)
      BY <1>1, <2>2
    <3>2. TokenAt(buf, i) \in Tokens /\ Len(TokenAt(buf, i).bytes) \in 1..Len(buf) - i + 1
      BY <3>1, TokenTypes
    <3>3. next \in 1..last /\ next >= last - n
      BY <1>1, <3>1, <3>2
    <3>4. g[i] = <<TokenAt(buf, i)>> \o g[next]
      BY <1>2, <2>2
    <3> HIDE DEF next
    <3>5. g[next] \in Seq(Tokens)
      BY <1>4, <3>3
    <3> QED  BY <3>2, <3>4, <3>5
  <2> QED  BY <2>1, <2>2
<1> HIDE DEF S
<1>5. \A n \in Nat : n \in S
  BY <1>3, <1>4, SetInduction
<1>6. Len(buf) \in S
  BY <1>1, <1>5
<1> QED  BY <1>1, <1>6 DEF S

(* What is made of a read is a list of tokens, and text in it is UTF-8.    *)
LEMMA ParsedTokens ==
  ASSUME NEW buf \in Seq(Nat)
  PROVE  parse_input(buf) \in Seq(Tokens)
<1> DEFINE g == CHOOSE g : Parses(buf, 1, g)
<1>1. Len(buf) \in Nat /\ Len(buf) + 1 - Len(buf) = 1
  OBVIOUS
<1>2. \E f : Parses(buf, 1, f)
  <2>1. \E f : Parses(buf, Len(buf) + 1 - Len(buf), f)
    BY <1>1, ParseExists
  <2> QED  BY <1>1, <2>1
<1>3. parse_input(buf) = g[1]
  BY DEF parse_input, Parses
<1>4. Parses(buf, 1, g)
  BY <1>2
<1> HIDE DEF g
<1> QED  BY <1>1, <1>3, <1>4, ParseTypes

LEMMA OneCutOut ==
  ASSUME NEW buf \in Seq(Nat), NEW i \in 1..Len(buf)
  PROVE  SubSeq(buf, i, i) = <<buf[i]>>
<1> DEFINE one == SubSeq(buf, i, i)
<1>1. i \in Int /\ buf[i] \in Nat /\ i - i + 1 = 1 /\ i + 1 - 1 = i /\ 1 \in 1..1
  OBVIOUS
<1>2. \A j \in i..i : buf[j] \in Nat
  BY <1>1
<1>3. one \in Seq(Nat) /\ Len(one) = 1 /\ one[1] = buf[i]
  <2>1. /\ one \in Seq(Nat) /\ Len(one) = (IF i <= i THEN i - i + 1 ELSE 0)
        /\ \A j \in 1..i - i + 1 : one[j] = buf[i + j - 1]
    BY <1>1, <1>2, SubSeqProperties
  <2>2. i <= i
    BY <1>1
  <2> HIDE DEF one
  <2> QED  BY <1>1, <2>1, <2>2
<1> HIDE DEF one
<1>4. one = <<buf[i]>>
  BY <1>3
<1> QED  BY <1>4 DEF one

(* A token takes the bytes at its place.                                   *)
LEMMA TokensAreSlices ==
  ASSUME NEW buf \in Seq(Nat), NEW i \in 1..Len(buf)
  PROVE  TokenAt(buf, i).bytes = SubSeq(buf, i, i + Len(TokenAt(buf, i).bytes) - 1)
<1> DEFINE Slice(b) == b = SubSeq(buf, i, i + Len(b) - 1)
           t == TokenAt(buf, i)
<1>1. Len(buf) \in Nat /\ i \in Nat /\ Len(t.bytes) \in 1..Len(buf) - i + 1
  BY TokenTypes
<1>2. Slice(<<buf[i]>>)
  <2>1. Len(<<buf[i]>>) = 1 /\ i + 1 - 1 = i
    BY <1>1
  <2> QED  BY <2>1, OneCutOut
<1>3. ASSUME NEW j \in i..Len(buf)  PROVE  Slice(SubSeq(buf, i, j))
  <2>1. Len(SubSeq(buf, i, j)) = j - i + 1 /\ i + (j - i + 1) - 1 = j
    BY <1>1, CutOut
  <2> QED  BY <2>1
<1>4. t.bytes = <<buf[i]>> \/ \E j \in Int : t.bytes = SubSeq(buf, i, j)
  <2>1. CASE buf[i] \in DOMAIN ControlKey
    <3>1. t = Token(ControlKey[buf[i]], <<buf[i]>>)
      BY <2>1 DEF TokenAt, ControlKey, ESC
    <3> QED  BY <3>1 DEF Token
  <2>2. CASE buf[i] \notin DOMAIN ControlKey /\ buf[i] = ESC /\ i = Len(buf)
    BY <2>2 DEF TokenAt, Token
  <2>3. CASE buf[i] \notin DOMAIN ControlKey /\ buf[i] = ESC /\ i < Len(buf)
    <3> DEFINE e == EscapeLen(buf, i)
    <3>1. t = Token("Unknown", SubSeq(buf, i, i + e - 1))
      BY <2>3 DEF TokenAt, ControlKey, ESC
    <3>2. i + e - 1 \in Int
      BY <1>1, <2>3, EscapeLengths
    <3> HIDE DEF e, t
    <3>3. t.bytes = SubSeq(buf, i, i + e - 1)
      BY <3>1 DEF Token
    <3> QED  BY <3>2, <3>3
  <2>4. CASE buf[i] \notin DOMAIN ControlKey /\ buf[i] # ESC
    <3>1. t = TextAt(buf, i) /\ Utf8SeqLen(buf[i]) \in Int
      BY <2>4, SequenceLengths DEF TokenAt
    <3>2. \/ TextAt(buf, i).bytes = <<buf[i]>>
          \/ TextAt(buf, i).bytes = SubSeq(buf, i, i + Utf8SeqLen(buf[i]) - 1)
      BY DEF TextAt, Token
    <3>3. i + Utf8SeqLen(buf[i]) - 1 \in Int
      BY <1>1, <3>1
    <3> QED  BY <3>1, <3>2, <3>3
  <2>5. i = Len(buf) \/ i < Len(buf)
    BY <1>1
  <2> QED  BY <2>1, <2>2, <2>3, <2>4, <2>5
<1>5. ASSUME NEW j \in Int, t.bytes = SubSeq(buf, i, j)  PROVE  Slice(t.bytes)
  <2>1. Len(SubSeq(buf, i, j)) = IF i <= j THEN j - i + 1 ELSE 0
    BY <1>1
  <2>2. i <= j /\ j <= Len(buf)
    BY <1>1, <1>5, <2>1
  <2> QED  BY <1>1, <1>3, <1>5, <2>2
<1> QED  BY <1>2, <1>4, <1>5

(* The tokens of the bytes from i on are those bytes, cut: at[k] is where  *)
(* the k-th begins.                                                        *)
CutsFrom(buf, i, tokens, at) ==
  /\ at \in [1..Len(tokens) + 1 -> 1..Len(buf) + 1]
  /\ at[1] = i /\ at[Len(tokens) + 1] = Len(buf) + 1
  /\ \A k \in 1..Len(tokens) :
       /\ at[k] < at[k + 1]
       /\ tokens[k] = TokenAt(buf, at[k])
       /\ tokens[k].bytes = SubSeq(buf, at[k], at[k + 1] - 1)

LEMMA OneCutMore ==
  ASSUME NEW buf \in Seq(Nat), NEW i \in 1..Len(buf), NEW next \in 1..Len(buf) + 1,
         next = i + Len(TokenAt(buf, i).bytes),
         NEW rest \in Seq(Tokens), NEW at, CutsFrom(buf, next, rest, at)
  PROVE  \E first : CutsFrom(buf, i, <<TokenAt(buf, i)>> \o rest, first)
<1> DEFINE t == TokenAt(buf, i)
           n == Len(rest)
           last == Len(buf) + 1
           tokens == <<t>> \o rest
           first == [k \in 1..n+2 |-> IF k = 1 THEN i ELSE at[k - 1]]
<1>1. n \in Nat /\ Len(buf) \in Nat /\ i \in 1..last /\ i \in Nat /\ next \in Nat
  OBVIOUS
<1>2. t \in Tokens /\ i < next /\ t.bytes = SubSeq(buf, i, next - 1)
  BY <1>1, TokenTypes, TokensAreSlices
<1>3. /\ at \in [1..n+1 -> 1..last] /\ at[1] = next /\ at[n + 1] = last
      /\ \A k \in 1..n : /\ at[k] < at[k + 1] /\ rest[k] = TokenAt(buf, at[k])
                         /\ rest[k].bytes = SubSeq(buf, at[k], at[k + 1] - 1)
  BY DEF CutsFrom
<1> HIDE DEF t
<1>4. Len(tokens) = n + 1 /\ tokens[1] = t /\ \A k \in 2..n+1 : tokens[k] = rest[k - 1]
  BY <1>1, <1>2
<1> HIDE DEF n, last, tokens
<1>5. /\ first \in [1..n+2 -> 1..last]
      /\ first[1] = i /\ \A k \in 2..n+2 : first[k] = at[k - 1]
  <2>1. \A k \in 1..n+2 : k \in 2..n+2 => k # 1 /\ k - 1 \in 1..n+1
    BY <1>1
  <2>2. \A k \in 1..n+2 : k # 1 => k \in 2..n+2
    BY <1>1
  <2>3. 1 \in 1..n+2 /\ \A k \in 2..n+2 : k \in 1..n+2
    BY <1>1
  <2> QED  BY <1>1, <1>3, <2>1, <2>2, <2>3
<1> HIDE DEF first
<1>6. first[2] = next /\ first[n + 2] = last
  BY <1>1, <1>3, <1>5
<1>7. ASSUME NEW k \in 1..n+1
      PROVE  /\ first[k] < first[k + 1] /\ tokens[k] = TokenAt(buf, first[k])
             /\ tokens[k].bytes = SubSeq(buf, first[k], first[k + 1] - 1)
  <2>1. CASE k = 1
    <3>1. first[k] = i /\ first[k + 1] = next /\ tokens[k] = t
      BY <1>4, <1>5, <1>6, <2>1
    <3> QED  BY <1>2, <3>1 DEF t
  <2>2. CASE k # 1
    <3>1. k \in 2..n+1 /\ k + 1 \in 2..n+2 /\ k \in 2..n+2 /\ k - 1 \in 1..n /\ (k + 1) - 1 = (k - 1) + 1
      BY <1>1, <2>2
    <3>2. first[k] = at[k - 1] /\ first[k + 1] = at[(k + 1) - 1] /\ tokens[k] = rest[k - 1]
      BY <1>4, <1>5, <3>1
    <3>3. /\ at[k - 1] < at[(k - 1) + 1] /\ rest[k - 1] = TokenAt(buf, at[k - 1])
          /\ rest[k - 1].bytes = SubSeq(buf, at[k - 1], at[(k - 1) + 1] - 1)
      BY <1>3, <3>1
    <3> QED  BY <3>1, <3>2, <3>3
  <2> QED  BY <2>1, <2>2
<1>8. n + 1 + 1 = n + 2
  BY <1>1
<1>9. CutsFrom(buf, i, tokens, first)
  BY <1>4, <1>5, <1>6, <1>7, <1>8 DEF CutsFrom, last
<1> QED  BY <1>9 DEF tokens, t

(* parse_input passes over no byte of a read and reads none twice: its     *)
(* tokens, which are not empty, lie end to end from the first byte to the  *)
(* last, and what each of them means is decided at the place it begins.    *)
THEOREM EveryByteIsRead ==
  \A buf \in Seq(Nat) : \E at : CutsFrom(buf, 1, parse_input(buf), at)
<1> SUFFICES ASSUME NEW buf \in Seq(Nat)
             PROVE  \E at : CutsFrom(buf, 1, parse_input(buf), at)
  OBVIOUS
<1> DEFINE n == Len(buf)
           g == CHOOSE g : Parses(buf, 1, g)
           S == {i \in 1..n+1 : \E at : CutsFrom(buf, i, g[i], at)}
<1>1. n \in Nat /\ n + 1 - n = 1
  OBVIOUS
<1>2. parse_input(buf) = g[1]
  BY DEF parse_input, Parses
<1>3. Parses(buf, 1, g)
  <2>1. \E f : Parses(buf, n + 1 - n, f)
    BY <1>1, ParseExists
  <2> QED  BY <1>1, <2>1
<1> HIDE DEF g
<1>4. /\ \A i \in 1..n+1 : g[i] \in Seq(Tokens)
      /\ \A i \in 1..n : g[i] = <<TokenAt(buf, i)>> \o g[i + Len(TokenAt(buf, i).bytes)]
      /\ g[n + 1] = <<>>
  <2>1. \A i \in 1..n+1 : g[i] = IF i > n THEN <<>>
                                 ELSE <<TokenAt(buf, i)>> \o g[i + Len(TokenAt(buf, i).bytes)]
    BY <1>3 DEF Parses
  <2>2. n + 1 > n /\ n + 1 \in 1..n+1 /\ \A i \in 1..n : ~(i > n) /\ i \in 1..n+1
    BY <1>1
  <2> HIDE DEF n
  <2> QED  BY <1>3, <2>1, <2>2, ParseTypes DEF n
<1>5. n + 1 \in S
  <2> DEFINE at == [k \in 1..1 |-> n + 1]
  <2>1. at \in [1..0+1 -> 1..n+1] /\ at[1] = n + 1 /\ at[0 + 1] = n + 1
    BY <1>1
  <2> HIDE DEF at
  <2>2. Len(g[n + 1]) = 0
    BY <1>4
  <2>3. CutsFrom(buf, n + 1, g[n + 1], at)
    BY <2>1, <2>2 DEF CutsFrom
  <2> QED  BY <1>1, <2>3
<1>6. ASSUME NEW i \in 1..n, \A j \in i+1..n+1 : j \in S  PROVE  i \in S
  <2> DEFINE next == i + Len(TokenAt(buf, i).bytes)
  <2>1. next \in i+1..n+1 /\ next \in 1..n+1 /\ i \in 1..n+1
    BY <1>1, TokenTypes
  <2>2. next \in S /\ g[next] \in Seq(Tokens) /\ g[i] = <<TokenAt(buf, i)>> \o g[next]
    BY <1>4, <1>6, <2>1
  <2>3. PICK at : CutsFrom(buf, next, g[next], at)
    BY <2>2
  <2>4. \E first : CutsFrom(buf, i, <<TokenAt(buf, i)>> \o g[next], first)
    <3> HIDE DEF S
    <3> QED  BY <2>1, <2>2, <2>3, OneCutMore
  <2> QED  BY <2>1, <2>2, <2>4
<1> HIDE DEF S
<1>7. \A i \in 1..n+1 : i \in S
  <2> HIDE DEF n
  <2> QED  BY <1>1, <1>5, <1>6, BackwardInduction
<1>8. 1 \in S
  BY <1>1, <1>7
<1> QED  BY <1>2, <1>8 DEF S

-----------------------------------------------------------------------------
(* The secret is a text that fits the page, and what one input, and then   *)
(* all inputs of a read, make of it.                                       *)

Decisions == {"Enter", "Escape", "Cc"}
Events == {"None", "UserOk", "UserAbort", "UserNotOk"}
Heard == [secret : Seq(Seq(Nat)), event : Events]

IsText(s) ==
  /\ s \in Seq(Seq(Nat))
  /\ \A i \in 1..Len(s) : WellFormed(s[i])
  /\ Len(FlattenSeq(s)) <= Capacity

LEMMA NoText == IsText(<<>>)
<1>1. FlattenSeq(<<>>) = <<>>
  BY DEF FlattenSeq
<1> QED  BY <1>1, SizesAssumption DEF IsText

LEMMA TextGrows ==
  ASSUME NEW s, IsText(s), NEW c \in Seq(Nat), WellFormed(c),
         Len(FlattenSeq(s)) + Len(c) <= Capacity
  PROVE  IsText(Append(s, c))
<1> DEFINE t == Append(s, c)
<1>1. /\ s \in Seq(Seq(Nat)) /\ t \in Seq(Seq(Nat)) /\ Len(t) = Len(s) + 1 /\ Len(s) \in Nat
      /\ t[Len(s) + 1] = c /\ \A i \in 1..Len(s) : t[i] = s[i]
  BY DEF IsText
<1>2. FlattenSeq(s) \in Seq(Nat) /\ FlattenSeq(t) = FlattenSeq(s) \o c
  BY <1>1, FlattenOneMore
<1> HIDE DEF t
<1>3. Len(FlattenSeq(t)) = Len(FlattenSeq(s)) + Len(c)
  BY <1>2
<1>4. \A i \in 1..Len(t) : WellFormed(t[i])
  <2> TAKE i \in 1..Len(t)
  <2>1. CASE i \in 1..Len(s)
    BY <1>1, <2>1 DEF IsText
  <2>2. CASE i = Len(s) + 1
    BY <1>1, <2>2
  <2> QED  BY <1>1, <2>1, <2>2
<1> QED  BY <1>1, <1>3, <1>4 DEF IsText, t

LEMMA FrontAndLast ==
  ASSUME NEW A, NEW s \in Seq(A), s # <<>>
  PROVE  /\ Len(s) \in Nat /\ Len(s) > 0 /\ s[Len(s)] \in A
         /\ Front(s) \in Seq(A) /\ Len(Front(s)) = Len(s) - 1
         /\ \A i \in 1..Len(s)-1 : Front(s)[i] = s[i]
         /\ s = Append(Front(s), s[Len(s)])
<1>1. Len(s) \in Nat /\ Len(s) > 0
  OBVIOUS
<1>2. s[Len(s)] \in A
  BY <1>1
<1> DEFINE n == Len(s) - 1
           f == SubSeq(s, 1, n)
<1>3. n \in Nat /\ Len(s) = n + 1 /\ Front(s) = f
  BY <1>1 DEF Front
<1> HIDE DEF n
<1>4. f \in Seq(A) /\ Len(f) = n
  BY <1>3
<1>5. \A i \in 1..n : f[i] = s[i]
  BY <1>3
<1> HIDE DEF f
<1>6. s = Append(f, s[Len(s)])
  <2> DEFINE c == s[Len(s)]
             t == Append(f, c)
  <2>1. t \in Seq(A) /\ Len(t) = n + 1 /\ t[n + 1] = c /\ \A i \in 1..n : t[i] = f[i]
    BY <1>2, <1>3, <1>4
  <2>2. \A i \in 1..n + 1 : t[i] = s[i]
    <3> TAKE i \in 1..n + 1
    <3>1. i \in 1..n \/ i = n + 1
      BY <1>3
    <3> HIDE DEF t
    <3> QED  BY <1>3, <1>5, <2>1, <3>1
  <2> HIDE DEF t
  <2>3. s = t
    BY <1>3, <2>1, <2>2
  <2> QED  BY <2>3 DEF t
<1> QED  BY <1>1, <1>2, <1>3, <1>4, <1>5, <1>6 DEF n

LEMMA TextShrinks ==
  ASSUME NEW s, IsText(s), s # <<>>
  PROVE  IsText(Front(s)) /\ Len(Front(s)) = Len(s) - 1
<1> DEFINE f == Front(s)
           c == s[Len(s)]
<1>1. s \in Seq(Seq(Nat))
  BY DEF IsText
<1>2. /\ Len(s) \in Nat /\ Len(s) > 0 /\ c \in Seq(Nat)
      /\ f \in Seq(Seq(Nat)) /\ Len(f) = Len(s) - 1 /\ \A i \in 1..Len(s)-1 : f[i] = s[i]
  BY <1>1, FrontAndLast
<1>3. s = Append(f, c)
  BY <1>1, FrontAndLast
<1> HIDE DEF f, c
<1>4. FlattenSeq(f) \in Seq(Nat) /\ FlattenSeq(s) = FlattenSeq(f) \o c
  BY <1>2, <1>3, FlattenOneMore
<1>5. Len(FlattenSeq(f)) \in Nat /\ Len(FlattenSeq(f)) <= Len(FlattenSeq(s))
      /\ Len(FlattenSeq(s)) \in Nat
  BY <1>2, <1>4
<1>6. Len(FlattenSeq(f)) <= Capacity
  BY <1>5, SizesAssumption DEF IsText
<1>7. \A i \in 1..Len(f) : WellFormed(f[i])
  BY <1>1, <1>2 DEF IsText
<1> QED  BY <1>2, <1>6, <1>7 DEF IsText, f

LEMMA EditTypes ==
  ASSUME NEW s, IsText(s), NEW t \in Tokens, t.kind \notin Decisions
  PROVE  IsText(Edited(s, t)) /\ (t.kind = "Unknown" => Edited(s, t) = s)
<1>1. t.kind \in Kinds /\ t.bytes \in Seq(Nat) /\ (t.kind = "Codepoint" => WellFormed(t.bytes))
  BY DEF Tokens
<1>2. CASE mode # "GetPin" \/ t.kind = "Unknown"
  <2>1. Edited(s, t) = s
    BY <1>2 DEF Edited
  <2> QED  BY <2>1
<1>3. CASE mode = "GetPin" /\ t.kind = "Codepoint"
  <2>1. Edited(s, t) = IF Len(FlattenSeq(s)) + Len(t.bytes) <= Capacity THEN Append(s, t.bytes) ELSE s
    BY <1>3 DEF Edited
  <2> QED  BY <1>1, <1>3, <2>1, TextGrows
<1>4. CASE mode = "GetPin" /\ t.kind = "Backspace"
  <2>1. Edited(s, t) = IF s = <<>> THEN s ELSE Front(s)
    BY <1>4 DEF Edited
  <2> QED  BY <1>4, <2>1, TextShrinks
<1>5. CASE mode = "GetPin" /\ t.kind \in {"Cu", "Cw", "CBackspace"}
  <2>1. Edited(s, t) = <<>>
    BY <1>5 DEF Edited
  <2> QED  BY <1>5, <2>1, NoText
<1> QED  BY <1>1, <1>2, <1>3, <1>4, <1>5 DEF Kinds, Decisions

(* One input: nothing behind a decision counts, a decision decides, and    *)
(* what is no text and no key leaves the secret alone.                     *)
LEMMA InputTypes ==
  ASSUME NEW acc \in Heard, IsText(acc.secret), NEW t \in Tokens
  PROVE  LET after == HandleInput(acc, t)
         IN /\ after \in Heard /\ IsText(after.secret)
            /\ acc.event # "None" => after = acc
            /\ t.kind \in Decisions => after.event # "None"
            /\ t.kind = "Unknown" => after.secret = acc.secret
<1> DEFINE after == HandleInput(acc, t)
<1>1. CASE acc.event # "None"
  BY <1>1 DEF HandleInput
<1>2. CASE acc.event = "None" /\ t.kind \in Decisions
  <2>1. \E e \in Events \ {"None"} : after = [acc EXCEPT !.event = e]
    <3>1. CASE t.kind = "Enter"
      <4>1. after = [acc EXCEPT !.event = "UserOk"]
        BY <1>2, <3>1 DEF HandleInput
      <4> QED  BY <4>1 DEF Events
    <3>2. CASE t.kind = "Escape"
      <4>1. after = [acc EXCEPT !.event = "UserAbort"]
        BY <1>2, <3>2 DEF HandleInput
      <4> QED  BY <4>1 DEF Events
    <3>3. CASE t.kind = "Cc"
      <4>1. after = [acc EXCEPT !.event = NotOkEvent]
        BY <1>2, <3>3 DEF HandleInput
      <4>2. NotOkEvent \in Events \ {"None"}
        BY DEF Events, NotOkEvent
      <4> HIDE DEF after
      <4> QED  BY <4>1, <4>2
    <3> QED  BY <1>2, <3>1, <3>2, <3>3 DEF Decisions
  <2> HIDE DEF after
  <2>2. after \in Heard /\ after.secret = acc.secret /\ after.event # "None"
    BY <2>1 DEF Heard
  <2> QED  BY <1>2, <2>2 DEF after
<1>3. CASE acc.event = "None" /\ t.kind \notin Decisions
  <2>1. after = [acc EXCEPT !.secret = Edited(acc.secret, t)]
    BY <1>3 DEF HandleInput, Decisions
  <2>2. IsText(Edited(acc.secret, t)) /\ (t.kind = "Unknown" => Edited(acc.secret, t) = acc.secret)
    BY <1>3, EditTypes
  <2> HIDE DEF after
  <2>3. after \in Heard /\ after.secret = Edited(acc.secret, t)
    BY <2>1, <2>2 DEF Heard, IsText
  <2> QED  BY <1>3, <2>2, <2>3 DEF after
<1> QED  BY <1>1, <1>2, <1>3

(* handle_event's loop is a fold: what it has made of the first i inputs,  *)
(* for each i.                                                             *)
Hearing == {acc \in Heard : IsText(acc.secret)}

LEMMA HeardOneByOne ==
  ASSUME NEW start \in Hearing, NEW ts \in Seq(Tokens)
  PROVE  \E h : /\ h[0] = start /\ \A i \in 0..Len(ts) : h[i] \in Hearing
                /\ \A i \in 1..Len(ts) : h[i] = HandleInput(h[i-1], ts[i])
                /\ FoldLeft(HandleInput, start, ts) = h[Len(ts)]
<1> DEFINE n == Len(ts)
           F == [x \in Hearing \X (1..n) |-> HandleInput(x[1], ts[x[2]])]
           Unfolds(g) == g = [s \in SUBSET (1..n) |->
                               IF s = {} THEN start ELSE HandleInput(g[s \ {Max(s)}], ts[Max(s)])]
           g == CHOOSE g : Unfolds(g)
           h == [i \in 0..n |-> g[1..i]]
<1>1. n \in Nat /\ DOMAIN ts = 1..n /\ \A i \in 1..n : ts[i] \in Tokens
  OBVIOUS
<1>2. FoldLeft(HandleInput, start, ts) = g[1..n]
  BY <1>1 DEF FoldLeft, MapThenFoldSet
<1> HIDE DEF n
<1>3. \A acc \in Hearing : \A i \in 1..n : HandleInput(acc, ts[i]) \in Hearing
  BY <1>1, InputTypes DEF Hearing
<1>4. F \in [Hearing \X (1..n) -> Hearing]
  BY <1>3
<1>5. \E f : Unfolds(f)
  <2>1. PICK f \in [SUBSET (1..n) -> Hearing] : FoldsTo(F, start, n, f)
    BY <1>1, <1>4, FoldExists
  <2>2. ASSUME NEW s \in SUBSET (1..n)
        PROVE  f[s] = IF s = {} THEN start ELSE HandleInput(f[s \ {Max(s)}], ts[Max(s)])
    <3>1. f[s] = IF s = {} THEN start ELSE F[<<f[s \ {Max(s)}], Max(s)>>]
      BY <2>1 DEF FoldsTo
    <3>2. CASE s # {}
      <4>1. Max(s) \in 1..n
        <5>1. s \in SUBSET Nat /\ \A x \in s : x <= n
          BY <1>1
        <5>2. Max(s) \in s
          BY <1>1, <3>2, <5>1, GreatestOf
        <5> QED  BY <5>2
      <4>2. f[s \ {Max(s)}] \in Hearing
        OBVIOUS
      <4> QED  BY <3>1, <3>2, <4>1, <4>2
    <3> QED  BY <3>1, <3>2
  <2> QED  BY <2>2
<1>6. \A s \in SUBSET (1..n) : g[s] = IF s = {} THEN start ELSE HandleInput(g[s \ {Max(s)}], ts[Max(s)])
  <2>1. Unfolds(g)
    BY <1>5
  <2> HIDE DEF g
  <2> QED  BY <2>1
<1> HIDE DEF g
<1>7. h[0] = start
  <2>1. 1..0 = {} /\ {} \in SUBSET (1..n) /\ 0 \in 0..n
    BY <1>1
  <2> QED  BY <1>6, <2>1
<1>8. ASSUME NEW i \in 1..n  PROVE  h[i] = HandleInput(h[i-1], ts[i])
  <2>1. i \in 0..n /\ i - 1 \in 0..n /\ 1..i \in SUBSET (1..n) /\ 1..i # {}
        /\ Max(1..i) = i /\ (1..i) \ {i} = 1..i-1
    BY <1>1, FirstIndices
  <2>2. g[1..i] = HandleInput(g[1..i-1], ts[i])
    BY <1>6, <2>1
  <2> QED  BY <2>1, <2>2
<1>9. h[n] = g[1..n]
  BY <1>1
<1> HIDE DEF h, F
<1>10. \A i \in Nat : i <= n => h[i] \in Hearing
  <2> DEFINE S == {i \in Nat : i <= n => h[i] \in Hearing}
  <2>1. 0 \in S
    BY <1>7
  <2>2. \A i \in Nat : i \in S => i + 1 \in S
    <3> SUFFICES ASSUME NEW i \in Nat, i \in S, i + 1 <= n  PROVE  h[i + 1] \in Hearing
      OBVIOUS
    <3>1. i + 1 \in 1..n /\ (i + 1) - 1 = i /\ i <= n
      BY <1>1
    <3> QED  BY <1>3, <1>8, <3>1
  <2> HIDE DEF S
  <2>3. \A i \in Nat : i \in S
    BY <2>1, <2>2, SetInduction
  <2> QED  BY <2>3 DEF S
<1>11. \A i \in 0..n : h[i] \in Hearing
  BY <1>1, <1>10
<1> QED  BY <1>2, <1>7, <1>8, <1>9, <1>11 DEF n

(* A whole read.  If it neither decided nor edited, the secret is the one  *)
(* there was.                                                              *)
LEMMA ReadIsHeard ==
  ASSUME IsText(secret), NEW ts \in Seq(Tokens)
  PROVE  LET done == FoldLeft(HandleInput, [secret |-> secret, event |-> "None"], ts)
         IN /\ done \in Heard /\ IsText(done.secret)
            /\ mode = "GetPin" /\ done.event = "None" /\ Edits(ts) = {} => done.secret = secret
<1> DEFINE start == [secret |-> secret, event |-> "None"]
<1>0. start \in Hearing
  BY DEF Hearing, Heard, Events, IsText
<1>1. PICK h : /\ h[0] = start /\ \A i \in 0..Len(ts) : h[i] \in Hearing
               /\ \A i \in 1..Len(ts) : h[i] = HandleInput(h[i-1], ts[i])
               /\ FoldLeft(HandleInput, start, ts) = h[Len(ts)]
  BY <1>0, HeardOneByOne
<1>3. Len(ts) \in Nat /\ \A i \in 1..Len(ts) : ts[i] \in Tokens
  OBVIOUS
<1> HIDE DEF start
<1>5. \A i \in 0..Len(ts) : h[i] \in Heard /\ IsText(h[i].secret)
  BY <1>1 DEF Hearing
<1>6. ASSUME mode = "GetPin", h[Len(ts)].event = "None", Edits(ts) = {}
      PROVE  h[Len(ts)].secret = secret
  <2> DEFINE decisions == {i \in 1..Len(ts) : ts[i].kind \in {"Enter", "Escape", "Cc"}}
  <2>1. \A i \in 1..Len(ts) :
          /\ h[i-1].event # "None" => h[i].event # "None"
          /\ ts[i].kind \in Decisions => h[i].event # "None"
          /\ ts[i].kind = "Unknown" => h[i].secret = h[i-1].secret
    <3> TAKE i \in 1..Len(ts)
    <3>1. i - 1 \in 0..Len(ts)
      BY <1>3
    <3>2. h[i-1] \in Heard /\ IsText(h[i-1].secret) /\ ts[i] \in Tokens /\ h[i] = HandleInput(h[i-1], ts[i])
      BY <1>1, <1>3, <1>5, <3>1
    <3> QED  BY <3>2, InputTypes
  <2> DEFINE U == {n \in Nat : n <= Len(ts) => h[Len(ts) - n].event = "None"}
  <2>2. \A n \in Nat : n \in U
    <3>1. 0 \in U
      <4>1. Len(ts) - 0 = Len(ts)
        BY <1>3
      <4> QED  BY <1>6, <4>1
    <3>2. \A n \in Nat : n \in U => n + 1 \in U
      <4> SUFFICES ASSUME NEW n \in Nat, n \in U, n + 1 <= Len(ts)
                   PROVE  h[Len(ts) - (n + 1)].event = "None"
        OBVIOUS
      <4>1. Len(ts) - n \in 1..Len(ts) /\ (Len(ts) - n) - 1 = Len(ts) - (n + 1) /\ n <= Len(ts)
        BY <1>3
      <4>2. h[Len(ts) - n].event = "None"
        BY <4>1
      <4> QED  BY <2>1, <4>1, <4>2
    <3> HIDE DEF U
    <3> QED  BY <3>1, <3>2, SetInduction
  <2>3. \A i \in 0..Len(ts) : h[i].event = "None"
    <3> TAKE i \in 0..Len(ts)
    <3>1. Len(ts) - i \in Nat /\ Len(ts) - i <= Len(ts) /\ Len(ts) - (Len(ts) - i) = i
      BY <1>3
    <3> QED  BY <2>2, <3>1
  <2>4. decisions = {}
    <3>1. \A i \in 1..Len(ts) : ts[i].kind \notin Decisions
      BY <1>3, <2>1, <2>3
    <3> QED  BY <3>1 DEF Decisions
  <2>5. \A i \in 1..Len(ts) : ts[i].kind = "Unknown"
    BY <1>6, <2>4 DEF Edits
  <2> DEFINE V == {i \in Nat : i <= Len(ts) => h[i].secret = secret}
  <2>6. \A i \in Nat : i \in V
    <3>1. 0 \in V
      BY <1>1 DEF start
    <3>2. \A i \in Nat : i \in V => i + 1 \in V
      <4> SUFFICES ASSUME NEW i \in Nat, i \in V, i + 1 <= Len(ts)
                   PROVE  h[i + 1].secret = secret
        OBVIOUS
      <4>1. i + 1 \in 1..Len(ts) /\ (i + 1) - 1 = i /\ i <= Len(ts)
        BY <1>3
      <4> QED  BY <2>1, <2>5, <4>1
    <3> HIDE DEF V
    <3> QED  BY <3>1, <3>2, SetInduction
  <2> QED  BY <1>3, <2>6
<1>7. Len(ts) \in 0..Len(ts)
  BY <1>3
<1> QED  BY <1>1, <1>5, <1>6, <1>7 DEF start

LEMMA EditsAreHeard ==
  ASSUME IsText(secret), NEW ts \in Seq(Tokens), NEW i \in Edits(ts)
  PROVE  IsText(After(ts, i))
<1>1. i \in 1..Len(ts) /\ Len(ts) \in Nat
  <2> DEFINE decisions == {j \in 1..Len(ts) : ts[j].kind \in {"Enter", "Escape", "Cc"}}
             last == IF decisions = {} THEN Len(ts) ELSE Min(decisions) - 1
  <2>1. i \in 1..last /\ Len(ts) \in Nat
    BY DEF Edits
  <2>2. last \in Int /\ last <= Len(ts)
    <3>1. CASE decisions = {}
      BY <2>1, <3>1
    <3>2. CASE decisions # {}
      <4>1. decisions \in SUBSET Nat
        BY <2>1
      <4> HIDE DEF decisions
      <4>2. Min(decisions) \in decisions
        BY <3>2, <4>1, LeastOf
      <4>3. Min(decisions) \in 1..Len(ts)
        BY <4>2 DEF decisions
      <4> QED  BY <2>1, <3>2, <4>3
    <3> QED  BY <3>1, <3>2
  <2> HIDE DEF last
  <2> QED  BY <2>1, <2>2
<1>2. SubSeq(ts, 1, i) \in Seq(Tokens)
  BY <1>1
<1> QED  BY <1>2, ReadIsHeard DEF After

-----------------------------------------------------------------------------
(* What waits to be read: the bytes of the keys in the queue, without those *)
(* of the first key that a read has taken already.                         *)

QueueInv ==
  /\ queue \in Seq(UserKeys) /\ Len(queue) <= MaxKeys
  /\ split \in Nat /\ (split > 0 => queue # <<>> /\ split < Len(KeyBytes[queue[1]]))

BytesOf(i) == FlattenSeq([j \in 1..i |-> KeyBytes[queue[j]]])

LEMMA KeysHaveBytes ==
  ASSUME NEW k \in UserKeys
  PROVE  KeyBytes[k] \in Seq(Nat) /\ Len(KeyBytes[k]) \in Nat \ {0}
<1>1. k \in {"A", "Umlaut", "Latin1", "AltA", "Up", "PageUp", "Enter", "Escape", "Backspace",
             "CtrlC", "CtrlU", "CtrlW", "CtrlBackspace"}
  BY UserKeysAssumption DEF KeyBytes
<1>2. CASE k \in {"A", "Latin1", "Enter", "Escape", "Backspace", "CtrlC", "CtrlU", "CtrlW",
                  "CtrlBackspace"}
  <2>1. \E b \in {65, 196, 13, 27, 127, 3, 21, 23, 8} : KeyBytes[k] = <<b>>
    BY <1>2 DEF KeyBytes
  <2> QED  BY <2>1
<1>3. CASE k = "Umlaut"
  <2>1. KeyBytes[k] = <<195, 164>>
    BY <1>3 DEF KeyBytes
  <2> QED  BY <2>1
<1>4. CASE k = "AltA"
  <2>1. KeyBytes[k] = <<27, 65>>
    BY <1>4 DEF KeyBytes
  <2> QED  BY <2>1
<1>5. CASE k = "Up"
  <2>1. KeyBytes[k] = <<27, 91, 65>>
    BY <1>5 DEF KeyBytes
  <2> QED  BY <2>1
<1>6. CASE k = "PageUp"
  <2>1. KeyBytes[k] = <<27, 91, 53, 126>>
    BY <1>6 DEF KeyBytes
  <2> QED  BY <2>1
<1> QED  BY <1>1, <1>2, <1>3, <1>4, <1>5, <1>6

LEMMA NoBytes == BytesOf(0) = <<>>
<1>1. [j \in 1..0 |-> KeyBytes[queue[j]]] = <<>>
  OBVIOUS
<1> QED  BY <1>1 DEF BytesOf, FlattenSeq

LEMMA BytesAddUp ==
  ASSUME queue \in Seq(UserKeys), NEW i \in 0..Len(queue)
  PROVE  /\ BytesOf(i) \in Seq(Nat)
         /\ i < Len(queue) => /\ BytesOf(i + 1) = BytesOf(i) \o KeyBytes[queue[i + 1]]
                              /\ Len(BytesOf(i + 1)) = Len(BytesOf(i)) + Len(KeyBytes[queue[i + 1]])
<1> DEFINE first(n) == [j \in 1..n |-> KeyBytes[queue[j]]]
<1>1. Len(queue) \in Nat /\ i \in Nat /\ \A j \in 1..Len(queue) : queue[j] \in UserKeys
  OBVIOUS
<1>2. \A j \in 1..Len(queue) : KeyBytes[queue[j]] \in Seq(Nat)
  BY <1>1, KeysHaveBytes
<1>3. first(i) \in Seq(Seq(Nat)) /\ Len(first(i)) = i
  BY <1>1, <1>2
<1>4. ASSUME i < Len(queue)
      PROVE  /\ BytesOf(i + 1) = BytesOf(i) \o KeyBytes[queue[i + 1]]
             /\ Len(BytesOf(i + 1)) = Len(BytesOf(i)) + Len(KeyBytes[queue[i + 1]])
  <2> DEFINE e == KeyBytes[queue[i + 1]]
  <2>1. e \in Seq(Nat) /\ i + 1 \in 1..Len(queue)
    BY <1>1, <1>2, <1>4
  <2>2. first(i + 1) = Append(first(i), e)
    <3>1. first(i + 1) \in Seq(Seq(Nat)) /\ Len(first(i + 1)) = i + 1
      <4>1. i + 1 \in Nat /\ \A j \in 1..i + 1 : KeyBytes[queue[j]] \in Seq(Nat)
        BY <1>1, <1>2, <1>4
      <4> QED  BY <4>1
    <3>2. Append(first(i), e) \in Seq(Seq(Nat)) /\ Len(Append(first(i), e)) = i + 1
      BY <1>1, <1>3, <2>1
    <3>3. \A j \in 1..i + 1 : first(i + 1)[j] = Append(first(i), e)[j]
      <4> TAKE j \in 1..i + 1
      <4>1. first(i + 1)[j] = KeyBytes[queue[j]]
        OBVIOUS
      <4>2. CASE j = i + 1
        <5>1. Append(first(i), e)[i + 1] = e
          BY <1>1, <1>3
        <5> QED  BY <4>1, <4>2, <5>1
      <4>3. CASE j # i + 1
        <5>1. j \in 1..i
          BY <1>1, <4>3
        <5>2. Append(first(i), e)[j] = first(i)[j]
          BY <1>3, <5>1
        <5>3. first(i)[j] = KeyBytes[queue[j]]
          BY <5>1
        <5> QED  BY <4>1, <5>2, <5>3
      <4> QED  BY <4>2, <4>3
    <3> HIDE DEF first
    <3> QED  BY <3>1, <3>2, <3>3
  <2> HIDE DEF first, e
  <2>3. FlattenSeq(first(i)) \in Seq(Nat) /\ FlattenSeq(first(i + 1)) = FlattenSeq(first(i)) \o e
    BY <1>3, <2>1, <2>2, FlattenOneMore
  <2>4. Len(FlattenSeq(first(i + 1))) = Len(FlattenSeq(first(i))) + Len(e)
    BY <2>1, <2>3
  <2> QED  BY <2>3, <2>4 DEF BytesOf, first, e
<1> DEFINE none == <<>>
<1>5. none \in Seq(Nat)
  OBVIOUS
<1> HIDE DEF first
<1>6. FlattenSeq(first(i)) \in Seq(Nat)
  BY <1>3, <1>5, FlattenOneMore
<1> QED  BY <1>4, <1>6 DEF BytesOf, first

LEMMA WaitingTypes ==
  ASSUME QueueInv
  PROVE  /\ BytesOf(Len(queue)) \in Seq(Nat) /\ Waiting \in Seq(Nat)
         /\ Len(Waiting) = Len(BytesOf(Len(queue))) - split
<1> DEFINE b == BytesOf(Len(queue))
<1>1. queue \in Seq(UserKeys) /\ Len(queue) \in Nat /\ split \in Nat
  BY DEF QueueInv
<1>2. b \in Seq(Nat) /\ Len(b) \in Nat
  BY <1>1, BytesAddUp
<1>3. Waiting = SubSeq(b, split + 1, Len(b))
  BY DEF Waiting, BytesOf
<1>4. split <= Len(b)
  <2>1. CASE split = 0
    BY <1>2, <2>1
  <2>2. CASE split > 0
    <3> DEFINE S == {m \in Nat : m + 1 <= Len(queue) => split <= Len(BytesOf(m + 1))}
    <3>0. \A i \in 0..Len(queue) : BytesOf(i) \in Seq(Nat) /\ Len(BytesOf(i)) \in Nat
      BY <1>1, BytesAddUp
    <3>1. 0 \in S
      <4>1. Len(queue) > 0 /\ split < Len(KeyBytes[queue[1]]) /\ queue[1] \in UserKeys
        BY <1>1, <2>2 DEF QueueInv
      <4>2. Len(BytesOf(0)) = 0
        BY NoBytes
      <4>3. Len(BytesOf(0 + 1)) = Len(BytesOf(0)) + Len(KeyBytes[queue[0 + 1]])
        BY <1>1, <4>1, BytesAddUp
      <4>4. Len(KeyBytes[queue[1]]) \in Nat
        BY <4>1, KeysHaveBytes
      <4> QED  BY <1>1, <4>1, <4>2, <4>3, <4>4
    <3>2. \A m \in Nat : m \in S => m + 1 \in S
      <4> SUFFICES ASSUME NEW m \in Nat, m \in S, (m + 1) + 1 <= Len(queue)
                   PROVE  split <= Len(BytesOf((m + 1) + 1))
        OBVIOUS
      <4>1. m + 1 \in 0..Len(queue) /\ m + 1 < Len(queue) /\ (m + 1) + 1 \in 1..Len(queue)
        BY <1>1
      <4>2. Len(BytesOf((m + 1) + 1)) = Len(BytesOf(m + 1)) + Len(KeyBytes[queue[(m + 1) + 1]])
        BY <1>1, <4>1, BytesAddUp
      <4>3. Len(KeyBytes[queue[(m + 1) + 1]]) \in Nat
        <5>1. queue[(m + 1) + 1] \in UserKeys
          BY <1>1, <4>1
        <5> QED  BY <5>1, KeysHaveBytes
      <4>4. split <= Len(BytesOf(m + 1)) /\ Len(BytesOf(m + 1)) \in Nat
        BY <3>0, <4>1
      <4> DEFINE l == Len(BytesOf(m + 1))
                 x == Len(KeyBytes[queue[(m + 1) + 1]])
                 r == Len(BytesOf((m + 1) + 1))
      <4>5. split \in Nat /\ l \in Nat /\ x \in Nat /\ r = l + x /\ split <= l
        BY <1>1, <4>2, <4>3, <4>4
      <4> HIDE DEF l, x, r
      <4>6. split <= r
        BY <4>5
      <4> QED  BY <4>6 DEF r
    <3> HIDE DEF S
    <3>3. \A m \in Nat : m \in S
      BY <3>1, <3>2, SetInduction
    <3>4. Len(queue) - 1 \in Nat /\ (Len(queue) - 1) + 1 = Len(queue)
      BY <1>1, <2>2 DEF QueueInv
    <3>5. Len(queue) - 1 \in S
      BY <3>3, <3>4
    <3>6. split <= Len(BytesOf((Len(queue) - 1) + 1))
      <4>1. (Len(queue) - 1) + 1 <= Len(queue)
        BY <1>1
      <4> QED  BY <3>5, <4>1 DEF S
    <3> QED  BY <3>4, <3>6
  <2> QED  BY <1>1, <2>1, <2>2
<1> HIDE DEF b
<1>5. SubSeq(b, split + 1, Len(b)) \in Seq(Nat) /\ Len(SubSeq(b, split + 1, Len(b))) = Len(b) - split
  BY <1>1, <1>2, <1>4
<1> QED  BY <1>2, <1>3, <1>5 DEF b

(* A read of n bytes ends between two keys or inside one, whose bytes it   *)
(* has then begun.                                                         *)
LEMMA ReadingKeepsQueue ==
  ASSUME QueueInv, NEW n \in 1..Len(Waiting), Consume(n)
  PROVE  QueueInv'
<1> DEFINE N == Len(queue)
           K == {i \in 1..N : KeyEnd(i) <= n}
           k == KeysRead(n)
<1>1. queue \in Seq(UserKeys) /\ N \in Nat /\ N <= MaxKeys /\ split \in Nat
  BY DEF QueueInv
<1>2. \A i \in 0..N : Len(BytesOf(i)) \in Nat /\ KeyEnd(i) = Len(BytesOf(i)) - split
  BY <1>1, BytesAddUp DEF KeyEnd, BytesOf
<1>3. Len(Waiting) = Len(BytesOf(N)) - split /\ n \in Nat /\ n > 0 /\ n <= Len(Waiting)
  <2>1. Len(Waiting) = Len(BytesOf(N)) - split /\ Len(BytesOf(N)) \in Nat
    BY <1>1, <1>2, WaitingTypes
  <2> QED  BY <1>1, <2>1
<1>4. k \in 0..N /\ (k # 0 => k \in K) /\ \A i \in K : i <= k
  <2> DEFINE S == {0} \cup K
  <2>1. S \in SUBSET Nat /\ S # {} /\ \A i \in S : i <= N
    BY <1>1
  <2>2. k = Max(S)
    BY DEF KeysRead
  <2>3. K \subseteq S /\ S \subseteq {0} \cup K /\ K \subseteq 1..N
    OBVIOUS
  <2> HIDE DEF S, K, k
  <2>4. k \in S /\ \A x \in S : x <= k
    BY <1>1, <2>1, <2>2, GreatestOf
  <2> QED  BY <1>1, <2>3, <2>4
<1>5. N > 0
  <2>1. CASE N = 0
    <3>1. Len(BytesOf(N)) = 0
      BY <2>1, NoBytes
    <3> QED  BY <1>1, <1>3, <3>1
  <2> QED  BY <1>1, <2>1
<1>6. queue' = SubSeq(queue, k + 1, N) /\ split' = IF k = 0 THEN split + n ELSE n - KeyEnd(k)
  BY DEF Consume
<1>7. k < N => KeyEnd(k + 1) > n
  <2> SUFFICES ASSUME k < N  PROVE  KeyEnd(k + 1) > n
    OBVIOUS
  <2>1. k + 1 \in 1..N /\ k + 1 \in 0..N /\ ~(k + 1 <= k)
    BY <1>1, <1>4
  <2>2. k + 1 \notin K
    BY <1>4, <2>1
  <2>3. Len(BytesOf(k + 1)) \in Nat /\ KeyEnd(k + 1) = Len(BytesOf(k + 1)) - split
    BY <1>2, <2>1
  <2> HIDE DEF k
  <2> QED  BY <1>1, <1>3, <2>1, <2>2, <2>3
<1>8. k # 0 => KeyEnd(k) <= n
  BY <1>4
<1>9. k < N => Len(BytesOf(k + 1)) = Len(BytesOf(k)) + Len(KeyBytes[queue[k + 1]])
               /\ Len(KeyBytes[queue[k + 1]]) \in Nat /\ queue[k + 1] \in UserKeys
               /\ Len(BytesOf(k + 1)) \in Nat /\ KeyEnd(k + 1) = Len(BytesOf(k + 1)) - split
  <2> SUFFICES ASSUME k < N  PROVE  Len(BytesOf(k + 1)) = Len(BytesOf(k)) + Len(KeyBytes[queue[k + 1]])
               /\ Len(KeyBytes[queue[k + 1]]) \in Nat /\ queue[k + 1] \in UserKeys
               /\ Len(BytesOf(k + 1)) \in Nat /\ KeyEnd(k + 1) = Len(BytesOf(k + 1)) - split
    OBVIOUS
  <2>1. k + 1 \in 1..N /\ k + 1 \in 0..N
    BY <1>1, <1>4
  <2>2. queue[k + 1] \in UserKeys
    BY <1>1, <2>1
  <2> QED  BY <1>1, <1>2, <1>4, <2>1, <2>2, BytesAddUp, KeysHaveBytes
<1>10. Len(BytesOf(k)) \in Nat /\ KeyEnd(k) = Len(BytesOf(k)) - split
  BY <1>2, <1>4
<1> HIDE DEF k, K
<1>11. queue' \in Seq(UserKeys) /\ Len(queue') = N - k /\ (k < N => queue'[1] = queue[k + 1])
  <2>1. CASE k = N
    <3>1. queue' = <<>>
      BY <1>1, <1>6, <2>1
    <3> QED  BY <1>1, <2>1, <3>1
  <2>2. CASE k < N
    BY <1>1, <1>4, <1>6, <2>2
  <2> QED  BY <1>1, <1>4, <2>1, <2>2
<1>12. split' \in Nat
  BY <1>1, <1>3, <1>6, <1>8, <1>10
<1>13. ASSUME split' > 0  PROVE  queue' # <<>> /\ split' < Len(KeyBytes[queue'[1]])
  <2>1. CASE k = N
    <3>1. split' = n - KeyEnd(N) /\ KeyEnd(N) <= n
      BY <1>1, <1>5, <1>6, <1>8, <2>1
    <3>2. KeyEnd(N) = Len(Waiting) /\ Len(BytesOf(N)) \in Nat
      BY <1>3, <1>10, <2>1
    <3> QED  BY <1>1, <1>3, <1>13, <3>1, <3>2
  <2>2. CASE k < N
    <3>1. queue' # <<>>
      BY <1>1, <1>4, <1>11, <2>2
    <3>2. queue'[1] = queue[k + 1]
      BY <1>11, <2>2
    <3>3. CASE k = 0
      <4>1. Len(BytesOf(k)) = 0
        BY <3>3, NoBytes
      <4> QED  BY <1>1, <1>3, <1>6, <1>7, <1>9, <2>2, <3>1, <3>2, <3>3, <4>1
    <3>4. CASE k # 0
      <4>1. split' = n - (Len(BytesOf(k)) - split)
        BY <1>6, <1>10, <3>4
      <4>2. (Len(BytesOf(k)) + Len(KeyBytes[queue[k + 1]])) - split > n
        <5>1. KeyEnd(k + 1) > n /\ KeyEnd(k + 1) = Len(BytesOf(k + 1)) - split
          BY <1>7, <1>9, <2>2
        <5>2. Len(BytesOf(k + 1)) = Len(BytesOf(k)) + Len(KeyBytes[queue[k + 1]])
          BY <1>9, <2>2
        <5>3. Len(BytesOf(k + 1)) - split > n
          BY <5>1
        <5> QED  BY <5>2, <5>3
      <4> DEFINE l == Len(BytesOf(k))
                 m == Len(KeyBytes[queue[k + 1]])
      <4>3. l \in Nat /\ m \in Nat /\ split' = n - (l - split) /\ (l + m) - split > n
        BY <1>9, <1>10, <2>2, <4>1, <4>2
      <4> HIDE DEF l, m
      <4>4. split' < m
        BY <1>1, <1>3, <4>3
      <4> QED  BY <3>1, <3>2, <4>4 DEF m
    <3> QED  BY <3>3, <3>4
  <2> QED  BY <1>1, <1>4, <2>1, <2>2
<1>14. Len(queue') <= MaxKeys
  BY <1>1, <1>4, <1>11, SizesAssumption
<1> QED  BY <1>11, <1>12, <1>13, <1>14 DEF QueueInv

-----------------------------------------------------------------------------
(* Everything a prompt keeps.                                              *)

Places ==
  /\ fate \in {"running", "ok", "failed", "killed"}
  /\ pc \in {"start", "idle", "entered", "prompt", "answered", "unregister", "close"}
  /\ isTty \in BOOLEAN
  /\ termios \in Settings \cup {"raw"}
  /\ guard \in Settings \cup {Absent}
  /\ mode \in {"None", "GetPin", "Message"}
  /\ labels \in LabelSets
  /\ rows \in Heights /\ height \in Heights

TextInv == IsText(secret) /\ event \in Events /\ QueueInv
ScreenInv == screen.stars \in 0..Squares /\ screen.stale \in BOOLEAN /\ StarsAreCurrent

PlacesInv == DeviceInv /\ Places
TerminalInv == PlacesInv /\ TextInv /\ ScreenInv

LEMMA SmallerOf ==
  ASSUME NEW a \in Nat, NEW b \in Nat
  PROVE  Min({a, b}) = IF a <= b THEN a ELSE b
<1>1. {a, b} \in SUBSET Nat /\ {a, b} # {}
  OBVIOUS
<1>2. Min({a, b}) \in {a, b} /\ \A x \in {a, b} : Min({a, b}) <= x
  BY <1>1, LeastOf
<1> QED  BY <1>2

LEMMA TextLength ==
  ASSUME NEW s, IsText(s)
  PROVE  Len(s) \in Nat /\ Min({Squares, Len(s)}) \in 0..Squares
<1>1. Len(s) \in Nat /\ Squares \in Nat
  BY SizesAssumption DEF IsText
<1> QED  BY <1>1, SmallerOf

LEMMA StarsDrawn ==
  ASSUME height' \in Heights, NEW s, IsText(s)
  PROVE  /\ Picture(s).stars \in 0..Squares /\ Picture(s).stale = FALSE
         /\ height' >= 5 => Picture(s).stars = Min({Squares, Len(s)})
<1>1. height' \in Nat /\ Squares \in Nat
  BY SizesAssumption
<1>2. CASE height' < 5
  <2>1. Picture(s).stars = 0 /\ Picture(s).stale = FALSE
    BY <1>2 DEF Picture, Blank
  <2> QED  BY <1>1, <1>2, <2>1
<1>3. CASE ~(height' < 5)
  <2>1. Picture(s).stars = Min({Squares, Len(s)}) /\ Picture(s).stale = FALSE
    BY <1>3 DEF Picture
  <2> QED  BY <2>1, TextLength
<1> QED  BY <1>2, <1>3

LEMMA PlacesInit == Init => PlacesInv
BY DeviceInit DEF Init, PlacesInv, Places

LEMMA PlacesStep == PlacesInv /\ [Next]_vars => PlacesInv'
<1> SUFFICES ASSUME PlacesInv, [Next]_vars  PROVE Places'
  BY DeviceStep DEF PlacesInv
<1> USE DEF Places, At
<1>0. Places /\ DeviceInv
  BY DEF PlacesInv
<1>1. CASE UNCHANGED vars
  BY <1>0, <1>1 DEF vars
<1>2. ASSUME NEW k \in UserKeys, Press(k)  PROVE Places'
  BY <1>0, <1>2 DEF Press, device, prompt
<1>3. ASSUME NEW s \in Settings, ChangeSettings(s)  PROVE Places'
  BY <1>0, <1>3 DEF ChangeSettings, prompt
<1>4. ASSUME NEW h \in Heights, Resize(h)  PROVE Places'
  BY <1>0, <1>4 DEF Resize, device, prompt
<1>5. CASE Signal
  BY <1>0, <1>5 DEF Signal, prompt, DeviceInv
<1>6. CASE OpenTty
  BY <1>0, <1>6 DEF OpenTty, prompt
<1>7. ASSUME NEW m \in {"GetPin", "Message"}, NEW ls \in LabelSets, EnterMode(m, ls)  PROVE Places'
  <2>1. termios \in Settings
    BY <1>7 DEF EnterMode, PlacesInv, DeviceInv, RunningDevice, InRawMode
  <2> QED  BY <1>0, <1>7, <2>1 DEF EnterMode, RawTtySaves
<1>8. ASSUME FailAndDrop, UNCHANGED <<pc, prompt, rows>>  PROVE Places'
  BY <1>0, <1>8 DEF FailAndDrop, prompt
<1>9. CASE EnterModeFails \/ ReadFails
  BY <1>8, <1>9 DEF EnterModeFails, ReadFails
<1>10. CASE FirstRender
  <2>1. CASE pc' = "prompt" /\ UNCHANGED <<fate, device>>
    BY <1>0, <1>10, <2>1 DEF FirstRender, device, prompt
  <2>2. CASE FailAndDrop /\ UNCHANGED <<pc, screen>>
    BY <1>8, <1>10, <2>2 DEF FirstRender
  <2> QED  BY <1>10, <2>1, <2>2 DEF FirstRender
<1>11. ASSUME NEW n \in 1..ReadSize, HandleEvent(n)  PROVE Places'
  <2>1. pc' \in {"prompt", "answered"} /\ UNCHANGED <<fate, device, prompt, rows>>
    BY <1>11 DEF HandleEvent
  <2> QED  BY <1>0, <2>1 DEF device, prompt
<1>12. CASE LeaveMode
  <2>1. guard \in Settings
    BY <1>12 DEF LeaveMode, PlacesInv, DeviceInv, RunningDevice, InRawMode
  <2> QED  BY <1>0, <1>12, <2>1 DEF LeaveMode
<1>13. CASE Deinit \/ Unregister \/ CloseAndReturn
  BY <1>0, <1>13 DEF Deinit, Unregister, CloseAndReturn, device, prompt
<1> QED
  BY <1>1, <1>2, <1>3, <1>4, <1>5, <1>6, <1>7, <1>9, <1>10, <1>11, <1>12, <1>13 DEF Next

LEMMA QueueGrows ==
  ASSUME QueueInv, NEW k \in UserKeys, Press(k)
  PROVE  QueueInv'
<1>1. queue' = Append(queue, k) /\ split' = split /\ Len(queue) < MaxKeys
  BY DEF Press
<1>2. queue \in Seq(UserKeys) /\ split \in Nat /\ Len(queue) \in Nat /\ MaxKeys \in Nat
  BY SizesAssumption DEF QueueInv
<1>3. queue' \in Seq(UserKeys) /\ Len(queue') = Len(queue) + 1
  BY <1>1, <1>2
<1>4. Len(queue') <= MaxKeys
  BY <1>1, <1>2, <1>3
<1>5. ASSUME split' > 0  PROVE  queue' # <<>> /\ split' < Len(KeyBytes[queue'[1]])
  <2>1. queue # <<>> /\ split < Len(KeyBytes[queue[1]])
    BY <1>1, <1>5 DEF QueueInv
  <2>2. queue'[1] = queue[1] /\ queue' # <<>>
    BY <1>1, <1>2, <1>3, <2>1
  <2> QED  BY <1>1, <2>1, <2>2
<1> QED  BY <1>1, <1>2, <1>3, <1>4, <1>5 DEF QueueInv

LEMMA QueueEmptied ==
  ASSUME queue' = <<>>, split' = 0
  PROVE  QueueInv'
<1>1. queue' \in Seq(UserKeys) /\ Len(queue') = 0 /\ split' \in Nat /\ ~(split' > 0)
  OBVIOUS
<1> QED  BY <1>1, SizesAssumption DEF QueueInv

(* A read: the secret stays a text that fits the page, and if the user has *)
(* not decided, it was drawn or did not change.                            *)
LEMMA ReadKeeps ==
  ASSUME PlacesInv, TextInv, ScreenInv, height' \in Heights, NEW n \in 1..ReadSize, HandleEvent(n)
  PROVE  TextInv' /\ ScreenInv'
<1> DEFINE buf == SubSeq(Waiting, 1, n)
           ts == parse_input(buf)
           done == FoldLeft(HandleInput, [secret |-> secret, event |-> "None"], ts)
<1>0. At("prompt") /\ IsText(secret) /\ QueueInv /\ UNCHANGED <<fate, mode, height>>
  BY DEF HandleEvent, TextInv, prompt
<1>1. n \in 1..Len(Waiting) /\ buf \in Seq(Nat)
  <2>1. Waiting \in Seq(Nat) /\ Len(Waiting) \in Nat
    BY <1>0, WaitingTypes
  <2>2. n \in 1..Min({ReadSize, Len(Waiting)}) /\ ReadSize \in Nat
    BY SizesAssumption DEF HandleEvent
  <2>3. Min({ReadSize, Len(Waiting)}) = IF ReadSize <= Len(Waiting) THEN ReadSize ELSE Len(Waiting)
    BY <2>1, <2>2, SmallerOf
  <2>4. n \in 1..Len(Waiting)
    BY <2>1, <2>2, <2>3
  <2> QED  BY <2>1, <2>4, CutOut
<1>2. ts \in Seq(Tokens)
  BY <1>1, ParsedTokens
<1>3. /\ secret' = done.secret /\ event' = done.event
      /\ pc' = IF done.event = "None" THEN "prompt" ELSE "answered"
      /\ screen' \in Redraw(ts) /\ Consume(n)
  BY DEF HandleEvent
<1>4. /\ done \in Heard /\ IsText(done.secret)
      /\ mode = "GetPin" /\ done.event = "None" /\ Edits(ts) = {} => done.secret = secret
  BY <1>0, <1>2, ReadIsHeard
<1>5. QueueInv'
  BY <1>0, <1>1, <1>3, ReadingKeepsQueue
<1> HIDE DEF done, ts
<1>6. IsText(secret')
  BY <1>3, <1>4
<1>7. TextInv'
  <2>1. event' \in Events
    BY <1>3, <1>4 DEF Heard
  <2>2. IsText(secret)'
    BY <1>6 DEF IsText
  <2> QED  BY <1>5, <2>1, <2>2 DEF TextInv, Events
<1>8. CASE Edits(ts) = {}
  <2>1. screen' = screen /\ (mode = "GetPin" /\ done.event = "None" => secret' = secret)
    BY <1>3, <1>4, <1>8 DEF Redraw
  <2>2. StarsAreCurrent'
    <3> SUFFICES ASSUME pc' = "prompt", mode' = "GetPin", height' >= 5, ~screen'.stale
                 PROVE  screen'.stars = Min({Squares, Len(secret')})
      BY DEF StarsAreCurrent, At
    <3>1. secret' = secret
      BY <1>0, <1>3, <2>1
    <3>2. screen.stars = Min({Squares, Len(secret)})
      BY <1>0, <2>1 DEF ScreenInv, StarsAreCurrent
    <3> QED  BY <2>1, <3>1, <3>2
  <2> QED  BY <1>7, <2>1, <2>2 DEF ScreenInv
<1>9. CASE screen' = Rendered
  <2>1. /\ screen'.stars \in 0..Squares /\ screen'.stale = FALSE
        /\ height' >= 5 => screen'.stars = Min({Squares, Len(secret')})
    BY <1>6, <1>9, StarsDrawn DEF Rendered
  <2> QED  BY <1>7, <2>1 DEF ScreenInv, StarsAreCurrent
<1>10. CASE screen' \in Failed(ts)
  <2>1. PICK p \in {screen} \cup {Picture(After(ts, i)) : i \in Edits(ts)} :
          screen' = Stale(p)
    BY <1>10 DEF Failed
  <2>2. screen'.stars \in 0..Squares /\ screen'.stale = TRUE
    <3>1. p.stars \in 0..Squares
      <4>1. CASE p = screen
        BY <4>1 DEF ScreenInv
      <4>2. ASSUME NEW i \in Edits(ts), p = Picture(After(ts, i))  PROVE p.stars \in 0..Squares
        <5>1. IsText(After(ts, i))
          BY <1>0, <1>2, EditsAreHeard
        <5> QED  BY <4>2, <5>1, StarsDrawn
      <4> QED  BY <2>1, <4>1, <4>2
    <3> QED  BY <2>1, <3>1 DEF Stale
  <2> QED  BY <1>7, <2>2 DEF ScreenInv, StarsAreCurrent
<1> QED  BY <1>3, <1>8, <1>9, <1>10 DEF Redraw

LEMMA TerminalInit == Init => TerminalInv
<1> SUFFICES ASSUME Init  PROVE TerminalInv
  OBVIOUS
<1>1. TextInv
  <2>1. IsText(secret)
    BY NoText DEF Init
  <2>2. queue \in Seq(UserKeys) /\ Len(queue) = 0 /\ split = 0
    BY DEF Init
  <2> QED  BY <2>1, <2>2, SizesAssumption DEF Init, TextInv, QueueInv, Events
<1>2. ScreenInv
  BY SizesAssumption DEF Init, ScreenInv, StarsAreCurrent, At, Blank
<1> QED  BY PlacesInit, <1>1, <1>2 DEF TerminalInv

LEMMA TerminalStep == TerminalInv /\ [Next]_vars => TerminalInv'
<1> SUFFICES ASSUME TerminalInv, [Next]_vars  PROVE TextInv' /\ ScreenInv'
  BY PlacesStep DEF TerminalInv
<1>0. TextInv /\ ScreenInv /\ IsText(secret) /\ QueueInv /\ event \in Events /\ height \in Heights
  BY DEF TerminalInv, TextInv, PlacesInv, Places
<1>1. ASSUME UNCHANGED <<queue, split, secret, event>>  PROVE TextInv'
  BY <1>0, <1>1 DEF TextInv, QueueInv, IsText, Events
<1>2. ASSUME UNCHANGED <<screen>>, ~At("prompt")'  PROVE ScreenInv'
  BY <1>0, <1>2 DEF ScreenInv, StarsAreCurrent
<1>3. ASSUME UNCHANGED <<fate, pc, mode, height, secret, screen>>  PROVE ScreenInv'
  BY <1>0, <1>3 DEF ScreenInv, StarsAreCurrent, At
<1>4. CASE UNCHANGED vars
  BY <1>1, <1>3, <1>4 DEF vars
<1>5. ASSUME NEW k \in UserKeys, Press(k)  PROVE TextInv' /\ ScreenInv'
  <2>1. UNCHANGED <<fate, pc, mode, height, secret, event, screen>>
    BY <1>5 DEF Press, prompt
  <2>2. QueueInv'
    BY <1>0, <1>5, QueueGrows
  <2>3. TextInv'
    BY <1>0, <2>1, <2>2 DEF TextInv, IsText, Events
  <2> QED  BY <1>3, <2>1, <2>3
<1>6. ASSUME NEW s \in Settings, ChangeSettings(s)  PROVE TextInv' /\ ScreenInv'
  BY <1>1, <1>3, <1>6 DEF ChangeSettings, prompt
<1>7. ASSUME NEW h \in Heights, Resize(h)  PROVE TextInv' /\ ScreenInv'
  BY <1>1, <1>3, <1>7 DEF Resize, prompt
<1>8. CASE Signal \/ OpenTty \/ EnterModeFails \/ ReadFails \/ Deinit \/ Unregister \/ CloseAndReturn
  <2>1. UNCHANGED <<queue, split, secret, event, screen>>
    BY <1>8 DEF Signal, OpenTty, EnterModeFails, ReadFails, Deinit, Unregister, CloseAndReturn
  <2>2. ~At("prompt")'
    BY <1>8 DEF Signal, OpenTty, EnterModeFails, ReadFails, FailAndDrop, Deinit, Unregister,
                CloseAndReturn, At
  <2> QED  BY <1>1, <1>2, <2>1, <2>2
<1>9. ASSUME NEW m \in {"GetPin", "Message"}, NEW ls \in LabelSets, EnterMode(m, ls)
      PROVE TextInv' /\ ScreenInv'
  <2>1. UNCHANGED <<secret, event, screen>> /\ queue' = <<>> /\ split' = 0 /\ pc' = "entered"
    BY <1>9 DEF EnterMode
  <2>2. QueueInv'
    BY <2>1, QueueEmptied
  <2>3. TextInv'
    BY <1>0, <2>1, <2>2 DEF TextInv, IsText, Events
  <2> QED  BY <1>2, <2>1, <2>3 DEF At
<1>10. CASE FirstRender
  <2>1. UNCHANGED <<queue, split, secret, event, height>>
    BY <1>10 DEF FirstRender, prompt
  <2>2. CASE screen' = Rendered
    <3>1. height' \in Heights /\ IsText(secret')
      BY <1>0, <2>1 DEF IsText
    <3>2. /\ screen'.stars \in 0..Squares /\ screen'.stale = FALSE
          /\ height' >= 5 => screen'.stars = Min({Squares, Len(secret')})
      BY <2>2, <3>1, StarsDrawn DEF Rendered
    <3>3. ScreenInv'
      BY <3>2 DEF ScreenInv, StarsAreCurrent
    <3> QED  BY <1>1, <2>1, <3>3
  <2>3. CASE FailAndDrop /\ UNCHANGED <<pc, screen>>
    <3>1. ~At("prompt")'
      BY <2>3 DEF FailAndDrop, At
    <3> QED  BY <1>1, <1>2, <2>1, <2>3, <3>1
  <2> QED  BY <1>10, <2>2, <2>3 DEF FirstRender
<1>11. ASSUME NEW n \in 1..ReadSize, HandleEvent(n)  PROVE TextInv' /\ ScreenInv'
  <2>1. height' \in Heights
    BY <1>0, <1>11 DEF HandleEvent, prompt
  <2> QED  BY <1>11, <2>1, ReadKeeps DEF TerminalInv
<1>12. CASE LeaveMode
  <2>1. secret' = <<>> /\ event' = "None" /\ queue' = <<>> /\ split' = 0 /\ pc' = "idle"
        /\ UNCHANGED <<screen>>
    BY <1>12 DEF LeaveMode
  <2>2. TextInv'
    <3>1. IsText(secret')
      BY <2>1, NoText
    <3> QED  BY <2>1, <3>1, QueueEmptied DEF TextInv, IsText, Events
  <2> QED  BY <1>2, <2>1, <2>2 DEF At
<1> QED
  BY <1>4, <1>5, <1>6, <1>7, <1>8, <1>9, <1>10, <1>11, <1>12 DEF Next

LEMMA TerminalIsKept == Spec => []TerminalInv
BY TerminalInit, TerminalStep, PTL DEF Spec

(* The type invariant: among other things the secret is always UTF-8 that  *)
(* fits the page, one codepoint per character typed, however the reads cut *)
(* the keys (parse_input, handle_event), and a key that a read has begun   *)
(* waits at the head of the queue.                                         *)
THEOREM TerminalTypeCorrect == Spec => []TypeOK
<1>1. TerminalInv => TypeOK
  BY DEF TerminalInv, PlacesInv, DeviceInv, Places, TextInv, ScreenInv, QueueInv, IsText, Events, TypeOK
<1> QED  BY <1>1, TerminalIsKept, PTL

(* The stars on the screen are the characters of the secret, as far as     *)
(* there are squares, whatever was typed and however the reads cut it,     *)
(* until a drawing fails and again after the next one that succeeds: no    *)
(* edit goes without an attempt to draw it (handle_event, render).         *)
THEOREM EveryEditIsDrawn == Spec => []StarsAreCurrent
<1>1. TerminalInv => StarsAreCurrent
  BY DEF TerminalInv, ScreenInv
<1> QED  BY <1>1, TerminalIsKept, PTL

-----------------------------------------------------------------------------
(* The layout.  render is a fold over the elements of the prompt; what is  *)
(* placed so far keeps its rows, and nothing follows an element that did   *)
(* not fit.                                                                *)

Names == Element \cup {"pin"}
Frames == [row : Nat, drawn : SUBSET (Nat \X Names \X Nat)]

Shows(m, ls, drawn, e) ==
  IF e = "pin" THEN m = "GetPin" => \E d \in drawn : d[2] = e
  ELSE \A i \in 1..Len(ls[e]) :
         ls[e][i] = "text" /\ ~Lost(ls[e], i) => \E d \in drawn : d[2] = e /\ d[3] = i

(* What placing an element does: it adds lines N from the next free row on, *)
(* and if there are rows left, it added all.                               *)
Adds(at, e, after, N) ==
  /\ after.drawn = at.drawn \cup N
  /\ \A d \in N : at.row <= d[1] /\ d[1] < height' /\ d[1] < after.row /\ d[2] = e
  /\ \A c, d \in N : c[1] = d[1] => c = d
  /\ FromTheFirst(N)

Placed(at, e, after) ==
  /\ after \in Frames /\ at.row <= after.row
  /\ \E N : Adds(at, e, after, N)
  /\ after.row < height' => Shows(mode', labels', after.drawn, e)

Laid(at, n) ==
  /\ at \in Frames
  /\ \A d \in at.drawn : d[1] < height' /\ d[1] < at.row
  /\ \A c, d \in at.drawn : c[1] = d[1] => c = d
  /\ FromTheFirst(at.drawn)
  /\ at.row < height' => \A i \in 1..n : Shows(mode', labels', at.drawn, Order[i])
  /\ \A i, j \in 1..Len(Order) :
       i < j /\ (\E d \in at.drawn : d[2] = Order[j]) => Shows(mode', labels', at.drawn, Order[i])

LEMMA MoreIsShown ==
  ASSUME NEW m, NEW ls, NEW drawn, NEW more, drawn \subseteq more, NEW e, Shows(m, ls, drawn, e)
  PROVE  Shows(m, ls, more, e)
<1>1. CASE e = "pin"
  BY <1>1 DEF Shows
<1>2. CASE e # "pin"
  BY <1>2 DEF Shows
<1> QED  BY <1>1, <1>2

LEMMA NothingAdded ==
  ASSUME NEW at \in Frames, NEW e, at.row < height' => Shows(mode', labels', at.drawn, e)
  PROVE  Placed(at, e, at)
<1>1. Adds(at, e, at, {})
  BY DEF Adds, FromTheFirst
<1>2. at.row <= at.row
  BY DEF Frames
<1> QED  BY <1>1, <1>2 DEF Placed

(* What LinesShown counts are lines of the label, and no line of text that *)
(* must be shown is behind them.                                           *)
MustShow(c, i) == c[i] = "text" /\ ~Lost(c, i)

LEMMA ShownLines ==
  ASSUME NEW c \in Seq(Line), NEW row, NEW floor
  PROVE  /\ LinesShown(c, row, floor) \in 0..Len(c)
         /\ \A i \in 1..Len(c) : MustShow(c, i) => i <= LinesShown(c, row, floor)
<1> DEFINE Stop(i) == c[i] = "" /\ EndsInNewline(c) /\ row + i - 1 > floor
           stops == {i \in 1..Len(c) : Stop(i)}
           n == LinesShown(c, row, floor)
<1>1. Len(c) \in Nat
  OBVIOUS
<1>2. n = IF stops = {} THEN Len(c) ELSE Min(stops) - 1
  BY DEF LinesShown
<1>3. \A i \in stops : c[i] = "" /\ EndsInNewline(c)
  OBVIOUS
<1> HIDE DEF Stop
<1>6. stops \in SUBSET (1..Len(c)) /\ stops \in SUBSET Nat
  BY <1>1
<1> HIDE DEF stops, n
<1>4. CASE stops = {}
  <2>1. n = Len(c)
    BY <1>2, <1>4
  <2>2. n \in 0..Len(c) /\ \A i \in 1..Len(c) : i <= n
    BY <1>1, <2>1
  <2> QED  BY <2>2 DEF n
<1>5. CASE stops # {}
  <2>2. Min(stops) \in stops
    BY <1>5, <1>6, LeastOf
  <2> DEFINE m == Min(stops)
  <2>3. c[m] = "" /\ EndsInNewline(c)
    BY <1>3, <2>2
  <2>6. m \in 1..Len(c) /\ n = m - 1
    BY <1>2, <1>5, <1>6, <2>2
  <2> HIDE DEF m
  <2>4. ASSUME NEW i \in 1..Len(c), ~(i <= n)  PROVE ~MustShow(c, i)
    <3>1. m \in 1..i - 1 \/ m = i
      BY <1>1, <2>4, <2>6
    <3> QED  BY <2>3, <3>1 DEF MustShow, Lost
  <2>5. n \in 0..Len(c)
    BY <1>1, <2>6
  <2> QED  BY <2>4, <2>5 DEF n
<1> QED  BY <1>4, <1>5

LEMMA BlockPlaced ==
  ASSUME height' \in Nat, labels' \in [Element -> Seq(Line)],
         NEW at \in Frames, NEW e \in Element, NEW floor, NEW gap \in Nat
  PROVE  Placed(at, e, Block(at, e, labels'[e], floor, gap))
<1> DEFINE c == labels'[e]
           n == LinesShown(c, at.row, floor)
           room == IF at.row < height' THEN height' - at.row ELSE 0
           last == Min({n, room})
           N == {<<at.row + i - 1, e, i>> : i \in 1..last}
           after == Block(at, e, c, floor, gap)
<1>1. c \in Seq(Line) /\ Len(c) \in Nat
  OBVIOUS
<1>2. n \in 0..Len(c) /\ \A i \in 1..Len(c) : MustShow(c, i) => i <= n
  BY <1>1, ShownLines
<1>3. at.row \in Nat /\ at.drawn \in SUBSET (Nat \X Names \X Nat)
  BY DEF Frames
<1>4. room \in Nat /\ at.row + room >= height' /\ (room > 0 => at.row + room = height')
  BY <1>3
<1>5. after = [row |-> IF n > room THEN at.row + room ELSE at.row + n + gap,
               drawn |-> at.drawn \cup N]
  BY DEF Block
<1> HIDE DEF c, n, room, after
<1>6. n \in Nat
  <2>1. n \in 0..Len(c)
    BY <1>2
  <2> QED  BY <1>1, <2>1
<1>7. last = IF n <= room THEN n ELSE room
  BY <1>4, <1>6, SmallerOf
<1> HIDE DEF last
<1>8. last \in Nat /\ last <= n /\ last <= room
  BY <1>4, <1>6, <1>7
<1> DEFINE bottom == IF n > room THEN at.row + room ELSE at.row + n + gap
<1>9. bottom \in Nat /\ at.row + last <= bottom /\ (bottom < height' => last = n)
  <2>1. CASE n > room
    BY <1>3, <1>4, <1>6, <1>7, <2>1
  <2>2. CASE ~(n > room)
    BY <1>3, <1>4, <1>6, <1>7, <2>2
  <2> QED  BY <2>1, <2>2
<1>10. after.row = bottom /\ after.drawn = at.drawn \cup N
  BY <1>5
<1> HIDE DEF bottom
<1>11. \A i \in 1..last : at.row + i - 1 \in Nat /\ at.row <= at.row + i - 1
                         /\ at.row + i - 1 < height' /\ at.row + i - 1 < bottom
  <2> TAKE i \in 1..last
  <2>1. i \in Nat /\ i >= 1 /\ i <= last /\ room > 0
    BY <1>4, <1>8
  <2> DEFINE r == at.row
             h == height'
  <2>2. r \in Nat /\ r + room = h /\ r + last <= bottom /\ last <= room
    BY <1>3, <1>4, <1>8, <1>9, <2>1
  <2>3. last \in Nat /\ room \in Nat /\ h \in Nat /\ bottom \in Nat
    BY <1>4, <1>8, <1>9
  <2> HIDE DEF r, h
  <2>4. r + i - 1 \in Nat /\ r <= r + i - 1 /\ r + i - 1 < h /\ r + i - 1 < bottom
    BY <2>1, <2>2, <2>3
  <2> QED  BY <2>4 DEF r, h
<1>12. N \in SUBSET (Nat \X Names \X Nat)
  BY <1>11 DEF Names
<1>13. after \in Frames
  BY <1>3, <1>5, <1>9, <1>12 DEF Frames, bottom
<1>14. Adds(at, e, after, N)
  <2>1. \A d \in N : at.row <= d[1] /\ d[1] < height' /\ d[1] < after.row /\ d[2] = e
    BY <1>10, <1>11
  <2>2. ASSUME NEW a \in N, NEW b \in N, a[1] = b[1]  PROVE a = b
    <3>1. PICK i \in 1..last : a = <<at.row + i - 1, e, i>>
      OBVIOUS
    <3>2. PICK j \in 1..last : b = <<at.row + j - 1, e, j>>
      OBVIOUS
    <3>3. at.row + i - 1 = at.row + j - 1 /\ i \in Nat /\ j \in Nat
      <4>1. a[1] = at.row + i - 1 /\ b[1] = at.row + j - 1
        BY <3>1, <3>2
      <4>2. i \in Nat /\ j \in Nat
        BY <1>8
      <4> QED  BY <2>2, <4>1, <4>2
    <3>4. \A r, x, y \in Nat : r + x - 1 = r + y - 1 => x = y
      OBVIOUS
    <3>5. i = j
      BY <1>3, <3>3, <3>4
    <3> QED  BY <3>1, <3>2, <3>5
  <2>3. FromTheFirst(N)
    <3> SUFFICES ASSUME NEW d \in N, NEW i \in 1..d[3]  PROVE \E b \in N : b[2] = d[2] /\ b[3] = i
      BY DEF FromTheFirst
    <3>1. PICK j \in 1..last : d = <<at.row + j - 1, e, j>>
      OBVIOUS
    <3>2. i \in 1..last
      <4>1. d[3] = j
        BY <3>1
      <4>2. j \in Nat /\ j <= last
        BY <1>8
      <4> QED  BY <1>8, <4>1, <4>2
    <3>3. <<at.row + i - 1, e, i>> \in N
      BY <3>2
    <3> QED  BY <3>1, <3>3
  <2> QED  BY <1>10, <2>1, <2>2, <2>3 DEF Adds
<1>15. ASSUME after.row < height'  PROVE Shows(mode', labels', after.drawn, e)
  <2>1. last = n
    BY <1>9, <1>10, <1>15
  <2>2. ASSUME NEW i \in 1..Len(c), i <= n  PROVE \E d \in after.drawn : d[2] = e /\ d[3] = i
    <3>1. i \in 1..last
      BY <1>1, <1>6, <2>1, <2>2
    <3>2. <<at.row + i - 1, e, i>> \in after.drawn
      BY <1>10, <3>1
    <3> QED  BY <3>2
  <2>3. e # "pin"
    BY DEF Element
  <2> QED  BY <1>2, <2>2, <2>3 DEF Shows, MustShow, c
<1>16. at.row <= after.row
  BY <1>3, <1>8, <1>9, <1>10
<1> QED  BY <1>13, <1>14, <1>15, <1>16 DEF Placed, after, c

LEMMA PinPlaced ==
  ASSUME height' \in Nat, NEW at \in Frames
  PROVE  Placed(at, "pin", PinRow(at))
<1> DEFINE after == PinRow(at)
           N == {<<at.row, "pin", 1>>}
<1>1. at.row \in Nat /\ at.drawn \in SUBSET (Nat \X Names \X Nat)
  BY DEF Frames
<1>2. CASE at.row >= height'
  <2>1. after = at /\ ~(at.row < height')
    BY <1>1, <1>2 DEF PinRow
  <2> QED  BY <2>1, NothingAdded
<1>3. CASE at.row < height'
  <2>1. after = [row |-> at.row + 2, drawn |-> at.drawn \cup N]
    BY <1>1, <1>3 DEF PinRow
  <2>2. N \in SUBSET (Nat \X Names \X Nat)
    BY <1>1 DEF Names
  <2> HIDE DEF after
  <2>3. after \in Frames /\ after.row = at.row + 2 /\ after.drawn = at.drawn \cup N
    BY <1>1, <2>1, <2>2 DEF Frames
  <2>7. FromTheFirst(N)
    BY DEF FromTheFirst
  <2>4. Adds(at, "pin", after, N)
    BY <1>1, <1>3, <2>3, <2>7 DEF Adds
  <2>5. Shows(mode', labels', after.drawn, "pin")
    <3>1. <<at.row, "pin", 1>> \in after.drawn
      BY <2>3
    <3> QED  BY <3>1 DEF Shows
  <2>6. at.row <= after.row
    BY <1>1, <2>3
  <2> QED  BY <2>3, <2>4, <2>5, <2>6 DEF Placed, after
<1> QED  BY <1>1, <1>2, <1>3

LEMMA ElementPlaced ==
  ASSUME height' \in Nat, labels' \in [Element -> Seq(Line)], NEW at \in Frames, NEW e \in Names
  PROVE  Placed(at, e, Place(at, e))
<1>1. CASE e = "pin" /\ mode' = "GetPin"
  BY <1>1, PinPlaced DEF Place
<1>2. CASE e = "pin" /\ mode' # "GetPin"
  <2>1. Place(at, e) = at
    BY <1>2 DEF Place
  <2>2. Shows(mode', labels', at.drawn, e)
    BY <1>2 DEF Shows
  <2> QED  BY <2>1, <2>2, NothingAdded
<1>3. CASE e # "pin" /\ labels'[e] = <<>>
  <2>1. Place(at, e) = at
    BY <1>3 DEF Place
  <2>2. Len(labels'[e]) = 0
    BY <1>3
  <2>3. Shows(mode', labels', at.drawn, e)
    BY <1>3, <2>2 DEF Shows
  <2> QED  BY <2>1, <2>3, NothingAdded
<1>4. CASE e # "pin" /\ labels'[e] # <<>>
  <2>1. e \in Element
    BY <1>4 DEF Names
  <2>2. CASE e \in {"ok", "not_ok", "cancel"}
    <3>1. Place(at, e) = Block(at, e, labels'[e], at.row, 0)
      BY <1>4, <2>2 DEF Place
    <3> QED  BY <2>1, <3>1, BlockPlaced
  <2>3. CASE e \notin {"ok", "not_ok", "cancel"}
    <3>1. Place(at, e) = Block(at, e, labels'[e], 0, 1)
      BY <1>4, <2>3 DEF Place
    <3> QED  BY <2>1, <3>1, BlockPlaced
  <2> QED  BY <2>2, <2>3
<1> QED  BY <1>1, <1>2, <1>3, <1>4

LEMMA InOrder ==
  /\ Len(Order) = 8
  /\ \A i \in 1..8 : Order[i] \in Names
  /\ \A i, j \in 1..8 : Order[i] = Order[j] => i = j
<1>1. Len(Order) = 8
  BY DEF Order
<1>2. /\ Order[1] = "title" /\ Order[2] = "description" /\ Order[3] = "prompt" /\ Order[4] = "pin"
      /\ Order[5] = "error" /\ Order[6] = "ok" /\ Order[7] = "not_ok" /\ Order[8] = "cancel"
  BY DEF Order
<1>3. \A i \in 1..8 : i = 1 \/ i = 2 \/ i = 3 \/ i = 4 \/ i = 5 \/ i = 6 \/ i = 7 \/ i = 8
  OBVIOUS
<1>4. \A i \in 1..8 : Order[i] \in Names
  BY <1>2, <1>3 DEF Names, Element
<1>5. \A i, j \in 1..8 : Order[i] = Order[j] => i = j
  BY <1>2, <1>3
<1> QED  BY <1>1, <1>4, <1>5

LEMMA LaidNext ==
  ASSUME height' \in Nat, NEW i \in 1..8, NEW at, Laid(at, i - 1),
         NEW after, Placed(at, Order[i], after)
  PROVE  Laid(after, i)
<1>1. PICK N : Adds(at, Order[i], after, N)
  BY DEF Placed
<1>2. /\ after.drawn = at.drawn \cup N
      /\ \A d \in N : at.row <= d[1] /\ d[1] < height' /\ d[1] < after.row /\ d[2] = Order[i]
      /\ \A c, d \in N : c[1] = d[1] => c = d
      /\ FromTheFirst(N)
  BY <1>1 DEF Adds
<1>3. /\ at \in Frames /\ after \in Frames /\ at.row \in Nat /\ after.row \in Nat /\ at.row <= after.row
      /\ \A d \in after.drawn : d[1] \in Nat
  BY DEF Placed, Laid, Frames
<1>4. \A d \in at.drawn : d[1] < height' /\ d[1] < at.row /\ d[1] \in Nat
  BY <1>2, <1>3 DEF Laid
<1>5. \A d \in after.drawn : d[1] < height' /\ d[1] < after.row
  <2> TAKE d \in after.drawn
  <2>1. CASE d \in N
    BY <1>2, <2>1
  <2>2. CASE d \in at.drawn
    BY <1>3, <1>4, <2>2
  <2> QED  BY <1>2, <2>1, <2>2
<1>6. \A c, d \in after.drawn : c[1] = d[1] => c = d
  <2> SUFFICES ASSUME NEW c \in after.drawn, NEW d \in after.drawn, c[1] = d[1]  PROVE c = d
    OBVIOUS
  <2>1. CASE c \in N /\ d \in N
    BY <1>2, <2>1
  <2>2. CASE c \in at.drawn /\ d \in at.drawn
    BY <2>2 DEF Laid
  <2>3. \A a \in at.drawn : \A b \in N : a[1] # b[1]
    <3> TAKE a \in at.drawn
    <3> TAKE b \in N
    <3>1. a[1] < at.row /\ at.row <= b[1] /\ a[1] \in Nat /\ b[1] \in Nat
      BY <1>2, <1>3, <1>4
    <3> QED  BY <1>3, <3>1
  <2> QED  BY <1>2, <2>1, <2>2, <2>3
<1>13. FromTheFirst(after.drawn)
  <2>1. FromTheFirst(at.drawn) /\ FromTheFirst(N) /\ after.drawn = at.drawn \cup N
    BY <1>2 DEF Laid
  <2> QED  BY <2>1 DEF FromTheFirst
<1> DEFINE Kept(j) == Shows(mode', labels', at.drawn, Order[j])
           Now(j) == Shows(mode', labels', after.drawn, Order[j])
<1>7. \A j : Kept(j) => Now(j)
  BY <1>2, MoreIsShown
<1>8. at.row < height' => \A j \in 1..i - 1 : Kept(j)
  BY DEF Laid
<1>9. \A j, k \in 1..8 : j < k /\ (\E d \in at.drawn : d[2] = Order[k]) => Kept(j)
  BY InOrder DEF Laid
<1>10. after.row < height' => Now(i)
  BY DEF Placed
<1> HIDE DEF Kept, Now
<1>11. ASSUME after.row < height'  PROVE \A j \in 1..i : Now(j)
  <2> TAKE j \in 1..i
  <2>1. at.row < height' /\ (j = i \/ j \in 1..i - 1)
    BY <1>3, <1>11
  <2> QED  BY <1>7, <1>8, <1>10, <1>11, <2>1
<1>12. ASSUME NEW j \in 1..8, NEW k \in 1..8, j < k, NEW d \in after.drawn, d[2] = Order[k]
       PROVE  Now(j)
  <2>1. CASE d \in at.drawn
    BY <1>7, <1>9, <1>12, <2>1
  <2>2. CASE d \in N
    <3>1. k = i
      BY <1>2, <1>12, <2>2, InOrder
    <3>2. j \in 1..i - 1
      BY <1>12, <3>1
    <3>3. at.row < height'
      <4>1. at.row <= d[1] /\ d[1] < height' /\ d[1] \in Nat
        BY <1>2, <1>3, <2>2
      <4> QED  BY <1>3, <4>1
    <3> QED  BY <1>7, <1>8, <3>2, <3>3
  <2> QED  BY <1>2, <2>1, <2>2
<1> QED  BY <1>3, <1>5, <1>6, <1>11, <1>12, <1>13, InOrder DEF Laid, Now

LEMMA PlacedOneByOne ==
  ASSUME height' \in Nat, labels' \in [Element -> Seq(Line)], NEW start \in Frames
  PROVE  \E h : /\ h[0] = start /\ \A i \in 0..8 : h[i] \in Frames
                /\ \A i \in 1..8 : h[i] = Place(h[i-1], Order[i])
                /\ FoldLeft(Place, start, Order) = h[8]
<1> DEFINE n == 8
           F == [x \in Frames \X (1..n) |-> Place(x[1], Order[x[2]])]
           Unfolds(g) == g = [s \in SUBSET (1..n) |->
                               IF s = {} THEN start ELSE Place(g[s \ {Max(s)}], Order[Max(s)])]
           g == CHOOSE g : Unfolds(g)
           h == [i \in 0..n |-> g[1..i]]
<1>1. n \in Nat /\ DOMAIN Order = 1..n /\ \A i \in 1..n : Order[i] \in Names
  BY InOrder DEF Order
<1>2. FoldLeft(Place, start, Order) = g[1..n]
  BY <1>1 DEF FoldLeft, MapThenFoldSet
<1> HIDE DEF n
<1>3. \A at \in Frames : \A i \in 1..n : Place(at, Order[i]) \in Frames
  BY <1>1, ElementPlaced DEF Placed
<1>4. F \in [Frames \X (1..n) -> Frames]
  BY <1>3
<1>5. \E f : Unfolds(f)
  <2>1. PICK f \in [SUBSET (1..n) -> Frames] : FoldsTo(F, start, n, f)
    BY <1>1, <1>4, FoldExists
  <2>2. ASSUME NEW s \in SUBSET (1..n)
        PROVE  f[s] = IF s = {} THEN start ELSE Place(f[s \ {Max(s)}], Order[Max(s)])
    <3>1. f[s] = IF s = {} THEN start ELSE F[<<f[s \ {Max(s)}], Max(s)>>]
      BY <2>1 DEF FoldsTo
    <3>2. CASE s # {}
      <4>1. Max(s) \in 1..n
        <5>1. s \in SUBSET Nat /\ \A x \in s : x <= n
          BY <1>1
        <5>2. Max(s) \in s
          BY <1>1, <3>2, <5>1, GreatestOf
        <5> QED  BY <5>2
      <4>2. f[s \ {Max(s)}] \in Frames
        OBVIOUS
      <4> QED  BY <3>1, <3>2, <4>1, <4>2
    <3> QED  BY <3>1, <3>2
  <2> QED  BY <2>2
<1>6. \A s \in SUBSET (1..n) : g[s] = IF s = {} THEN start ELSE Place(g[s \ {Max(s)}], Order[Max(s)])
  <2>1. Unfolds(g)
    BY <1>5
  <2> HIDE DEF g
  <2> QED  BY <2>1
<1> HIDE DEF g
<1>7. h[0] = start
  <2>1. 1..0 = {} /\ {} \in SUBSET (1..n) /\ 0 \in 0..n
    BY <1>1
  <2> QED  BY <1>6, <2>1
<1>8. ASSUME NEW i \in 1..n  PROVE  h[i] = Place(h[i-1], Order[i])
  <2>1. i \in 0..n /\ i - 1 \in 0..n /\ 1..i \in SUBSET (1..n) /\ 1..i # {}
        /\ Max(1..i) = i /\ (1..i) \ {i} = 1..i-1
    BY <1>1, FirstIndices
  <2>2. g[1..i] = Place(g[1..i-1], Order[i])
    BY <1>6, <2>1
  <2> QED  BY <2>1, <2>2
<1>9. h[n] = g[1..n]
  BY <1>1
<1> HIDE DEF h, F
<1>10. \A i \in Nat : i <= n => h[i] \in Frames
  <2> DEFINE S == {i \in Nat : i <= n => h[i] \in Frames}
  <2>1. 0 \in S
    BY <1>7
  <2>2. \A i \in Nat : i \in S => i + 1 \in S
    <3> SUFFICES ASSUME NEW i \in Nat, i \in S, i + 1 <= n  PROVE  h[i + 1] \in Frames
      OBVIOUS
    <3>1. i + 1 \in 1..n /\ (i + 1) - 1 = i /\ i <= n
      BY <1>1
    <3> QED  BY <1>3, <1>8, <3>1
  <2> HIDE DEF S
  <2>3. \A i \in Nat : i \in S
    BY <2>1, <2>2, SetInduction
  <2> QED  BY <2>3 DEF S
<1>11. \A i \in 0..n : h[i] \in Frames
  BY <1>1, <1>10
<1> QED  BY <1>2, <1>7, <1>8, <1>9, <1>11 DEF n

LEMMA RenderingLays ==
  ASSUME height' \in Heights, labels' \in LabelSets, height' >= 5
  PROVE  \E at : Laid(at, 8) /\ Rendered.drawn = at.drawn
<1> DEFINE start == [row |-> 0, drawn |-> {}]
<1>1. height' \in Nat /\ labels' \in [Element -> Seq(Line)]
  BY SizesAssumption, LabelsAssumption
<1>2. start \in Frames
  BY DEF Frames
<1>3. PICK h : /\ h[0] = start /\ \A i \in 0..8 : h[i] \in Frames
               /\ \A i \in 1..8 : h[i] = Place(h[i-1], Order[i])
               /\ FoldLeft(Place, start, Order) = h[8]
  BY <1>1, <1>2, PlacedOneByOne
<1>4. Laid(h[0], 0)
  BY <1>2, <1>3 DEF Laid, FromTheFirst
<1>5. ASSUME NEW i \in 1..8, Laid(h[i-1], i - 1)  PROVE Laid(h[i], i)
  <2>1. i - 1 \in 0..8 /\ Order[i] \in Names
    BY InOrder
  <2>2. Placed(h[i-1], Order[i], h[i])
    BY <1>1, <1>3, <2>1, ElementPlaced
  <2> QED  BY <1>1, <1>5, <2>2, LaidNext
<1> DEFINE S == {i \in Nat : i <= 8 => Laid(h[i], i)}
<1>6. 0 \in S
  BY <1>4
<1>7. \A i \in Nat : i \in S => i + 1 \in S
  <2> SUFFICES ASSUME NEW i \in Nat, i \in S, i + 1 <= 8  PROVE  Laid(h[i + 1], i + 1)
    OBVIOUS
  <2>1. i + 1 \in 1..8 /\ (i + 1) - 1 = i /\ Laid(h[i], i)
    OBVIOUS
  <2> QED  BY <1>5, <2>1
<1> HIDE DEF S
<1>8. \A i \in Nat : i \in S
  BY <1>6, <1>7, SetInduction
<1>9. Laid(h[8], 8)
  BY <1>8 DEF S
<1>10. Rendered.drawn = h[8].drawn
  <2>1. ~(height' < 5)
    BY <1>1
  <2>2. Rendered.drawn = FoldLeft(Place, start, Order).drawn
    BY <2>1 DEF Rendered, Picture
  <2> QED  BY <1>3, <2>2
<1> QED  BY <1>9, <1>10

LEMMA RenderedLines ==
  ASSUME height' \in Heights, labels' \in LabelSets, screen' = Rendered
  PROVE  LinesHaveTheirRow'
<1> SUFFICES ASSUME height' >= 5
    PROVE  /\ \A d \in screen'.drawn : d[1] < height'
           /\ \A d, e \in screen'.drawn : d[1] = e[1] => d = e
           /\ FromTheFirst(screen'.drawn)
           /\ \A i, j \in 1..Len(Order) :
                i < j /\ (\E d \in screen'.drawn : d[2] = Order[j]) => IsShown(Order[i])'
  BY DEF LinesHaveTheirRow, Order, FromTheFirst
<1>1. PICK at : Laid(at, 8) /\ screen'.drawn = at.drawn
  BY RenderingLays
<1>2. \A e : Shows(mode', labels', screen'.drawn, e) => IsShown(e)'
  BY DEF Shows, IsShown, Lost, EndsInNewline
<1> QED  BY <1>1, <1>2 DEF Laid

LEMMA LinesInit == Init => LinesHaveTheirRow
BY DEF Init, LinesHaveTheirRow, At

LEMMA LinesStep == TerminalInv /\ LinesHaveTheirRow /\ [Next]_vars => LinesHaveTheirRow'
<1> SUFFICES ASSUME TerminalInv, LinesHaveTheirRow, [Next]_vars  PROVE LinesHaveTheirRow'
  OBVIOUS
<1>1. height \in Heights /\ labels \in LabelSets
  BY DEF TerminalInv, PlacesInv, Places
<1>2. ASSUME ~At("prompt")'  PROVE LinesHaveTheirRow'
  BY <1>2 DEF LinesHaveTheirRow
<1>3. ASSUME UNCHANGED <<mode, labels, height, screen>>, At("prompt")
      PROVE  LinesHaveTheirRow'
  <2>1. \A e : IsShown(e) => IsShown(e)'
    <3> TAKE e
    <3>1. mode' = mode /\ labels' = labels /\ screen' = screen
      BY <1>3
    <3> QED  BY <3>1 DEF IsShown, Lost, EndsInNewline
  <2>2. SUFFICES ASSUME height' >= 5, ~screen'.stale
    PROVE  /\ \A d \in screen'.drawn : d[1] < height'
           /\ \A d, e \in screen'.drawn : d[1] = e[1] => d = e
           /\ FromTheFirst(screen'.drawn)
           /\ \A i, j \in 1..Len(Order) :
                i < j /\ (\E d \in screen'.drawn : d[2] = Order[j]) => IsShown(Order[i])'
    BY <1>3 DEF LinesHaveTheirRow, Order, FromTheFirst
  <2>3. height' = height /\ screen' = screen
    BY <1>3
  <2>4. /\ \A d \in screen.drawn : d[1] < height
        /\ \A d, e \in screen.drawn : d[1] = e[1] => d = e
        /\ FromTheFirst(screen.drawn)
        /\ \A i, j \in 1..Len(Order) :
             i < j /\ (\E d \in screen.drawn : d[2] = Order[j]) => IsShown(Order[i])
    BY <1>3, <2>2, <2>3 DEF LinesHaveTheirRow
  <2> QED  BY <2>1, <2>3, <2>4
<1>4. CASE UNCHANGED vars
  BY <1>2, <1>3, <1>4 DEF vars, At
<1>5. ASSUME NEW k \in UserKeys, Press(k)  PROVE LinesHaveTheirRow'
  BY <1>3, <1>5 DEF Press, prompt
<1>6. ASSUME (\E s \in Settings : ChangeSettings(s)) \/ (\E h \in Heights : Resize(h))
             \/ Signal \/ OpenTty \/ EnterModeFails \/ ReadFails \/ LeaveMode \/ Deinit \/ Unregister
             \/ CloseAndReturn \/ \E m \in {"GetPin", "Message"}, ls \in LabelSets : EnterMode(m, ls)
      PROVE  ~At("prompt")'
  BY <1>6 DEF ChangeSettings, Resize, Signal, OpenTty, EnterModeFails, ReadFails, FailAndDrop,
              LeaveMode, Deinit, Unregister, CloseAndReturn, EnterMode, At
<1>7. CASE FirstRender
  <2>1. UNCHANGED <<mode, labels, height>>
    BY <1>7 DEF FirstRender, prompt
  <2>2. CASE screen' = Rendered
    BY <1>1, <2>1, <2>2, RenderedLines
  <2>3. CASE FailAndDrop
    BY <1>2, <2>3 DEF FailAndDrop, At
  <2> QED  BY <1>7, <2>2, <2>3 DEF FirstRender
<1>8. ASSUME NEW n \in 1..ReadSize, HandleEvent(n)  PROVE LinesHaveTheirRow'
  <2>1. UNCHANGED <<mode, labels, height>> /\ At("prompt")
        /\ (screen' = Rendered \/ screen' = screen \/ screen'.stale = TRUE)
    BY <1>8 DEF HandleEvent, Redraw, Failed, Stale, prompt
  <2>2. CASE screen' = Rendered
    BY <1>1, <2>1, <2>2, RenderedLines
  <2>3. CASE screen'.stale = TRUE
    BY <2>3 DEF LinesHaveTheirRow
  <2> QED  BY <1>3, <2>1, <2>2, <2>3
<1> QED
  BY <1>2, <1>4, <1>5, <1>6, <1>7, <1>8 DEF Next

(* No two lines are drawn in the same row and none below the terminal;     *)
(* what does not fit is left out from the end, of a label and of the       *)
(* prompt, for all labels and heights; and no line of text is missing      *)
(* before that but those that are Lost, behind an empty line of a label    *)
(* that ends in a newline (render, render_content, render_button).         *)
THEOREM PromptIsLaidOut == Spec => []LinesHaveTheirRow
BY LinesInit, LinesStep, TerminalIsKept, PTL DEF Spec

-----------------------------------------------------------------------------
(* Whole keys.  The bytes of each key are where those before it end; the   *)
(* parser makes one token of them; and one token does what the key means.  *)

KeyNames ==
  {"A", "Umlaut", "Latin1", "AltA", "Up", "PageUp", "Enter", "Escape", "Backspace",
   "CtrlC", "CtrlU", "CtrlW", "CtrlBackspace"}

Sense ==
  [k \in KeyNames |->
    CASE k \in {"A", "Umlaut"} -> "Codepoint"
      [] k \in {"Latin1", "AltA", "Up", "PageUp"} -> "Unknown"
      [] k = "Enter" -> "Enter"
      [] k = "Escape" -> "Escape"
      [] k = "Backspace" -> "Backspace"
      [] k = "CtrlC" -> "Cc"
      [] k = "CtrlU" -> "Cu"
      [] k = "CtrlW" -> "Cw"
      [] k = "CtrlBackspace" -> "CBackspace"]
TokenOf(k) == Token(Sense[k], KeyBytes[k])

Follower == 128..191

LEMMA KeysAreNamed == UserKeys \subseteq KeyNames
BY UserKeysAssumption DEF KeyBytes, KeyNames

(* No key begins with the later byte of a codepoint.                       *)
LEMMA KeysLead ==
  ASSUME NEW k \in UserKeys
  PROVE  KeyBytes[k][1] \in Nat /\ KeyBytes[k][1] \notin Follower
<1>1. k \in KeyNames
  BY KeysAreNamed
<1>2. CASE k \in {"A", "Latin1", "Enter", "Escape", "Backspace", "CtrlC", "CtrlU", "CtrlW",
                  "CtrlBackspace"}
  <2>1. \E b \in {65, 196, 13, 27, 127, 3, 21, 23, 8} : KeyBytes[k] = <<b>>
    BY <1>2 DEF KeyBytes
  <2> QED  BY <2>1 DEF Follower
<1>3. CASE k = "Umlaut"
  <2>1. KeyBytes[k] = <<195, 164>>
    BY <1>3 DEF KeyBytes
  <2> QED  BY <2>1 DEF Follower
<1>4. CASE k \in {"AltA", "Up", "PageUp"}
  <2>1. KeyBytes[k] \in {<<27, 65>>, <<27, 91, 65>>, <<27, 91, 53, 126>>}
    BY <1>4 DEF KeyBytes
  <2> QED  BY <2>1 DEF Follower
<1> QED  BY <1>1, <1>2, <1>3, <1>4 DEF KeyNames

LEMMA TokensOfKeys ==
  ASSUME NEW k \in UserKeys
  PROVE  TokenOf(k) \in Tokens /\ TokenOf(k).bytes = KeyBytes[k] /\ TokenOf(k).kind = Sense[k]
<1>1. k \in KeyNames
  BY KeysAreNamed
<1>2. KeyBytes[k] \in Seq(Nat)
  BY KeysHaveBytes
<1>3. Sense[k] \in Kinds
  BY <1>1 DEF Sense, Kinds, KeyNames
<1>4. Sense[k] = "Codepoint" => WellFormed(KeyBytes[k])
  <2>1. Sense[k] = "Codepoint" => k \in {"A", "Umlaut"}
    BY <1>1 DEF Sense, KeyNames
  <2>2. KeyBytes["A"] = <<65>> /\ KeyBytes["Umlaut"] = <<195, 164>>
    BY DEF KeyBytes
  <2>3. WellFormed(<<65>>)
    BY DEF WellFormed, Utf8SeqLen
  <2>4. WellFormed(<<195, 164>>)
    BY DEF WellFormed, Utf8SeqLen, SecondByte
  <2> QED  BY <2>1, <2>2, <2>3, <2>4
<1> QED  BY <1>2, <1>3, <1>4 DEF TokenOf, Token, Tokens

(* The bytes of the first i keys begin those of the first m.               *)
Extends(c, b) == Len(b) <= Len(c) /\ \A j \in 1..Len(b) : c[j] = b[j]

LEMMA BytesExtend ==
  ASSUME queue \in Seq(UserKeys), NEW i \in 0..Len(queue)
  PROVE  \A d \in Nat : i + d <= Len(queue) => Extends(BytesOf(i + d), BytesOf(i))
<1> DEFINE S == {d \in Nat : i + d <= Len(queue) => Extends(BytesOf(i + d), BytesOf(i))}
<1>1. Len(queue) \in Nat /\ i \in Nat
  OBVIOUS
<1>2. 0 \in S
  <2>1. BytesOf(i) \in Seq(Nat) /\ i + 0 = i
    BY BytesAddUp
  <2>2. Extends(BytesOf(i), BytesOf(i))
    BY <2>1 DEF Extends
  <2> QED  BY <2>1, <2>2
<1>3. ASSUME NEW d \in Nat, d \in S  PROVE  d + 1 \in S
  <2> SUFFICES ASSUME i + (d + 1) <= Len(queue)
               PROVE  Extends(BytesOf(i + (d + 1)), BytesOf(i))
    OBVIOUS
  <2> DEFINE m == i + d
             e == KeyBytes[queue[m + 1]]
  <2>1. m \in 0..Len(queue) /\ m < Len(queue) /\ m + 1 = i + (d + 1) /\ m + 1 \in 1..Len(queue) /\ m <= Len(queue)
    BY <1>1
  <2>2. Extends(BytesOf(m), BytesOf(i))
    BY <1>3, <2>1
  <2> HIDE DEF m
  <2>3. BytesOf(m) \in Seq(Nat) /\ BytesOf(m + 1) = BytesOf(m) \o e
    BY <2>1, BytesAddUp
  <2>4. e \in Seq(Nat)
    <3>1. queue[m + 1] \in UserKeys
      BY <2>1
    <3> QED  BY <3>1, KeysHaveBytes
  <2>5. BytesOf(i) \in Seq(Nat)
    BY BytesAddUp
  <2> DEFINE b == BytesOf(m)
             c == BytesOf(m + 1)
             a == BytesOf(i)
  <2>6. b \in Seq(Nat) /\ e \in Seq(Nat) /\ c = b \o e /\ a \in Seq(Nat) /\ Extends(b, a)
    BY <2>2, <2>3, <2>4, <2>5
  <2> HIDE DEF a, b, c, e
  <2>7. Len(c) = Len(b) + Len(e) /\ Len(a) <= Len(c) /\ \A j \in 1..Len(b) : c[j] = b[j]
    BY <2>6 DEF Extends
  <2>8. \A j \in 1..Len(a) : j \in 1..Len(b)
    BY <2>6 DEF Extends
  <2>9. Extends(c, a)
    BY <2>6, <2>7, <2>8 DEF Extends
  <2> QED  BY <2>1, <2>9 DEF a, c
<1> HIDE DEF S
<1>4. \A d \in Nat : d \in S
  BY <1>2, <1>3, SetInduction
<1> QED  BY <1>4 DEF S

(* Key i of the queue, in the bytes of the first m keys.                   *)
HasAt(buf, s, bytes) == s + Len(bytes) <= Len(buf) /\ \A x \in 1..Len(bytes) : buf[s + x] = bytes[x]

LEMMA KeysInPlace ==
  ASSUME queue \in Seq(UserKeys), NEW m \in 0..Len(queue), NEW i \in 0..m, i < m
  PROVE  /\ HasAt(BytesOf(m), Len(BytesOf(i)), KeyBytes[queue[i + 1]])
         /\ Len(BytesOf(i + 1)) = Len(BytesOf(i)) + Len(KeyBytes[queue[i + 1]])
<1> DEFINE e == KeyBytes[queue[i + 1]]
           a == BytesOf(i)
           b == BytesOf(i + 1)
           c == BytesOf(m)
<1>1. /\ Len(queue) \in Nat /\ i \in 0..Len(queue) /\ i < Len(queue) /\ i + 1 \in 0..Len(queue)
      /\ i + 1 \in 1..Len(queue) /\ m - (i + 1) \in Nat /\ (i + 1) + (m - (i + 1)) = m /\ m <= Len(queue)
  OBVIOUS
<1>2. a \in Seq(Nat) /\ b = a \o e /\ Len(b) = Len(a) + Len(e)
  BY <1>1, BytesAddUp
<1>3. e \in Seq(Nat)
  <2>1. queue[i + 1] \in UserKeys
    BY <1>1
  <2> QED  BY <2>1, KeysHaveBytes
<1>4. Extends(c, b)
  <2>1. Extends(BytesOf((i + 1) + (m - (i + 1))), BytesOf(i + 1))
    BY <1>1, BytesExtend
  <2> QED  BY <1>1, <2>1
<1>5. c \in Seq(Nat)
  BY BytesAddUp
<1> HIDE DEF a, b, c, e
<1>6. \A x \in 1..Len(e) : Len(a) + x \in 1..Len(b) /\ b[Len(a) + x] = e[x]
  BY <1>2, <1>3
<1>7. HasAt(c, Len(a), e)
  BY <1>2, <1>3, <1>4, <1>5, <1>6 DEF HasAt, Extends
<1> QED  BY <1>2, <1>7 DEF a, b, c, e

(* One token of one key: cut out of a read where its bytes are, unless the *)
(* key is an Escape with something behind it.                              *)
LEMMA BytesCutOut ==
  ASSUME NEW buf \in Seq(Nat), NEW s \in Nat, NEW e \in Seq(Nat), e # <<>>, HasAt(buf, s, e)
  PROVE  SubSeq(buf, s + 1, (s + 1) + Len(e) - 1) = e
<1> DEFINE c == SubSeq(buf, s + 1, (s + 1) + Len(e) - 1)
<1>1. Len(e) \in Nat /\ Len(e) > 0 /\ (s + 1) + Len(e) - 1 = s + Len(e) /\ s + Len(e) <= Len(buf)
  BY DEF HasAt
<1>2. c = SubSeq(buf, s + 1, s + Len(e))
  BY <1>1
<1>3. c \in Seq(Nat) /\ Len(c) = Len(e)
  BY <1>1, <1>2
<1>4. \A x \in 1..Len(e) : c[x] = e[x]
  <2> TAKE x \in 1..Len(e)
  <2>1. c[x] = buf[s + x]
    BY <1>1, <1>2
  <2> QED  BY <2>1 DEF HasAt
<1> HIDE DEF c
<1> QED  BY <1>3, <1>4 DEF c

LEMMA ControlsAreRead ==
  ASSUME NEW buf \in Seq(Nat), NEW s \in Nat,
         NEW k \in {"Enter", "Backspace", "CtrlC", "CtrlU", "CtrlW", "CtrlBackspace"},
         HasAt(buf, s, KeyBytes[k])
  PROVE  TokenAt(buf, s + 1) = TokenOf(k)
<1>1. \E b \in {13, 127, 3, 21, 23, 8} : KeyBytes[k] = <<b>> /\ Sense[k] = ControlKey[b]
  <2>1. k = "Enter" => KeyBytes[k] = <<13>> /\ Sense[k] = ControlKey[13]
    BY DEF KeyBytes, Sense, ControlKey, KeyNames
  <2>2. k = "Backspace" => KeyBytes[k] = <<127>> /\ Sense[k] = ControlKey[127]
    BY DEF KeyBytes, Sense, ControlKey, KeyNames
  <2>3. k = "CtrlC" => KeyBytes[k] = <<3>> /\ Sense[k] = ControlKey[3]
    BY DEF KeyBytes, Sense, ControlKey, KeyNames
  <2>4. k = "CtrlU" => KeyBytes[k] = <<21>> /\ Sense[k] = ControlKey[21]
    BY DEF KeyBytes, Sense, ControlKey, KeyNames
  <2>5. k = "CtrlW" => KeyBytes[k] = <<23>> /\ Sense[k] = ControlKey[23]
    BY DEF KeyBytes, Sense, ControlKey, KeyNames
  <2>6. k = "CtrlBackspace" => KeyBytes[k] = <<8>> /\ Sense[k] = ControlKey[8]
    BY DEF KeyBytes, Sense, ControlKey, KeyNames
  <2> QED  BY <2>1, <2>2, <2>3, <2>4, <2>5, <2>6
<1>2. PICK b \in {13, 127, 3, 21, 23, 8} : KeyBytes[k] = <<b>> /\ Sense[k] = ControlKey[b]
  BY <1>1
<1>3. buf[s + 1] = b
  <2>1. Len(<<b>>) = 1 /\ <<b>>[1] = b /\ 1 \in 1..1
    OBVIOUS
  <2> QED  BY <1>2, <2>1 DEF HasAt
<1>4. b \in DOMAIN ControlKey /\ b # ESC
  BY DEF ControlKey, ESC
<1>5. TokenAt(buf, s + 1) = Token(ControlKey[b], <<b>>)
  BY <1>3, <1>4 DEF TokenAt
<1> QED  BY <1>2, <1>5 DEF TokenOf

(* ESC [ ends with the first byte behind it that may end a sequence.       *)
LEMMA SequencesEnd ==
  ASSUME NEW buf \in Seq(Nat), NEW s \in Nat, NEW m \in Nat, m > 2, s + m <= Len(buf),
         buf[s + 2] = Bracket, buf[s + m] \in 64..126, \A x \in 3..m - 1 : buf[s + x] \notin 64..126
  PROVE  EscapeLen(buf, s + 1) = m
<1> DEFINE final == {j \in (s + 1) + 2..Len(buf) : buf[j] \in 64..126}
<1>1. Len(buf) \in Nat /\ (s + 1) + 1 = s + 2 /\ (s + 1) + 2 = s + 3
  OBVIOUS
<1>2. EscapeLen(buf, s + 1) = (IF final = {} THEN Len(buf) ELSE Min(final)) - (s + 1) + 1
  BY <1>1 DEF EscapeLen
<1>3. s + m \in final /\ final \in SUBSET Nat
  <2>1. s + m \in (s + 1) + 2..Len(buf)
    BY <1>1
  <2> QED  BY <1>1, <2>1
<1>4. ASSUME NEW j \in final  PROVE  j >= s + m
  <2>1. j \in Nat /\ j >= s + 3 /\ buf[j] \in 64..126
    BY <1>1, <1>4
  <2>2. CASE j < s + m
    <3>1. j - s \in 3..m - 1 /\ s + (j - s) = j
      BY <2>1, <2>2
    <3> QED  BY <2>1, <3>1
  <2> QED  BY <2>1, <2>2
<1> HIDE DEF final
<1>5. Min(final) = s + m
  <2>1. Min(final) \in final /\ Min(final) <= s + m /\ Min(final) \in Nat
    BY <1>3, LeastOf
  <2>2. Min(final) >= s + m
    BY <1>4, <2>1
  <2> QED  BY <2>1, <2>2
<1> QED  BY <1>2, <1>3, <1>5

LEMMA EscapesAreRead ==
  ASSUME NEW buf \in Seq(Nat), NEW s \in Nat, NEW k \in {"Escape", "AltA", "Up", "PageUp"},
         HasAt(buf, s, KeyBytes[k]), k = "Escape" => Len(buf) = s + 1
  PROVE  TokenAt(buf, s + 1) = TokenOf(k)
<1> DEFINE i == s + 1
<1>1. i \in Nat /\ Len(buf) \in Nat
  OBVIOUS
<1>2. ESC \notin DOMAIN ControlKey
  BY DEF ControlKey, ESC
<1>3. CASE k = "Escape"
  <2>1. KeyBytes[k] = <<27>> /\ Sense[k] = "Escape"
    BY <1>3 DEF KeyBytes, Sense, KeyNames
  <2>2. buf[i] = ESC /\ i = Len(buf)
    <3>1. Len(<<27>>) = 1 /\ <<27>>[1] = 27 /\ 1 \in 1..1
      OBVIOUS
    <3> QED  BY <1>3, <2>1, <3>1 DEF HasAt, ESC
  <2>3. TokenAt(buf, i) = Token("Escape", <<ESC>>)
    BY <1>2, <2>2 DEF TokenAt
  <2> QED  BY <2>1, <2>3 DEF TokenOf, ESC
<1>4. CASE k # "Escape"
  <2> DEFINE e == KeyBytes[k]
  <2>1. Sense[k] = "Unknown"
    BY <1>4 DEF Sense, KeyNames
  <2>0. HasAt(buf, s, e)
    OBVIOUS
  <2> HIDE DEF e
  <2>2. /\ e \in Seq(Nat) /\ e # <<>> /\ Len(e) > 1 /\ e[1] = ESC /\ buf[i] = ESC /\ i < Len(buf)
        /\ EscapeLen(buf, i) = Len(e)
    <3>1. CASE k = "AltA"
      <4>1. e = <<27, 65>>
        BY <3>1 DEF KeyBytes, e
      <4>2. s + 2 <= Len(buf) /\ buf[s + 1] = 27 /\ buf[s + 2] = 65
        <5>1. Len(e) = 2 /\ e[1] = 27 /\ e[2] = 65
          BY <4>1
        <5>2. 1 \in 1..2 /\ 2 \in 1..2
          OBVIOUS
        <5> QED  BY <2>0, <5>1, <5>2 DEF HasAt
      <4>3. EscapeLen(buf, i) = 2
        <5>1. i + 1 = s + 2 /\ 65 # Bracket
          BY DEF Bracket
        <5> QED  BY <4>2, <5>1 DEF EscapeLen
      <4>4. e \in Seq(Nat) /\ e # <<>> /\ Len(e) = 2 /\ e[1] = 27
        BY <4>1
      <4> QED  BY <1>1, <4>2, <4>3, <4>4 DEF ESC
    <3>2. CASE k = "Up"
      <4>1. e = <<27, 91, 65>>
        BY <3>2 DEF KeyBytes, e
      <4>2. s + 3 <= Len(buf) /\ buf[s + 1] = 27 /\ buf[s + 2] = 91 /\ buf[s + 3] = 65
        <5>1. Len(e) = 3 /\ e[1] = 27 /\ e[2] = 91 /\ e[3] = 65
          BY <4>1
        <5>2. 1 \in 1..3 /\ 2 \in 1..3 /\ 3 \in 1..3
          OBVIOUS
        <5> QED  BY <2>0, <5>1, <5>2 DEF HasAt
      <4>3. EscapeLen(buf, i) = 3
        <5>1. 65 \in 64..126 /\ 3..3 - 1 = {} /\ 3 \in Nat /\ 3 > 2
          OBVIOUS
        <5>2. s + 2 <= Len(buf) /\ buf[s + 2] = Bracket /\ buf[s + 3] \in 64..126
          BY <4>2, <5>1 DEF Bracket
        <5>3. \A x \in 3..3 - 1 : buf[s + x] \notin 64..126
          BY <5>1
        <5>4. s + 3 <= Len(buf)
          BY <4>2
        <5>5. EscapeLen(buf, s + 1) = 3
          BY <5>1, <5>2, <5>3, <5>4, SequencesEnd
        <5> QED  BY <5>5
      <4>4. e \in Seq(Nat) /\ e # <<>> /\ Len(e) = 3 /\ e[1] = 27
        BY <4>1
      <4> QED  BY <1>1, <4>2, <4>3, <4>4 DEF ESC
    <3>3. CASE k = "PageUp"
      <4>1. e = <<27, 91, 53, 126>>
        BY <3>3 DEF KeyBytes, e
      <4>2. /\ s + 4 <= Len(buf)
            /\ buf[s + 1] = 27 /\ buf[s + 2] = 91 /\ buf[s + 3] = 53 /\ buf[s + 4] = 126
        <5>1. Len(e) = 4 /\ e[1] = 27 /\ e[2] = 91 /\ e[3] = 53 /\ e[4] = 126
          BY <4>1
        <5>2. 1 \in 1..4 /\ 2 \in 1..4 /\ 3 \in 1..4 /\ 4 \in 1..4
          OBVIOUS
        <5> QED  BY <2>0, <5>1, <5>2 DEF HasAt
      <4>3. EscapeLen(buf, i) = 4
        <5>1. 126 \in 64..126 /\ 53 \notin 64..126 /\ 3..4 - 1 = {3} /\ 4 \in Nat /\ 4 > 2
          OBVIOUS
        <5>2. \A x \in 3..4 - 1 : buf[s + x] \notin 64..126
          BY <4>2, <5>1
        <5>3. buf[s + 4] \in 64..126 /\ buf[s + 2] = Bracket /\ s + 4 <= Len(buf)
          BY <4>2, <5>1 DEF Bracket
        <5>4. EscapeLen(buf, s + 1) = 4
          BY <5>1, <5>2, <5>3, SequencesEnd
        <5> QED  BY <5>4
      <4>4. e \in Seq(Nat) /\ e # <<>> /\ Len(e) = 4 /\ e[1] = 27
        BY <4>1
      <4> QED  BY <1>1, <4>2, <4>3, <4>4 DEF ESC
    <3> QED  BY <1>4, <3>1, <3>2, <3>3
  <2>3. TokenAt(buf, i) = Token("Unknown", SubSeq(buf, i, i + EscapeLen(buf, i) - 1))
    BY <1>1, <1>2, <2>2 DEF TokenAt
  <2>4. SubSeq(buf, i, i + Len(e) - 1) = e
    BY <2>0, <2>2, BytesCutOut
  <2> QED  BY <2>1, <2>2, <2>3, <2>4 DEF TokenOf, e
<1> QED  BY <1>3, <1>4

LEMMA TextIsCut ==
  ASSUME NEW buf \in Seq(Nat), NEW s \in Nat, NEW k \in {"A", "Umlaut"}, HasAt(buf, s, KeyBytes[k])
  PROVE  TokenAt(buf, s + 1) = TokenOf(k)
<1> DEFINE e == KeyBytes[k]
<1>1. /\ e \in Seq(Nat) /\ e # <<>> /\ 1 \in 1..Len(e) /\ Len(e) > 0
      /\ Utf8SeqLen(e[1]) = Len(e) /\ e[1] \in {65, 195} /\ WellFormed(e)
  <2>1. CASE k = "A"
    <3>1. e = <<65>>
      BY <2>1 DEF KeyBytes
    <3> QED  BY <3>1 DEF WellFormed, Utf8SeqLen
  <2>2. CASE k = "Umlaut"
    <3>1. e = <<195, 164>>
      BY <2>2 DEF KeyBytes
    <3> QED  BY <3>1 DEF WellFormed, Utf8SeqLen, SecondByte
  <2> QED  BY <2>1, <2>2
<1>2. Sense[k] = "Codepoint"
  BY DEF Sense, KeyNames
<1> HIDE DEF e
<1>3. buf[s + 1] = e[1] /\ s + Len(e) <= Len(buf)
  BY <1>1 DEF HasAt, e
<1>4. SubSeq(buf, s + 1, (s + 1) + Len(e) - 1) = e
  <2>1. HasAt(buf, s, e)
    BY DEF e
  <2> QED  BY <1>1, <2>1, BytesCutOut
<1>5. TokenAt(buf, s + 1) = TextAt(buf, s + 1)
  <2>1. buf[s + 1] \notin DOMAIN ControlKey /\ buf[s + 1] # ESC
    <3>1. 65 \notin DOMAIN ControlKey /\ 195 \notin DOMAIN ControlKey /\ 65 # ESC /\ 195 # ESC
      BY DEF ControlKey, ESC
    <3>2. buf[s + 1] = 65 \/ buf[s + 1] = 195
      BY <1>1, <1>3
    <3> QED  BY <3>1, <3>2
  <2> QED  BY <2>1 DEF TokenAt
<1>6. (s + 1) + Len(e) - 1 <= Len(buf) /\ Len(e) # 0
  BY <1>1, <1>3
<1>7. TextAt(buf, s + 1) = Token("Codepoint", e)
  BY <1>1, <1>3, <1>4, <1>6 DEF TextAt
<1> QED  BY <1>2, <1>5, <1>7 DEF TokenOf, e

(* A byte of another encoding announces one more, which does not come.     *)
LEMMA LatinIsUnknown ==
  ASSUME NEW buf \in Seq(Nat), NEW s \in Nat, HasAt(buf, s, KeyBytes["Latin1"]),
         s + 1 < Len(buf) => buf[(s + 1) + 1] \notin Follower
  PROVE  TokenAt(buf, s + 1) = TokenOf("Latin1")
<1>1. KeyBytes["Latin1"] = <<196>> /\ Sense["Latin1"] = "Unknown"
  BY DEF KeyBytes, Sense, KeyNames
<1>2. buf[s + 1] = 196 /\ s + 1 <= Len(buf)
  <2>1. Len(<<196>>) = 1 /\ <<196>>[1] = 196 /\ 1 \in 1..1
    OBVIOUS
  <2> QED  BY <1>1, <2>1 DEF HasAt
<1>3. TokenAt(buf, s + 1) = TextAt(buf, s + 1)
  BY <1>2 DEF TokenAt, ControlKey, ESC
<1>4. Utf8SeqLen(196) = 2
  BY DEF Utf8SeqLen
<1>5. (s + 1) + 2 - 1 <= Len(buf) => ~WellFormed(SubSeq(buf, s + 1, (s + 1) + 2 - 1))
  <2> SUFFICES ASSUME (s + 1) + 2 - 1 <= Len(buf)
               PROVE  ~WellFormed(SubSeq(buf, s + 1, (s + 1) + 2 - 1))
    OBVIOUS
  <2> DEFINE c == SubSeq(buf, s + 1, (s + 1) + 2 - 1)
  <2>1. Len(c) = 2 /\ c[1] = 196 /\ c[2] = buf[(s + 1) + 1]
    <3>1. (s + 1) + 2 - 1 = s + 2 /\ s + 2 <= Len(buf) /\ (s + 1) + 1 = s + 2
      OBVIOUS
    <3>2. c = SubSeq(buf, s + 1, s + 2)
      BY <3>1
    <3>3. Len(c) = 2 /\ c[1] = buf[s + 1] /\ c[2] = buf[s + 2]
      BY <3>1, <3>2
    <3> QED  BY <1>2, <3>1, <3>3
  <2>2. c[2] \notin Follower
    BY <2>1
  <2> HIDE DEF c
  <2>3. SecondByte(c[1]) = Follower
    BY <2>1 DEF SecondByte, Follower
  <2>4. ~WellFormed(c)
    BY <2>1, <2>2, <2>3 DEF WellFormed
  <2> QED  BY <2>4 DEF c
<1>6. TextAt(buf, s + 1) = Token("Unknown", <<196>>)
  BY <1>2, <1>4, <1>5 DEF TextAt
<1> QED  BY <1>1, <1>3, <1>6 DEF TokenOf

LEMMA KeysAreCut ==
  ASSUME NEW buf \in Seq(Nat), NEW s \in Nat, NEW k \in UserKeys, HasAt(buf, s, KeyBytes[k]),
         k = "Escape" => Len(buf) = s + 1,
         s + Len(KeyBytes[k]) < Len(buf) => buf[(s + Len(KeyBytes[k])) + 1] \notin Follower
  PROVE  TokenAt(buf, s + 1) = TokenOf(k)
<1>1. k \in KeyNames
  BY KeysAreNamed
<1>2. CASE k \in {"Enter", "Backspace", "CtrlC", "CtrlU", "CtrlW", "CtrlBackspace"}
  BY <1>2, ControlsAreRead
<1>3. CASE k \in {"Escape", "AltA", "Up", "PageUp"}
  BY <1>3, EscapesAreRead
<1>4. CASE k \in {"A", "Umlaut"}
  BY <1>4, TextIsCut
<1>5. CASE k = "Latin1"
  <2>1. Len(KeyBytes["Latin1"]) = 1
    BY DEF KeyBytes
  <2> QED  BY <1>5, <2>1, LatinIsUnknown
<1> QED  BY <1>1, <1>2, <1>3, <1>4, <1>5 DEF KeyNames

(* A read of whole keys is parsed into a token for each of them.           *)
TokensFrom(i, k) == [j \in 1..k - i |-> TokenOf(queue[i + j])]

LEMMA OneTokenMore ==
  ASSUME queue \in Seq(UserKeys), NEW k \in 0..Len(queue), NEW i \in 0..k, i < k
  PROVE  <<TokenOf(queue[i + 1])>> \o TokensFrom(i + 1, k) = TokensFrom(i, k)
<1> DEFINE t == TokenOf(queue[i + 1])
           f == TokensFrom(i + 1, k)
           g == TokensFrom(i, k)
<1>1. k \in Nat /\ i \in Nat /\ k - (i + 1) \in Nat /\ k - i = (k - (i + 1)) + 1 /\ k <= Len(queue)
  OBVIOUS
<1>2. \A j \in 1..k - i : TokenOf(queue[i + j]) \in Tokens
  <2> TAKE j \in 1..k - i
  <2>1. i + j \in 1..Len(queue)
    BY <1>1
  <2>2. queue[i + j] \in UserKeys
    BY <2>1
  <2> QED  BY <2>2, TokensOfKeys
<1>3. /\ t \in Tokens
      /\ \A j \in 1..k - (i + 1) : (i + 1) + j = i + (j + 1) /\ j + 1 \in 1..k - i
  <2>1. 1 \in 1..k - i
    BY <1>1
  <2> QED  BY <1>1, <1>2, <2>1
<1> DEFINE n == k - (i + 1)
<1>4. f \in Seq(Tokens) /\ Len(f) = n /\ \A j \in 1..n : f[j] = TokenOf(queue[i + (j + 1)])
  <2>1. \A j \in 1..n : TokenOf(queue[(i + 1) + j]) \in Tokens
    BY <1>2, <1>3
  <2>2. f = [j \in 1..n |-> TokenOf(queue[(i + 1) + j])]
    BY DEF TokensFrom
  <2>3. n \in Nat
    BY <1>1
  <2> HIDE DEF f, n
  <2>4. f \in [1..n -> Tokens] /\ \A j \in 1..n : f[j] = TokenOf(queue[(i + 1) + j])
    BY <2>1, <2>2
  <2>5. \A j \in 1..n : (i + 1) + j = i + (j + 1)
    BY <1>3 DEF n
  <2>6. \A j \in 1..n : f[j] = TokenOf(queue[i + (j + 1)])
    BY <2>4, <2>5
  <2> QED  BY <2>3, <2>4, <2>6
<1>5. g \in Seq(Tokens) /\ Len(g) = n + 1 /\ \A j \in 1..n + 1 : g[j] = TokenOf(queue[i + j])
  <2>1. g = [j \in 1..n + 1 |-> TokenOf(queue[i + j])]
    BY <1>1 DEF TokensFrom
  <2> QED  BY <1>1, <1>2, <2>1
<1>6. n \in Nat
  BY <1>1
<1> HIDE DEF t, f, g, n
<1> DEFINE h == <<t>> \o f
<1>7. h \in Seq(Tokens) /\ Len(h) = n + 1 /\ h[1] = t /\ \A j \in 1..n : h[j + 1] = f[j]
  BY <1>3, <1>4, <1>6
<1>8. \A j \in 1..n + 1 : h[j] = g[j]
  <2> TAKE j \in 1..n + 1
  <2>1. CASE j = 1
    BY <1>5, <1>7, <2>1 DEF t
  <2>2. CASE j # 1
    <3>1. j - 1 \in 1..n /\ (j - 1) + 1 = j
      BY <1>6, <2>2
    <3>2. h[j] = f[j - 1] /\ f[j - 1] = TokenOf(queue[i + ((j - 1) + 1)])
      BY <1>4, <1>7, <3>1
    <3> HIDE DEF h
    <3> QED  BY <1>5, <3>1, <3>2
  <2> QED  BY <2>1, <2>2
<1> HIDE DEF h
<1>9. h = g
  BY <1>5, <1>7, <1>8
<1> QED  BY <1>9 DEF h, t, f, g

LEMMA KeyAfterKey ==
  ASSUME queue \in Seq(UserKeys), NEW k \in 0..Len(queue), \A i \in 1..k - 1 : queue[i] # "Escape",
         NEW i \in 0..k, i < k
  PROVE  TokenAt(BytesOf(k), Len(BytesOf(i)) + 1) = TokenOf(queue[i + 1])
<1> DEFINE buf == BytesOf(k)
           s == Len(BytesOf(i))
           e == KeyBytes[queue[i + 1]]
<1>1. k \in Nat /\ i \in Nat /\ i + 1 \in 1..Len(queue) /\ i \in 0..Len(queue) /\ i + 1 \in 0..k
  OBVIOUS
<1>2. queue[i + 1] \in UserKeys
  BY <1>1
<1>3. buf \in Seq(Nat) /\ s \in Nat /\ Len(buf) \in Nat
  BY <1>1, BytesAddUp
<1>4. HasAt(buf, s, e) /\ Len(BytesOf(i + 1)) = s + Len(e)
  BY KeysInPlace
<1>5. queue[i + 1] = "Escape" => Len(buf) = s + 1
  <2> SUFFICES ASSUME queue[i + 1] = "Escape"  PROVE  Len(buf) = s + 1
    OBVIOUS
  <2>1. i + 1 = k
    <3>1. i + 1 \notin 1..k - 1
      OBVIOUS
    <3> QED  BY <1>1, <3>1
  <2>2. KeyBytes["Escape"] = <<27>> /\ Len(<<27>>) = 1
    BY DEF KeyBytes
  <2> QED  BY <1>4, <2>1, <2>2
<1>6. s + Len(e) < Len(buf) => buf[(s + Len(e)) + 1] \notin Follower
  <2> SUFFICES ASSUME s + Len(e) < Len(buf)  PROVE  buf[(s + Len(e)) + 1] \notin Follower
    OBVIOUS
  <2>1. i + 1 # k
    BY <1>3, <1>4
  <2>2. i + 1 < k /\ (i + 1) + 1 \in 1..Len(queue)
    BY <1>1, <2>1
  <2> DEFINE f == KeyBytes[queue[(i + 1) + 1]]
  <2>3. HasAt(buf, Len(BytesOf(i + 1)), f)
    BY <1>1, <2>2, KeysInPlace
  <2>4. queue[(i + 1) + 1] \in UserKeys
    BY <2>2
  <2>5. f \in Seq(Nat) /\ Len(f) \in Nat \ {0} /\ f[1] \notin Follower
    BY <2>4, KeysHaveBytes, KeysLead
  <2> HIDE DEF f
  <2>6. 1 \in 1..Len(f)
    BY <2>5
  <2>7. buf[Len(BytesOf(i + 1)) + 1] = f[1]
    BY <2>3, <2>6 DEF HasAt
  <2> QED  BY <1>4, <2>5, <2>7
<1> HIDE DEF buf, s
<1>7. TokenAt(buf, s + 1) = TokenOf(queue[i + 1])
  BY <1>2, <1>3, <1>4, <1>5, <1>6, KeysAreCut
<1> QED  BY <1>7 DEF buf, s

LEMMA KeysAreParsed ==
  ASSUME queue \in Seq(UserKeys), NEW k \in 0..Len(queue), \A i \in 1..k - 1 : queue[i] # "Escape"
  PROVE  parse_input(BytesOf(k)) = TokensFrom(0, k)
<1> DEFINE buf == BytesOf(k)
           g == CHOOSE g : Parses(buf, 1, g)
           S == {d \in Nat : d <= k => g[Len(BytesOf(k - d)) + 1] = TokensFrom(k - d, k)}
<1>1. buf \in Seq(Nat) /\ k \in Nat /\ Len(queue) \in Nat /\ Len(buf) \in Nat
  BY BytesAddUp
<1>2. parse_input(buf) = g[1]
  BY DEF parse_input, Parses
<1>3. \E f : Parses(buf, 1, f)
  <2>1. Len(buf) + 1 - Len(buf) = 1
    BY <1>1
  <2>2. \E f : Parses(buf, Len(buf) + 1 - Len(buf), f)
    BY <1>1, ParseExists
  <2> QED  BY <2>1, <2>2
<1>4. Parses(buf, 1, g)
  BY <1>3
<1> HIDE DEF g
<1>5. \A i \in 1..Len(buf) + 1 :
        g[i] = IF i > Len(buf) THEN <<>> ELSE <<TokenAt(buf, i)>> \o g[i + Len(TokenAt(buf, i).bytes)]
  BY <1>4 DEF Parses
<1> DEFINE last == Len(buf) + 1
<1>6. 0 \in S
  <2>1. k - 0 = k
    BY <1>1
  <2>2. g[last] = <<>>
    <3>1. last \in 1..last /\ last > Len(buf)
      BY <1>1
    <3> HIDE DEF buf
    <3> QED  BY <1>5, <3>1
  <2>3. TokensFrom(k, k) = <<>>
    BY <1>1 DEF TokensFrom
  <2> QED  BY <2>1, <2>2, <2>3
<1>7. ASSUME NEW d \in Nat, d \in S  PROVE  d + 1 \in S
  <2> SUFFICES ASSUME d + 1 <= k
               PROVE  g[Len(BytesOf(k - (d + 1))) + 1] = TokensFrom(k - (d + 1), k)
    OBVIOUS
  <2> DEFINE i == k - (d + 1)
  <2>1. i \in 0..k /\ i < k /\ k - d = i + 1 /\ i + 1 \in 1..Len(queue) /\ d <= k /\ i \in 0..Len(queue)
    BY <1>1
  <2>2. g[Len(BytesOf(i + 1)) + 1] = TokensFrom(i + 1, k)
    BY <1>7, <2>1
  <2> HIDE DEF i
  <2> DEFINE s == Len(BytesOf(i))
             e == KeyBytes[queue[i + 1]]
  <2>3. queue[i + 1] \in UserKeys
    BY <2>1
  <2>4. e \in Seq(Nat) /\ Len(e) \in Nat \ {0}
    BY <2>3, KeysHaveBytes
  <2>5. s \in Nat
    BY <2>1, BytesAddUp
  <2>6. s + Len(e) <= Len(buf) /\ Len(BytesOf(i + 1)) = s + Len(e)
    BY <2>1, KeysInPlace DEF HasAt
  <2>7. TokenAt(buf, s + 1) = TokenOf(queue[i + 1])
    BY <2>1, KeyAfterKey
  <2>8. TokenAt(buf, s + 1).bytes = e
    BY <2>3, <2>7, TokensOfKeys
  <2> HIDE DEF e, s, buf
  <2>9. s + 1 \in 1..Len(buf) + 1 /\ ~(s + 1 > Len(buf)) /\ (s + 1) + Len(e) = (s + Len(e)) + 1
    BY <1>1, <2>4, <2>5, <2>6
  <2>10. g[s + 1] = <<TokenAt(buf, s + 1)>> \o g[(s + Len(e)) + 1]
    BY <1>5, <2>8, <2>9
  <2>11. g[s + 1] = <<TokenOf(queue[i + 1])>> \o TokensFrom(i + 1, k)
    BY <2>2, <2>6, <2>7, <2>10
  <2>12. g[s + 1] = TokensFrom(i, k)
    BY <2>1, <2>11, OneTokenMore
  <2> QED  BY <2>12 DEF s, i
<1> HIDE DEF S
<1>8. \A d \in Nat : d \in S
  BY <1>6, <1>7, SetInduction
<1>9. k \in S /\ k - k = 0 /\ k <= k
  BY <1>1, <1>8
<1>10. g[Len(BytesOf(0)) + 1] = TokensFrom(0, k)
  BY <1>9 DEF S
<1>11. Len(BytesOf(0)) + 1 = 1
  BY NoBytes
<1> QED  BY <1>2, <1>10, <1>11

-----------------------------------------------------------------------------
(* One key, heard and meant.                                               *)
LEMMA KeyIsHeard ==
  ASSUME NEW acc \in Hearing, NEW k \in UserKeys
  PROVE  HandleInput(acc, TokenOf(k)) = KeyMeans(acc, k)
<1> DEFINE t == TokenOf(k)
<1>1. k \in KeyNames /\ t.kind = Sense[k] /\ t.bytes = KeyBytes[k]
  BY KeysAreNamed, TokensOfKeys
<1>2. acc \in [secret : Seq(Seq(Nat)), event : Events]
  BY DEF Hearing, Heard
<1>3. acc = [acc EXCEPT !.secret = acc.secret]
  BY <1>2
<1> HIDE DEF t
<1>4. CASE acc.event # "None"
  BY <1>4 DEF HandleInput, KeyMeans, t
<1>5. CASE acc.event = "None" /\ k \in {"Enter", "Escape", "CtrlC"}
  <2>1. CASE k = "Enter"
    <3>1. t.kind = "Enter"
      BY <1>1, <2>1 DEF Sense
    <3> QED  BY <1>5, <2>1, <3>1 DEF HandleInput, KeyMeans, t
  <2>2. CASE k = "Escape"
    <3>1. t.kind = "Escape"
      BY <1>1, <2>2 DEF Sense
    <3> QED  BY <1>5, <2>2, <3>1 DEF HandleInput, KeyMeans, t
  <2>3. CASE k = "CtrlC"
    <3>1. t.kind = "Cc"
      BY <1>1, <2>3 DEF Sense
    <3> QED  BY <1>5, <2>3, <3>1 DEF HandleInput, KeyMeans, t
  <2> QED  BY <1>5, <2>1, <2>2, <2>3
<1>6. CASE acc.event = "None" /\ k \notin {"Enter", "Escape", "CtrlC"}
  <2>1. t.kind \notin {"Enter", "Escape", "Cc"}
    BY <1>1, <1>6 DEF Sense, KeyNames
  <2>2. HandleInput(acc, t) = [acc EXCEPT !.secret = Edited(acc.secret, t)]
    BY <1>6, <2>1 DEF HandleInput
  <2>3. ASSUME Edited(acc.secret, t) = acc.secret, KeyMeans(acc, k) = acc
        PROVE  HandleInput(acc, t) = KeyMeans(acc, k)
    BY <1>3, <2>2, <2>3
  <2>4. CASE mode # "GetPin"
    <3>1. Edited(acc.secret, t) = acc.secret
      BY <2>4 DEF Edited
    <3>2. KeyMeans(acc, k) = acc
      BY <1>6, <2>4 DEF KeyMeans
    <3> QED  BY <2>3, <3>1, <3>2 DEF t
  <2>5. CASE mode = "GetPin" /\ k \in {"Latin1", "AltA", "Up", "PageUp"}
    <3>1. t.kind = "Unknown"
      BY <1>1, <2>5 DEF Sense
    <3>2. Edited(acc.secret, t) = acc.secret
      BY <3>1 DEF Edited
    <3>3. KeyMeans(acc, k) = acc
      BY <1>6, <2>5 DEF KeyMeans
    <3> QED  BY <2>3, <3>2, <3>3 DEF t
  <2>6. CASE mode = "GetPin" /\ k \in {"A", "Umlaut"}
    <3>1. t.kind = "Codepoint"
      BY <1>1, <2>6 DEF Sense
    <3> DEFINE e == KeyBytes[k]
               fits == Len(FlattenSeq(acc.secret)) + Len(e) <= Capacity
    <3>2. Edited(acc.secret, t) = IF fits THEN Append(acc.secret, e) ELSE acc.secret
      BY <1>1, <2>6, <3>1 DEF Edited
    <3>3. KeyMeans(acc, k) = IF fits THEN [acc EXCEPT !.secret = Append(acc.secret, e)] ELSE acc
      BY <1>6, <2>6 DEF KeyMeans
    <3> HIDE DEF fits, e
    <3> QED  BY <2>2, <2>3, <3>2, <3>3 DEF t
  <2>7. CASE mode = "GetPin" /\ k = "Backspace"
    <3>1. t.kind = "Backspace"
      BY <1>1, <2>7 DEF Sense
    <3>2. Edited(acc.secret, t) = IF acc.secret = <<>> THEN acc.secret ELSE Front(acc.secret)
      BY <2>7, <3>1 DEF Edited
    <3>3. KeyMeans(acc, k) = IF acc.secret # <<>> THEN [acc EXCEPT !.secret = Front(acc.secret)] ELSE acc
      BY <1>6, <2>7 DEF KeyMeans
    <3> QED  BY <2>2, <2>3, <3>2, <3>3 DEF t
  <2>8. CASE mode = "GetPin" /\ k \in {"CtrlU", "CtrlW", "CtrlBackspace"}
    <3>1. t.kind \in {"Cu", "Cw", "CBackspace"}
      BY <1>1, <2>8 DEF Sense
    <3>2. Edited(acc.secret, t) = <<>>
      BY <2>8, <3>1 DEF Edited
    <3>3. KeyMeans(acc, k) = [acc EXCEPT !.secret = <<>>]
      BY <1>6, <2>8 DEF KeyMeans
    <3> QED  BY <2>2, <3>2, <3>3 DEF t
  <2> QED  BY <1>1, <1>6, <2>4, <2>5, <2>6, <2>7, <2>8 DEF KeyNames
<1> QED  BY <1>4, <1>5, <1>6

-----------------------------------------------------------------------------
(* The keys of a read, one after the other.                                *)
LEMMA MeantOneByOne ==
  ASSUME NEW start \in Hearing, NEW ks \in Seq(UserKeys)
  PROVE  \E h : /\ h[0] = start /\ \A i \in 0..Len(ks) : h[i] \in Hearing
                /\ \A i \in 1..Len(ks) : h[i] = KeyMeans(h[i-1], ks[i])
                /\ FoldLeft(KeyMeans, start, ks) = h[Len(ks)]
<1> DEFINE n == Len(ks)
           F == [x \in Hearing \X (1..n) |-> KeyMeans(x[1], ks[x[2]])]
           Unfolds(g) == g = [s \in SUBSET (1..n) |->
                               IF s = {} THEN start ELSE KeyMeans(g[s \ {Max(s)}], ks[Max(s)])]
           g == CHOOSE g : Unfolds(g)
           h == [i \in 0..n |-> g[1..i]]
<1>1. n \in Nat /\ DOMAIN ks = 1..n /\ \A i \in 1..n : ks[i] \in UserKeys
  OBVIOUS
<1>2. FoldLeft(KeyMeans, start, ks) = g[1..n]
  BY <1>1 DEF FoldLeft, MapThenFoldSet
<1> HIDE DEF n
<1>3. \A acc \in Hearing : \A i \in 1..n : KeyMeans(acc, ks[i]) \in Hearing
  <2> TAKE acc \in Hearing
  <2> TAKE i \in 1..n
  <2>1. HandleInput(acc, TokenOf(ks[i])) = KeyMeans(acc, ks[i]) /\ TokenOf(ks[i]) \in Tokens
    BY <1>1, KeyIsHeard, TokensOfKeys
  <2>2. acc \in Heard /\ IsText(acc.secret)
    BY DEF Hearing
  <2>3. HandleInput(acc, TokenOf(ks[i])) \in Hearing
    BY <2>1, <2>2, InputTypes DEF Hearing
  <2> QED  BY <2>1, <2>3
<1>4. F \in [Hearing \X (1..n) -> Hearing]
  BY <1>3
<1>5. \E f : Unfolds(f)
  <2>1. PICK f \in [SUBSET (1..n) -> Hearing] : FoldsTo(F, start, n, f)
    BY <1>1, <1>4, FoldExists
  <2>2. ASSUME NEW s \in SUBSET (1..n)
        PROVE  f[s] = IF s = {} THEN start ELSE KeyMeans(f[s \ {Max(s)}], ks[Max(s)])
    <3>1. f[s] = IF s = {} THEN start ELSE F[<<f[s \ {Max(s)}], Max(s)>>]
      BY <2>1 DEF FoldsTo
    <3>2. CASE s # {}
      <4>1. Max(s) \in 1..n
        BY <1>1, <3>2, LastIndex
      <4>2. f[s \ {Max(s)}] \in Hearing
        OBVIOUS
      <4> QED  BY <3>1, <3>2, <4>1, <4>2
    <3> QED  BY <3>1, <3>2
  <2> QED  BY <2>2
<1>6. \A s \in SUBSET (1..n) : g[s] = IF s = {} THEN start ELSE KeyMeans(g[s \ {Max(s)}], ks[Max(s)])
  <2>1. Unfolds(g)
    BY <1>5
  <2> HIDE DEF g
  <2> QED  BY <2>1
<1> HIDE DEF g
<1>7. h[0] = start
  <2>1. 1..0 = {} /\ {} \in SUBSET (1..n) /\ 0 \in 0..n
    BY <1>1
  <2> QED  BY <1>6, <2>1
<1>8. ASSUME NEW i \in 1..n  PROVE  h[i] = KeyMeans(h[i-1], ks[i])
  <2>1. i \in 0..n /\ i - 1 \in 0..n /\ 1..i \in SUBSET (1..n) /\ 1..i # {}
        /\ Max(1..i) = i /\ (1..i) \ {i} = 1..i-1
    BY <1>1, FirstIndices
  <2>2. g[1..i] = KeyMeans(g[1..i-1], ks[i])
    BY <1>6, <2>1
  <2> QED  BY <2>1, <2>2
<1>9. h[n] = g[1..n]
  BY <1>1
<1> HIDE DEF h, F
<1>10. \A i \in 0..n : h[i] \in Hearing
  <2> DEFINE S == {i \in Nat : h[i] \in Hearing}
  <2>1. 0 \in S
    BY <1>7
  <2>2. \A i \in 1..n : i - 1 \in S => i \in S
    <3> SUFFICES ASSUME NEW i \in 1..n, h[i - 1] \in Hearing  PROVE  h[i] \in Hearing
      OBVIOUS
    <3> QED  BY <1>3, <1>8
  <2> HIDE DEF S
  <2>3. \A i \in 0..n : i \in S
    BY <1>1, <2>1, <2>2, IndexInduction
  <2> QED  BY <2>3 DEF S
<1> QED  BY <1>2, <1>7, <1>8, <1>9, <1>10 DEF n

(* What the loop makes of the tokens of keys is what the keys mean.        *)
LEMMA KeysAreHeard ==
  ASSUME NEW start \in Hearing, NEW ks \in Seq(UserKeys),
         NEW ts \in Seq(Tokens), Len(ts) = Len(ks), \A i \in 1..Len(ks) : ts[i] = TokenOf(ks[i])
  PROVE  FoldLeft(HandleInput, start, ts) = FoldLeft(KeyMeans, start, ks)
<1>1. PICK h : /\ h[0] = start /\ \A i \in 0..Len(ts) : h[i] \in Hearing
               /\ \A i \in 1..Len(ts) : h[i] = HandleInput(h[i-1], ts[i])
               /\ FoldLeft(HandleInput, start, ts) = h[Len(ts)]
  BY HeardOneByOne
<1>2. PICK m : /\ m[0] = start /\ \A i \in 0..Len(ks) : m[i] \in Hearing
               /\ \A i \in 1..Len(ks) : m[i] = KeyMeans(m[i-1], ks[i])
               /\ FoldLeft(KeyMeans, start, ks) = m[Len(ks)]
  BY MeantOneByOne
<1> DEFINE n == Len(ks)
           S == {i \in Nat : h[i] = m[i]}
<1>3. n \in Nat /\ \A i \in 1..n : ks[i] \in UserKeys /\ i - 1 \in 0..n
  OBVIOUS
<1> HIDE DEF n
<1>4. 0 \in S
  BY <1>1, <1>2
<1>5. \A i \in 1..n : i - 1 \in S => i \in S
  <2> SUFFICES ASSUME NEW i \in 1..n, h[i - 1] = m[i - 1]  PROVE  h[i] = m[i]
    BY <1>3
  <2>1. h[i] = HandleInput(h[i - 1], ts[i]) /\ ts[i] = TokenOf(ks[i]) /\ m[i] = KeyMeans(m[i - 1], ks[i])
    BY <1>1, <1>2 DEF n
  <2>2. m[i - 1] \in Hearing /\ ks[i] \in UserKeys
    BY <1>2, <1>3 DEF n
  <2>3. HandleInput(m[i - 1], TokenOf(ks[i])) = KeyMeans(m[i - 1], ks[i])
    BY <2>2, KeyIsHeard
  <2> QED  BY <2>1, <2>3
<1> HIDE DEF S
<1>6. \A i \in 0..n : i \in S
  BY <1>3, <1>4, <1>5, IndexInduction
<1>7. n \in 0..n
  BY <1>3
<1>8. h[n] = m[n]
  BY <1>6, <1>7 DEF S
<1> QED  BY <1>1, <1>2, <1>8 DEF n

(* Sequences are their elements.                                           *)
LEMMA SameBytes ==
  ASSUME NEW a \in Seq(Nat), NEW b \in Seq(Nat), Len(a) = Len(b), \A j \in 1..Len(a) : a[j] = b[j]
  PROVE  a = b
OBVIOUS

(* A read that ends where the last of the keys it takes does.              *)
LEMMA WholeRead ==
  ASSUME QueueInv, split = 0, NEW n \in 1..Len(Waiting), Consume(n), split' = 0,
         NEW ks, ks = SubSeq(queue, 1, Len(queue) - Len(queue')), ks # <<>>
  PROVE  \E k \in 1..Len(queue) :
           /\ ks = SubSeq(queue, 1, k)
           /\ SubSeq(Waiting, 1, n) = BytesOf(k)
<1> DEFINE N == Len(queue)
           K == {i \in 1..N : KeyEnd(i) <= n}
           k == KeysRead(n)
<1>1. queue \in Seq(UserKeys) /\ N \in Nat
  BY DEF QueueInv
<1>2. \A i \in 0..N : Len(BytesOf(i)) \in Nat /\ KeyEnd(i) = Len(BytesOf(i))
  BY <1>1, BytesAddUp DEF KeyEnd, BytesOf
<1>3. n \in Nat /\ n > 0 /\ n <= Len(Waiting)
  BY WaitingTypes
<1>4. k \in 0..N
  <2> DEFINE S == {0} \cup K
  <2>1. S \in SUBSET Nat /\ S # {} /\ \A i \in S : i <= N
    BY <1>1
  <2>2. k = Max(S)
    BY DEF KeysRead
  <2>3. S \subseteq 0..N
    BY <1>1
  <2> HIDE DEF S, K, k
  <2>4. k \in S
    BY <1>1, <2>1, <2>2, GreatestOf
  <2> QED  BY <2>3, <2>4
<1>5. queue' = SubSeq(queue, k + 1, N) /\ split' = IF k = 0 THEN n ELSE n - KeyEnd(k)
  BY <1>3 DEF Consume
<1> HIDE DEF k, K
<1>6. Len(queue') = N - k
  BY <1>1, <1>4, <1>5
<1>7. N - (N - k) = k
  BY <1>1, <1>4
<1>8. ks = SubSeq(queue, 1, k)
  BY <1>6, <1>7
<1>9. k # 0
  <2>1. SubSeq(queue, 1, 0) = <<>>
    BY <1>1
  <2> QED  BY <1>8, <2>1
<1>10. k \in 1..N
  BY <1>1, <1>4, <1>9
<1>11. n = Len(BytesOf(k))
  <2>1. n - KeyEnd(k) = 0 /\ KeyEnd(k) = Len(BytesOf(k)) /\ Len(BytesOf(k)) \in Nat
    BY <1>2, <1>4, <1>5, <1>9
  <2> QED  BY <1>3, <2>1
<1> DEFINE b == BytesOf(k)
           c == BytesOf(N)
<1>12. b \in Seq(Nat) /\ c \in Seq(Nat)
  BY <1>1, <1>4, BytesAddUp
<1>13. Extends(c, b)
  <2>1. N - k \in Nat /\ k + (N - k) = N /\ k + (N - k) <= N
    BY <1>1, <1>4
  <2>2. \A d \in Nat : k + d <= N => Extends(BytesOf(k + d), BytesOf(k))
    BY <1>1, <1>4, BytesExtend
  <2> HIDE DEF N
  <2>3. Extends(BytesOf(k + (N - k)), BytesOf(k))
    BY <2>1, <2>2
  <2> QED  BY <2>1, <2>3
<1>14. Waiting = SubSeq(c, 1, Len(c))
  BY DEF Waiting, BytesOf
<1> HIDE DEF b, c
<1>15. SubSeq(Waiting, 1, n) = b
  <2>1. SubSeq(c, 1, Len(c)) = c
    BY <1>12
  <2>2. n = Len(b) /\ n <= Len(c)
    BY <1>11, <1>13 DEF b, Extends
  <2> DEFINE d == SubSeq(c, 1, n)
  <2>3. d \in Seq(Nat) /\ Len(d) = n /\ \A j \in 1..n : d[j] = c[j]
    BY <1>3, <1>12, <2>2
  <2> HIDE DEF d
  <2>4. \A j \in 1..n : d[j] = b[j]
    BY <1>13, <2>2, <2>3 DEF Extends
  <2>5. d = b
    <3>1. d \in Seq(Nat) /\ b \in Seq(Nat) /\ Len(d) = Len(b) /\ \A j \in 1..Len(d) : d[j] = b[j]
      BY <1>12, <2>2, <2>3, <2>4
    <3> QED  BY <3>1, SameBytes
  <2> QED  BY <1>14, <2>1, <2>5 DEF d
<1> QED  BY <1>8, <1>10, <1>15 DEF b

(* One step of the frontend, with the keys it took.                        *)
LEMMA StepIsHeard ==
  ASSUME TerminalInv, [Next]_vars,
         NEW ks, ks = SubSeq(queue, 1, Len(queue) - Len(queue')), pc = "prompt", ks # <<>>,
         split = 0, split' = 0, \A i \in 1..Len(ks) - 1 : ks[i] # "Escape"
  PROVE  [secret |-> secret', event |-> event']
           = FoldLeft(KeyMeans, [secret |-> secret, event |-> "None"], ks)
<1>1. queue \in Seq(UserKeys) /\ Len(queue) \in Nat /\ QueueInv /\ IsText(secret)
  BY DEF TerminalInv, TextInv, QueueInv
<1>2. queue' # queue
  <2> SUFFICES ASSUME queue' = queue  PROVE  FALSE
    OBVIOUS
  <2>1. SubSeq(queue, 1, 0) = <<>> /\ Len(queue) - Len(queue) = 0
    BY <1>1
  <2> QED  BY <2>1
<1>3. ASSUME NEW k \in UserKeys, Press(k)  PROVE  FALSE
  <2>1. queue' = Append(queue, k)
    BY <1>3 DEF Press
  <2>2. Len(queue') = Len(queue) + 1
    BY <1>1, <2>1
  <2>3. SubSeq(queue, 1, 0 - 1) = <<>> /\ Len(queue) - (Len(queue) + 1) = 0 - 1
    BY <1>1
  <2> QED  BY <2>2, <2>3
<1>4. PICK n \in 1..ReadSize : HandleEvent(n)
  <2>1. \/ \E k \in UserKeys : Press(k)
        \/ \E n \in 1..ReadSize : HandleEvent(n)
    BY <1>2 DEF Next, vars, ChangeSettings, Resize, Signal, OpenTty, EnterMode, EnterModeFails,
      FirstRender, ReadFails, LeaveMode, Deinit, Unregister, CloseAndReturn, At
  <2> QED  BY <1>3, <2>1
<1> DEFINE ts == parse_input(SubSeq(Waiting, 1, n))
           start == [secret |-> secret, event |-> "None"]
           done == FoldLeft(HandleInput, start, ts)
<1>5. secret' = done.secret /\ event' = done.event /\ Consume(n) /\ n \in 1..Min({ReadSize, Len(Waiting)})
  BY <1>4 DEF HandleEvent
<1>6. n \in 1..Len(Waiting)
  <2>1. Len(Waiting) \in Nat /\ ReadSize \in Nat
    BY <1>1, WaitingTypes, SizesAssumption
  <2>2. Min({ReadSize, Len(Waiting)}) = IF ReadSize <= Len(Waiting) THEN ReadSize ELSE Len(Waiting)
    BY <2>1, SmallerOf
  <2> DEFINE m == Min({ReadSize, Len(Waiting)})
  <2> HIDE DEF m
  <2>3. m \in Nat /\ m <= Len(Waiting) /\ n \in 1..m
    BY <1>5, <2>1, <2>2 DEF m
  <2> QED  BY <2>1, <2>3
<1>7. PICK k \in 1..Len(queue) : ks = SubSeq(queue, 1, k) /\ SubSeq(Waiting, 1, n) = BytesOf(k)
  BY <1>1, <1>5, <1>6, WholeRead
<1>8. /\ k \in 0..Len(queue) /\ k \in Nat /\ k - 0 = k
      /\ ks \in Seq(UserKeys) /\ Len(ks) = k /\ \A i \in 1..k : ks[i] = queue[i]
  BY <1>1, <1>7
<1>9. \A i \in 1..k - 1 : queue[i] # "Escape"
  <2> TAKE i \in 1..k - 1
  <2>1. i \in 1..k /\ i \in 1..Len(ks) - 1
    BY <1>8
  <2> QED  BY <1>8, <2>1
<1>10. ts = TokensFrom(0, k)
  BY <1>1, <1>7, <1>8, <1>9, KeysAreParsed
<1>11. ts \in Seq(Tokens)
  <2>1. BytesOf(k) \in Seq(Nat)
    BY <1>1, <1>8, BytesAddUp
  <2> QED  BY <1>7, <2>1, ParsedTokens
<1> HIDE DEF ts
<1>12. Len(ts) = k /\ \A i \in 1..k : ts[i] = TokenOf(ks[i])
  <2>1. ts = [j \in 1..k |-> TokenOf(queue[0 + j])]
    BY <1>8, <1>10 DEF TokensFrom
  <2>2. \A j \in 1..k : 0 + j = j
    OBVIOUS
  <2>3. \A j \in 1..k : ts[j] = TokenOf(ks[j])
    BY <1>8, <2>1, <2>2
  <2>4. Len(ts) = k
    BY <1>8, <1>11, <2>1
  <2> QED  BY <2>3, <2>4
<1>13. start \in Hearing
  BY <1>1 DEF Hearing, Heard, Events, IsText
<1> HIDE DEF start
<1>14. done = FoldLeft(KeyMeans, start, ks)
  BY <1>8, <1>11, <1>12, <1>13, KeysAreHeard
<1>15. done \in Heard
  <2>1. PICK h : /\ h[0] = start /\ \A i \in 0..Len(ts) : h[i] \in Hearing
                 /\ \A i \in 1..Len(ts) : h[i] = HandleInput(h[i-1], ts[i])
                 /\ FoldLeft(HandleInput, start, ts) = h[Len(ts)]
    BY <1>11, <1>13, HeardOneByOne
  <2>2. Len(ts) \in 0..Len(ts)
    BY <1>8, <1>12
  <2> QED  BY <2>1, <2>2 DEF Hearing
<1> HIDE DEF done
<1>16. done = [secret |-> done.secret, event |-> done.event]
  BY <1>15 DEF Heard
<1> QED  BY <1>5, <1>14, <1>16 DEF start

(* A read that begins and ends between two keys does what the keys mean,   *)
(* one after the other: parse_input, over any buffer, and handle_event's   *)
(* loop over its result, against the meaning of the keys.                  *)
THEOREM KeysMeanWhatTheySay == Spec => WholeKeysAreHeard
<1>1. TerminalInv /\ [Next]_vars =>
        [ LET ks == SubSeq(queue, 1, Len(queue) - Len(queue')) IN
          pc = "prompt" /\ ks # <<>> /\ split = 0 /\ split' = 0
            /\ (\A i \in 1..Len(ks) - 1 : ks[i] # "Escape")
          => [secret |-> secret', event |-> event']
               = FoldLeft(KeyMeans, [secret |-> secret, event |-> "None"], ks) ]_vars
  BY StepIsHeard
<1> QED  BY <1>1, TerminalIsKept, PTL DEF Spec, WholeKeysAreHeard
=============================================================================
