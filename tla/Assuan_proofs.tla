--------------------------- MODULE Assuan_proofs ---------------------------
(***************************************************************************)
(* What module Assuan's runs check on small vocabularies, proved for every *)
(* vocabulary, every set of texts and secrets and any number of lines.     *)
(*                                                                         *)
(* The lemmas speak of one command or one frontend event, not of ReplNext, *)
(* so that a module that composes the REPL with a dispatch loop can cite   *)
(* them.                                                                   *)
(***************************************************************************)
EXTENDS AssuanText, NatInduction, SequenceTheorems, FiniteSetTheorems, TLAPS

-----------------------------------------------------------------------------
(* Commands and the log.                                                   *)

(* What the fields of a command are.                                       *)
LEMMA CommandFields ==
  ASSUME NEW c \in Command
  PROVE  /\ c.op \in Op
         /\ c.op = "SET" => c.arg \in LabelName /\ c.text \in Texts \cup {Malformed}
         /\ c.op = "OPTION" /\ c.arg \in DefaultName => c.text \in Texts \cup {Malformed}
         /\ c.op = "OPTION" /\ c.arg \in SettingName => c.text \in Texts
         /\ c # NoCommand
BY DEF Command, Op, SetupOp, PromptOp, LabelName, DefaultName, SettingName, NoCommand

(* A command enters the log with its first reply.                          *)
LEMMA EntryType ==
  ASSUME NEW c \in Command, NEW reply \in ReplyKind
  PROVE  Entry(c, reply) \in LogEntry
BY DEF Entry, LogEntry, Secret

(* Setup commands are accepted while no prompt is active, leave none       *)
(* active, and are logged, if at all, with a final reply.                  *)
LEMMA SetupEffect ==
  ASSUME NEW c \in Command, SetupCommand(c)
  PROVE  /\ mode = "None" /\ mode' = "None"
         /\ \/ log' = log
            \/ \E reply \in {"OK", "NOT_IMPLEMENTED", "UNKNOWN"} : Logged(c, reply)
<1>1. mode = "None" BY DEF SetupCommand
<1>2. CASE SetLabel(c) BY <1>1, <1>2 DEF SetLabel
<1>3. CASE SetOption(c) BY <1>1, <1>3 DEF SetOption
<1>4. CASE BadArgument(c) BY <1>1, <1>4 DEF BadArgument, DecodeFails
<1>5. CASE Reset(c) BY <1>1, <1>5 DEF Reset
<1>6. CASE Bye(c) BY <1>1, <1>6 DEF Bye
<1>7. CASE Stateless(c) BY <1>1, <1>7 DEF Stateless, StatelessReply
<1>8. CASE Blank(c) BY <1>1, <1>8 DEF Blank, replVars
<1>9. CASE EmptyMessage(c) BY <1>1, <1>9 DEF EmptyMessage
<1>10. QED
  BY <1>2, <1>3, <1>4, <1>5, <1>6, <1>7, <1>8, <1>9 DEF SetupCommand

-----------------------------------------------------------------------------
(* Type correctness.                                                       *)

LEMMA InitType == ReplInit => ReplTypeOK
BY DEF ReplInit, ReplTypeOK, AssuanMode

LEMMA SetupType ==
  ASSUME ReplTypeOK, NEW c \in Command, SetupCommand(c)
  PROVE  ReplTypeOK'
<1> USE DEF ReplTypeOK
<1>1. log' \in Seq(LogEntry)
  <2>1. CASE log' = log BY <2>1
  <2>2. ASSUME NEW reply \in {"OK", "NOT_IMPLEMENTED", "UNKNOWN"}, Logged(c, reply)
        PROVE  log' \in Seq(LogEntry)
    <3>1. Entry(c, reply) \in LogEntry BY EntryType DEF ReplyKind, PromptReply
    <3>2. QED BY <2>2, <3>1 DEF Logged
  <2>3. QED BY <2>1, <2>2, SetupEffect
<1>2. mode' \in AssuanMode BY SetupEffect DEF AssuanMode
<1>3. CASE SetLabel(c) BY <1>1, <1>2, <1>3, CommandFields DEF SetLabel
<1>4. CASE SetOption(c) BY <1>1, <1>2, <1>4, CommandFields DEF SetOption
<1>5. CASE BadArgument(c) BY <1>1, <1>2, <1>5 DEF BadArgument, DecodeFails
<1>6. CASE Reset(c) BY <1>1, <1>2, <1>6 DEF Reset
<1>7. CASE Bye(c) BY <1>1, <1>2, <1>7 DEF Bye
<1>8. CASE Stateless(c) BY <1>1, <1>2, <1>8 DEF Stateless
<1>9. CASE Blank(c) BY <1>1, <1>2, <1>9 DEF Blank, replVars
<1>10. CASE EmptyMessage(c) BY <1>1, <1>2, <1>10 DEF EmptyMessage
<1>11. QED
  BY <1>3, <1>4, <1>5, <1>6, <1>7, <1>8, <1>9, <1>10 DEF SetupCommand

(* StartPrompt leaves `fate' to its caller.                                *)
LEMMA StartType ==
  ASSUME ReplTypeOK, NEW c \in Command, StartPrompt(c), fate' \in {"running", "failed"}
  PROVE  ReplTypeOK'
<1> USE DEF ReplTypeOK, StartPrompt
<1>1. mode' \in AssuanMode BY DEF RequiresFrontend, ModeOf, AssuanMode
<1>2. labels' \in [LabelName -> Texts \cup {Unset}]
  BY DEF UsesDefault, DefaultFor, DefaultName, LabelName
<1>3. defaults' \in [DefaultName -> Texts \cup {Unset}] OBVIOUS
<1>4. log' \in Seq(LogEntry)
  <2>1. Entry(c, "PENDING") \in LogEntry BY EntryType DEF ReplyKind
  <2>2. QED BY <2>1 DEF Logged
<1>5. QED BY <1>1, <1>2, <1>3, <1>4

(* The frontend event that ends a prompt answers the last entry; without a *)
(* prompt the reply is an entry of its own.                                *)
LEMMA AnswerType ==
  ASSUME ReplTypeOK, mode # "None" => Len(log) > 0, NEW event \in UserEvent, NEW secret \in Secret,
         HandleFrontendEvent(event, secret), fate' \in {"running", "failed"}
  PROVE  ReplTypeOK'
<1> USE DEF ReplTypeOK, HandleFrontendEvent
<1> DEFINE pin == IF AnswersWithPin(event, secret) THEN secret ELSE <<>>
<1>1. pin \in Secret BY DEF Secret
<1>2. ReplyTo(event, secret) \in ReplyKind BY DEF ReplyTo, ReplyKind, PromptReply
<1>3. log' \in Seq(LogEntry)
  <2>1. CASE mode = "None"
    <3> DEFINE answer == [cmd |-> NoCommand, reply |-> ReplyTo(event, secret), pin |-> pin]
    <3>1. answer \in LogEntry BY <1>1, <1>2 DEF LogEntry
    <3>2. log' = Append(log, answer) BY <2>1 DEF Answered
    <3>3. QED BY <3>1, <3>2
  <2>2. CASE mode # "None"
    <3> DEFINE answer == [cmd |-> log[Len(log)].cmd, reply |-> ReplyTo(event, secret), pin |-> pin]
    <3>1. Len(log) \in 1..Len(log) BY <2>2
    <3>2. log[Len(log)] \in LogEntry BY <3>1
    <3>3. answer \in LogEntry BY <3>2, <1>1, <1>2 DEF LogEntry
    <3>4. log' = [log EXCEPT ![Len(log)] = answer] BY <2>2 DEF Answered
    <3>5. QED BY <3>1, <3>3, <3>4, ExceptSeq
  <2>3. QED BY <2>1, <2>2
<1>4. labels' \in [LabelName -> Texts \cup {Unset}] BY DEF LabelName
<1>5. mode' \in AssuanMode BY DEF AssuanMode
<1>6. QED BY <1>3, <1>4, <1>5

-----------------------------------------------------------------------------
(* One reply per command, and replies that fit.  The two need each other:  *)
(* that only prompts wait is what tells the mode from the entry.           *)

ReplInv == ReplTypeOK /\ OneReplyPerCommand /\ RepliesFit

LEMMA InitInv == ReplInit => ReplInv
BY InitType DEF ReplInit, ReplInv, OneReplyPerCommand, RepliesFit

(* While no prompt is active every entry has its reply.                    *)
LEMMA NothingWaits ==
  ASSUME ReplInv, mode = "None", NEW i \in 1..Len(log)
  PROVE  ~Pending(log[i])
<1>1. SUFFICES ASSUME Pending(log[i]) PROVE FALSE
  OBVIOUS
<1>2. log[i].cmd.op \in PromptOp
  BY <1>1 DEF ReplInv, RepliesFit, ReplyFits, Pending
<1>3. ModeOf(log[i].cmd.op) # "None" BY <1>2 DEF PromptOp, ModeOf
<1>4. QED BY <1>1, <1>3 DEF ReplInv, OneReplyPerCommand

LEMMA SetupInv ==
  ASSUME ReplInv, NEW c \in Command, SetupCommand(c)
  PROVE  ReplInv'
<1>1. ReplTypeOK' BY SetupType DEF ReplInv
<1>2. mode = "None" /\ mode' = "None" BY SetupEffect
<1>3. CASE log' = log
  BY <1>1, <1>2, <1>3 DEF ReplInv, OneReplyPerCommand, RepliesFit, ReplyFits, Pending
<1>4. ASSUME NEW reply \in {"OK", "NOT_IMPLEMENTED", "UNKNOWN"}, Logged(c, reply)
      PROVE  OneReplyPerCommand' /\ RepliesFit'
  <2> DEFINE e == Entry(c, reply)
  <2>1. log \in Seq(LogEntry) BY DEF ReplInv, ReplTypeOK
  <2>2. log' = Append(log, e) /\ Len(log') = Len(log) + 1
    BY <1>4, <2>1 DEF Logged
  <2>3. \A i \in 1..Len(log) : log'[i] = log[i] BY <2>1, <2>2
  <2>4. log'[Len(log')] = e BY <2>1, <2>2
  <2>5. ~Pending(e) /\ e.cmd = c /\ e.pin = <<>> /\ e.reply = reply BY DEF Pending, Entry
  <2>6. \A i \in 1..Len(log') : ~Pending(log'[i])
    BY <2>1, <2>2, <2>3, <2>4, <2>5, <1>2, NothingWaits
  <2>7. OneReplyPerCommand'
    BY <2>1, <2>2, <2>3, <2>4, <2>5, <2>6, <1>2, CommandFields
    DEF OneReplyPerCommand, Pending, ReplInv
  <2>8. ReplyFits(e) BY <2>5 DEF ReplyFits
  <2>9. RepliesFit'
    BY <2>1, <2>2, <2>3, <2>4, <2>8 DEF RepliesFit, ReplInv, ReplyFits
  <2>10. QED BY <2>7, <2>9
<1>5. QED BY <1>1, <1>3, <1>4, SetupEffect DEF ReplInv

LEMMA StartInv ==
  ASSUME ReplInv, NEW c \in Command, StartPrompt(c), fate' \in {"running", "failed"}
  PROVE  ReplInv'
<1> DEFINE e == Entry(c, "PENDING")
<1>1. ReplTypeOK' BY StartType DEF ReplInv
<1>2. mode = "None" /\ mode' = ModeOf(c.op) /\ c.op \in PromptOp
  BY DEF StartPrompt, RequiresFrontend, PromptOp
<1>3. log \in Seq(LogEntry) BY DEF ReplInv, ReplTypeOK
<1>4. log' = Append(log, e) /\ Len(log') = Len(log) + 1
  BY <1>3 DEF StartPrompt, Logged
<1>5. \A i \in 1..Len(log) : log'[i] = log[i] BY <1>3, <1>4
<1>6. log'[Len(log')] = e BY <1>3, <1>4
<1>7. Pending(e) /\ e.cmd = c /\ e.pin = <<>> /\ e.reply = "PENDING" BY DEF Pending, Entry
<1>8. \A i \in 1..Len(log) : ~Pending(log[i]) BY <1>2, NothingWaits
<1>9. OneReplyPerCommand'
  BY <1>2, <1>3, <1>4, <1>5, <1>6, <1>7, <1>8, CommandFields DEF OneReplyPerCommand, Pending, ReplInv
<1>10. ReplyFits(e) BY <1>2, <1>7 DEF ReplyFits
<1>11. RepliesFit'
  BY <1>3, <1>4, <1>5, <1>6, <1>10 DEF RepliesFit, ReplInv, ReplyFits
<1>12. QED BY <1>1, <1>9, <1>11 DEF ReplInv

(* What the end of a prompt does to the log: the last entry, and only that *)
(* one, gets its reply, and keeps its command.                             *)
LEMMA AnswerEffect ==
  ASSUME ReplInv, NEW event \in UserEvent, NEW secret \in Secret,
         mode # "None", HandleFrontendEvent(event, secret)
  PROVE  /\ Len(log) \in 1..Len(log) /\ Len(log') = Len(log)
         /\ \A i \in 1..Len(log) : i # Len(log) => log'[i] = log[i]
         /\ log'[Len(log)].cmd = log[Len(log)].cmd
         /\ log'[Len(log)].reply = ReplyTo(event, secret)
         /\ log'[Len(log)].pin = IF AnswersWithPin(event, secret) THEN secret ELSE <<>>
         /\ log[Len(log)].cmd.op \in PromptOp
         /\ mode = ModeOf(log[Len(log)].cmd.op)
<1>1. log \in Seq(LogEntry) BY DEF ReplInv, ReplTypeOK
<1>2. Len(log) \in 1..Len(log) /\ Pending(log[Len(log)])
  BY <1>1 DEF ReplInv, OneReplyPerCommand
<1>3. log[Len(log)].cmd.op \in PromptOp /\ mode = ModeOf(log[Len(log)].cmd.op)
  BY <1>2 DEF ReplInv, OneReplyPerCommand, RepliesFit, ReplyFits, Pending
<1>4. QED BY <1>1, <1>2, <1>3 DEF HandleFrontendEvent, Answered

LEMMA AnswerInv ==
  ASSUME ReplInv, NEW event \in UserEvent, NEW secret \in Secret,
         mode # "None", HandleFrontendEvent(event, secret), fate' \in {"running", "failed"}
  PROVE  ReplInv'
<1> DEFINE n == Len(log)
<1>1. ReplTypeOK' BY AnswerType DEF ReplInv, OneReplyPerCommand
<1>2. mode' = "None" BY DEF HandleFrontendEvent
<1>3. ~Pending(log'[n])
  BY AnswerEffect DEF ReplyTo, Pending
<1>4. \A i \in 1..n : i # n => ~Pending(log'[i])
  BY AnswerEffect DEF ReplInv, OneReplyPerCommand
<1>5. OneReplyPerCommand'
  BY <1>2, <1>3, <1>4, AnswerEffect DEF ReplInv, OneReplyPerCommand, Pending
<1>6. ReplyFits(log'[n])
  <2>1. AnswersWithPin(event, secret) => log[n].cmd.op = "GETPIN"
    BY AnswerEffect DEF AnswersWithPin, ModeOf, PromptOp
  <2>2. ReplyTo(event, secret) = "PIN" => AnswersWithPin(event, secret)
    BY DEF ReplyTo
  <2>3. AnswersWithPin(event, secret) => ReplyTo(event, secret) = "PIN"
    BY DEF ReplyTo, AnswersWithPin
  <2>4. QED BY <2>1, <2>2, <2>3, AnswerEffect DEF ReplyFits
<1>7. RepliesFit'
  BY <1>6, AnswerEffect DEF ReplInv, RepliesFit, ReplyFits
<1>8. QED BY <1>1, <1>5, <1>7 DEF ReplInv

LEMMA UnchangedInv == ReplInv /\ UNCHANGED replVars => ReplInv'
BY DEF ReplInv, ReplTypeOK, OneReplyPerCommand, RepliesFit, ReplyFits, Pending, replVars

LEMMA StepInv == ReplInv /\ [ReplNext]_replVars => ReplInv'
<1> SUFFICES ASSUME ReplInv, [ReplNext]_replVars PROVE ReplInv'
  OBVIOUS
<1>1. ASSUME NEW c \in Vocabulary, HandleLine(c) PROVE ReplInv'
  <2>1. c \in Command BY VocabularyAssumption
  <2>2. CASE SetupCommand(c) BY <2>1, <2>2, SetupInv
  <2>3. CASE StartPrompt(c) /\ fate' \in {"running", "failed"} BY <2>1, <2>3, StartInv
  <2>4. CASE DropLine(c) BY <2>4, UnchangedInv DEF DropLine
  <2>5. QED BY <1>1, <2>2, <2>3, <2>4 DEF HandleLine
<1>2. ASSUME NEW event \in UserEvent, NEW secret \in Pins, EndPrompt(event, secret) PROVE ReplInv'
  BY <1>2, AnswerInv, PinsAssumption DEF EndPrompt
<1>3. CASE UNCHANGED replVars BY <1>3, UnchangedInv
<1>4. QED BY <1>1, <1>2, <1>3 DEF ReplNext

LEMMA Invariance == ReplSpec => []ReplInv
BY InitInv, StepInv, PTL DEF ReplSpec

(* The REPL's state stays in its types.                                    *)
THEOREM ReplTypeCorrect == ReplSpec => []ReplTypeOK
<1>1. ReplInv => ReplTypeOK BY DEF ReplInv
<1>2. QED BY <1>1, Invariance, PTL

(* Each accepted command gets one reply, in order, and a prompt's command  *)
(* waits for it exactly while the REPL is in the prompt's mode.            *)
THEOREM RepliesInOrder == ReplSpec => []OneReplyPerCommand
<1>1. ReplInv => OneReplyPerCommand BY DEF ReplInv
<1>2. QED BY <1>1, Invariance, PTL

(* A passphrase is only ever the answer to a GETPIN.                       *)
THEOREM PinAnswersGetPin == ReplSpec => []RepliesFit
<1>1. ReplInv => RepliesFit BY DEF ReplInv
<1>2. QED BY <1>1, Invariance, PTL

-----------------------------------------------------------------------------
(* The labels and the commands that set them.                              *)

LabelInv == ReplInv /\ ErrorIsFresh /\ ExplicitLabelWins

(* A command that is appended without touching the error message, and is   *)
(* not one that ends it, leaves it fresh.                                  *)
LEMMA ErrorKept ==
  ASSUME ReplInv, ErrorIsFresh, NEW c \in Command, NEW reply \in ReplyKind, Logged(c, reply),
         labels'["err_message"] = labels["err_message"],
         c.op # "RESET", c.op \in {"GETPIN", "CONFIRM"} => reply = "PENDING"
  PROVE  ErrorIsFresh'
<1> DEFINE e == Entry(c, reply)
<1>1. log \in Seq(LogEntry) BY DEF ReplInv, ReplTypeOK
<1>2. log' = Append(log, e) /\ Len(log') = Len(log) + 1 BY <1>1 DEF Logged
<1>3. \A i \in 1..Len(log) : log'[i] = log[i] BY <1>1, <1>2
<1>4. log'[Len(log) + 1] = e BY <1>1, <1>2
<1>5. e.cmd = c /\ e.reply = reply BY DEF Entry
<1>6. SUFFICES ASSUME labels'["err_message"] # Unset
               PROVE  \E i \in 1..Len(log') :
                        /\ SetsLabel(i, "err_message")'
                        /\ log'[i].cmd.text = labels'["err_message"]
                        /\ \A j \in i+1..Len(log') : ~EndsError(j)'
  BY DEF ErrorIsFresh
<1>7. PICK i \in 1..Len(log) :
        /\ SetsLabel(i, "err_message")
        /\ log[i].cmd.text = labels["err_message"]
        /\ \A j \in i+1..Len(log) : ~EndsError(j)
  BY <1>6 DEF ErrorIsFresh
<1>8. i \in 1..Len(log') BY <1>1, <1>2
<1>9. SetsLabel(i, "err_message")' BY <1>3, <1>7 DEF SetsLabel
<1>10. log'[i].cmd.text = labels'["err_message"] BY <1>3, <1>7
<1>11. ASSUME NEW j \in i+1..Len(log') PROVE ~EndsError(j)'
  <2>1. CASE j \in 1..Len(log) BY <1>1, <1>3, <1>7, <2>1 DEF EndsError, Pending
  <2>2. CASE j = Len(log) + 1 BY <1>4, <1>5, <2>2 DEF EndsError, Pending
  <2>3. QED BY <1>1, <1>2, <2>1, <2>2
<1>12. QED BY <1>8, <1>9, <1>10, <1>11

(* A command that neither sets a label nor resets them keeps the explicit  *)
(* labels, if it keeps every one that is set.                              *)
LEMMA LabelsKept ==
  ASSUME ReplInv, ExplicitLabelWins, NEW c \in Command, NEW reply \in ReplyKind, Logged(c, reply),
         \A l \in LabelName : labels[l] # Unset => labels'[l] = labels[l],
         c.op \notin {"SET", "RESET"}
  PROVE  ExplicitLabelWins'
<1> DEFINE e == Entry(c, reply)
<1>1. log \in Seq(LogEntry) BY DEF ReplInv, ReplTypeOK
<1>2. log' = Append(log, e) /\ Len(log') = Len(log) + 1 BY <1>1 DEF Logged
<1>3. \A i \in 1..Len(log) : log'[i] = log[i] BY <1>1, <1>2
<1>4. log'[Len(log) + 1] = e BY <1>1, <1>2
<1>5. e.cmd = c BY DEF Entry
<1>6. SUFFICES ASSUME NEW l \in {"ok", "not_ok", "cancel"}, NEW i \in 1..Len(log'),
                      SetsLabel(i, l)',
                      \A j \in i+1..Len(log') : ~SetsLabel(j, l)' /\ log'[j].cmd.op # "RESET"
               PROVE  labels'[l] = log'[i].cmd.text
  BY DEF ExplicitLabelWins
<1>7. i \in 1..Len(log)
  BY <1>1, <1>2, <1>4, <1>5, <1>6 DEF SetsLabel
<1>8. SetsLabel(i, l) BY <1>3, <1>6, <1>7 DEF SetsLabel
<1>9. \A j \in i+1..Len(log) : ~SetsLabel(j, l) /\ log[j].cmd.op # "RESET"
  BY <1>1, <1>2, <1>3, <1>6, <1>7 DEF SetsLabel
<1>10. labels[l] = log[i].cmd.text BY <1>7, <1>8, <1>9 DEF ExplicitLabelWins
<1>11. labels[l] # Unset
  <2>1. log[i] \in LogEntry BY <1>1, <1>7
  <2>2. log[i].cmd \in Command
    BY <2>1, <1>8 DEF LogEntry, SetsLabel, NoCommand
  <2>3. log[i].cmd.text \in Texts \cup {Malformed} BY <2>2, <1>8, CommandFields DEF SetsLabel
  <2>4. QED BY <1>10, <2>3, TextsAssumption
<1>12. QED BY <1>3, <1>7, <1>10, <1>11 DEF LabelName

LEMMA SetLabelLabels ==
  ASSUME LabelInv, NEW c \in Command, SetLabel(c)
  PROVE  ErrorIsFresh' /\ ExplicitLabelWins'
<1> USE DEF SetLabel
<1> DEFINE e == Entry(c, "OK")
<1>1. log \in Seq(LogEntry) BY DEF LabelInv, ReplInv, ReplTypeOK
<1>2. log' = Append(log, e) /\ Len(log') = Len(log) + 1 BY <1>1 DEF Logged
<1>3. \A i \in 1..Len(log) : log'[i] = log[i] BY <1>1, <1>2
<1>4. log'[Len(log) + 1] = e BY <1>1, <1>2
<1>5. e.cmd = c BY DEF Entry
<1>6. \A l \in LabelName : labels'[l] = IF l = c.arg THEN c.text ELSE labels[l]
  BY DEF LabelInv, ReplInv, ReplTypeOK
<1>7. ErrorIsFresh'
  <2>1. CASE c.arg = "err_message"
    <3>1. SetsLabel(Len(log), "err_message")' BY <1>2, <1>4, <1>5, <2>1 DEF SetsLabel
    <3>2. log'[Len(log')].cmd.text = labels'["err_message"]
      BY <1>2, <1>4, <1>5, <1>6, <2>1 DEF LabelName
    <3>3. Len(log') \in 1..Len(log') /\ Len(log') + 1..Len(log') = {} BY <1>1, <1>2
    <3>4. QED BY <3>1, <3>2, <3>3 DEF ErrorIsFresh
  <2>2. CASE c.arg # "err_message"
    <3>1. labels'["err_message"] = labels["err_message"] BY <1>6, <2>2 DEF LabelName
    <3>2. QED BY <3>1, ErrorKept DEF LabelInv, ReplyKind, PromptReply
  <2>3. QED BY <2>1, <2>2
<1>8. ExplicitLabelWins'
  <2>1. SUFFICES ASSUME NEW l \in {"ok", "not_ok", "cancel"}, NEW i \in 1..Len(log'),
                        SetsLabel(i, l)',
                        \A j \in i+1..Len(log') : ~SetsLabel(j, l)' /\ log'[j].cmd.op # "RESET"
                 PROVE  labels'[l] = log'[i].cmd.text
    BY DEF ExplicitLabelWins
  <2>2. CASE i = Len(log) + 1
    BY <1>4, <1>5, <1>6, <2>1, <2>2 DEF SetsLabel, LabelName
  <2>3. CASE i \in 1..Len(log)
    <3>1. c.arg # l
      <4>1. Len(log) + 1 \in i+1..Len(log') BY <1>1, <1>2, <2>3
      <4>2. QED BY <4>1, <1>4, <1>5, <2>1 DEF SetsLabel
    <3>2. SetsLabel(i, l) BY <1>3, <2>1, <2>3 DEF SetsLabel
    <3>3. \A j \in i+1..Len(log) : ~SetsLabel(j, l) /\ log[j].cmd.op # "RESET"
      BY <1>1, <1>2, <1>3, <2>1, <2>3 DEF SetsLabel
    <3>4. labels[l] = log[i].cmd.text BY <2>3, <3>2, <3>3 DEF LabelInv, ExplicitLabelWins
    <3>5. QED BY <1>3, <1>6, <2>3, <3>1, <3>4 DEF LabelName
  <2>4. QED BY <1>1, <1>2, <2>2, <2>3
<1>9. QED BY <1>7, <1>8

LEMMA ResetLabels ==
  ASSUME LabelInv, NEW c \in Command, Reset(c)
  PROVE  ErrorIsFresh' /\ ExplicitLabelWins'
<1> USE DEF Reset
<1> DEFINE e == Entry(c, "OK")
<1>1. log \in Seq(LogEntry) BY DEF LabelInv, ReplInv, ReplTypeOK
<1>2. log' = Append(log, e) /\ Len(log') = Len(log) + 1 BY <1>1 DEF Logged
<1>3. log'[Len(log) + 1].cmd.op = "RESET" BY <1>1, <1>2 DEF Entry
<1>4. ErrorIsFresh' BY DEF ErrorIsFresh, LabelName
<1>5. ExplicitLabelWins'
  <2>1. SUFFICES ASSUME NEW l \in {"ok", "not_ok", "cancel"}, NEW i \in 1..Len(log'),
                        SetsLabel(i, l)',
                        \A j \in i+1..Len(log') : ~SetsLabel(j, l)' /\ log'[j].cmd.op # "RESET"
                 PROVE  FALSE
    BY DEF ExplicitLabelWins
  <2>2. i # Len(log) + 1 BY <1>3, <2>1 DEF SetsLabel
  <2>3. Len(log) + 1 \in i+1..Len(log') BY <1>1, <1>2, <2>2
  <2>4. QED BY <1>3, <2>1, <2>3
<1>6. QED BY <1>4, <1>5

LEMMA UnchangedLabels ==
  ASSUME LabelInv, UNCHANGED <<labels, log>>
  PROVE  ErrorIsFresh' /\ ExplicitLabelWins'
BY DEF LabelInv, ErrorIsFresh, ExplicitLabelWins, SetsLabel, EndsError, Pending

LEMMA SetupLabels ==
  ASSUME LabelInv, NEW c \in Command, SetupCommand(c)
  PROVE  LabelInv'
<1>1. ReplInv' BY SetupInv DEF LabelInv
<1>2. ASSUME NEW reply \in {"OK", "NOT_IMPLEMENTED", "UNKNOWN"}, Logged(c, reply),
             UNCHANGED labels, c.op \notin {"SET", "RESET", "GETPIN", "CONFIRM"}
      PROVE  ErrorIsFresh' /\ ExplicitLabelWins'
  BY <1>2, ErrorKept, LabelsKept DEF LabelInv, ReplyKind, PromptReply
<1>3. CASE SetLabel(c) BY <1>1, <1>3, SetLabelLabels DEF LabelInv
<1>4. CASE SetOption(c) BY <1>1, <1>2, <1>4 DEF SetOption, LabelInv
<1>5. CASE BadArgument(c) BY <1>1, <1>5, UnchangedLabels DEF BadArgument, DecodeFails, LabelInv
<1>6. CASE Reset(c) BY <1>1, <1>6, ResetLabels DEF LabelInv
<1>7. CASE Bye(c) BY <1>1, <1>2, <1>7 DEF Bye, LabelInv
<1>8. CASE Stateless(c)
  <2>1. StatelessReply(c.op) \in {"OK", "NOT_IMPLEMENTED", "UNKNOWN"}
    BY <1>8 DEF Stateless, StatelessReply
  <2>2. QED BY <1>1, <1>2, <1>8, <2>1 DEF Stateless, LabelInv
<1>9. CASE Blank(c) BY <1>1, <1>9, UnchangedLabels DEF Blank, replVars, LabelInv
<1>10. CASE EmptyMessage(c) BY <1>1, <1>2, <1>10 DEF EmptyMessage, LabelInv
<1>11. QED
  BY <1>3, <1>4, <1>5, <1>6, <1>7, <1>8, <1>9, <1>10 DEF SetupCommand

(* A default label only fills a button that has no label of its own.       *)
LEMMA StartLabels ==
  ASSUME LabelInv, NEW c \in Command, StartPrompt(c), fate' \in {"running", "failed"}
  PROVE  LabelInv'
<1>1. ReplInv' BY StartInv DEF LabelInv
<1>2. Logged(c, "PENDING") /\ c.op \notin {"SET", "RESET"}
  BY DEF StartPrompt, RequiresFrontend
<1>3. \A l \in LabelName : labels[l] # Unset => labels'[l] = labels[l]
  BY DEF StartPrompt, UsesDefault
<1>4. labels'["err_message"] = labels["err_message"]
  <2>1. ~UsesDefault(c.op, "err_message") BY DEF UsesDefault, DefaultFor
  <2>2. QED BY <2>1 DEF StartPrompt, LabelName
<1>5. "PENDING" \in ReplyKind BY DEF ReplyKind
<1>6. ErrorIsFresh' BY <1>2, <1>4, <1>5, ErrorKept DEF LabelInv
<1>7. ExplicitLabelWins' BY <1>2, <1>3, <1>5, LabelsKept DEF LabelInv
<1>8. QED BY <1>1, <1>6, <1>7 DEF LabelInv

LEMMA AnswerLabels ==
  ASSUME LabelInv, NEW event \in UserEvent, NEW secret \in Secret,
         mode # "None", HandleFrontendEvent(event, secret), fate' \in {"running", "failed"}
  PROVE  LabelInv'
<1> DEFINE n == Len(log)
<1>1. ReplInv /\ ReplInv' BY AnswerInv DEF LabelInv
<1>2. n \in Nat /\ Len(log') = n /\ \A i \in 1..n : log'[i].cmd = log[i].cmd
  BY <1>1, AnswerEffect
<1>3. ErrorIsFresh'
  <2>1. CASE ClearsError
    <3>1. labels'["err_message"] = Unset
      BY <1>1, <2>1 DEF HandleFrontendEvent, ReplInv, ReplTypeOK, LabelName
    <3>2. QED BY <3>1 DEF ErrorIsFresh
  <2>2. CASE ~ClearsError
    <3>1. labels' = labels BY <2>2 DEF HandleFrontendEvent
    <3>2. log'[n].cmd.op = "MESSAGE"
      BY <1>1, <2>2, AnswerEffect DEF ClearsError, ModeOf, PromptOp
    <3>3. \A j \in 1..n : ~EndsError(j) => ~EndsError(j)'
      BY <1>1, <1>2, <3>2, AnswerEffect DEF EndsError, Pending
    <3>4. \A i \in 1..n : SetsLabel(i, "err_message")' <=> SetsLabel(i, "err_message")
      BY <1>2 DEF SetsLabel
    <3>5. QED BY <1>2, <3>1, <3>3, <3>4 DEF ErrorIsFresh, LabelInv
  <2>3. QED BY <2>1, <2>2
<1>4. ExplicitLabelWins'
  <2>1. \A l \in {"ok", "not_ok", "cancel"} : labels'[l] = labels[l]
    BY <1>1 DEF HandleFrontendEvent, ReplInv, ReplTypeOK, LabelName
  <2>2. \A l \in {"ok", "not_ok", "cancel"} : \A i \in 1..n : SetsLabel(i, l)' <=> SetsLabel(i, l)
    BY <1>2 DEF SetsLabel
  <2>3. SUFFICES ASSUME NEW l \in {"ok", "not_ok", "cancel"}, NEW i \in 1..Len(log'),
                        SetsLabel(i, l)',
                        \A j \in i+1..Len(log') : ~SetsLabel(j, l)' /\ log'[j].cmd.op # "RESET"
                 PROVE  labels'[l] = log'[i].cmd.text
    BY DEF ExplicitLabelWins
  <2>4. i \in 1..n /\ SetsLabel(i, l) /\ log'[i].cmd = log[i].cmd BY <1>2, <2>2, <2>3
  <2>5. ASSUME NEW j \in i+1..n PROVE ~SetsLabel(j, l) /\ log[j].cmd.op # "RESET"
    <3>1. j \in 1..n /\ j \in i+1..Len(log') BY <1>2, <2>4, <2>5
    <3>2. log'[j].cmd = log[j].cmd BY <1>2, <3>1
    <3>3. QED BY <2>2, <2>3, <3>1, <3>2
  <2>6. labels[l] = log[i].cmd.text BY <2>4, <2>5 DEF ExplicitLabelWins, LabelInv
  <2>7. QED BY <2>1, <2>4, <2>6
<1>5. QED BY <1>1, <1>3, <1>4 DEF LabelInv

LEMMA InitLabels == ReplInit => LabelInv
BY InitInv DEF ReplInit, LabelInv, ErrorIsFresh, ExplicitLabelWins, LabelName

LEMMA StepLabels == LabelInv /\ [ReplNext]_replVars => LabelInv'
<1> SUFFICES ASSUME LabelInv, [ReplNext]_replVars PROVE LabelInv'
  OBVIOUS
<1>0. ASSUME UNCHANGED replVars PROVE LabelInv'
  BY <1>0, UnchangedInv, UnchangedLabels DEF LabelInv, replVars
<1>1. ASSUME NEW c \in Vocabulary, HandleLine(c) PROVE LabelInv'
  <2>1. c \in Command BY VocabularyAssumption
  <2>2. CASE SetupCommand(c) BY <2>1, <2>2, SetupLabels
  <2>3. CASE StartPrompt(c) /\ fate' \in {"running", "failed"} BY <2>1, <2>3, StartLabels
  <2>4. CASE DropLine(c) BY <2>4, <1>0 DEF DropLine
  <2>5. QED BY <1>1, <2>2, <2>3, <2>4 DEF HandleLine
<1>2. ASSUME NEW event \in UserEvent, NEW secret \in Pins, EndPrompt(event, secret) PROVE LabelInv'
  BY <1>2, AnswerLabels, PinsAssumption DEF EndPrompt
<1>3. QED BY <1>0, <1>1, <1>2 DEF ReplNext

LEMMA LabelInvariance == ReplSpec => []LabelInv
BY InitLabels, StepLabels, PTL DEF ReplSpec

(* An error message outlives no answered GETPIN or CONFIRM.                *)
THEOREM FreshErrors == ReplSpec => []ErrorIsFresh
<1>1. LabelInv => ErrorIsFresh BY DEF LabelInv
<1>2. QED BY <1>1, LabelInvariance, PTL

(* No default label ever replaces one the client set.                      *)
THEOREM ExplicitLabels == ReplSpec => []ExplicitLabelWins
<1>1. LabelInv => ExplicitLabelWins BY DEF LabelInv
<1>2. QED BY <1>1, LabelInvariance, PTL

-----------------------------------------------------------------------------
(* Decoding: pass 2 as a function of the places in a line.                 *)

Byte == 0..255

(* What assuan_decode returns before it looks at the whole result.         *)
Answers == [kind : {"ok"}, bytes : Seq(Byte)] \cup {DecodeError}

Escape(input, i) == IF i + 2 > Len(input) THEN -1 ELSE FromHex(input[i + 1], input[i + 2])

(* What pass 2 makes of the byte at i, with g for what is behind.          *)
Scanned(input, strip_hotkey, g, i) ==
  IF input[i] = Percent
  THEN IF Escape(input, i) < 0 THEN DecodeError ELSE Pushed(Escape(input, i), g[i + 3])
  ELSE IF input[i] = Underscore /\ strip_hotkey THEN g[i + 1]
  ELSE Pushed(input[i], g[i + 1])

Scans(input, strip_hotkey, g) ==
  g = [i \in 1..Len(input) + 1 |->
        CASE i > Len(input) -> Ok(<<>>)
          [] i <= Len(input) /\ input[i] = Percent ->
               IF Escape(input, i) < 0 THEN DecodeError ELSE Pushed(Escape(input, i), g[i + 3])
          [] i <= Len(input) /\ input[i] = Underscore /\ strip_hotkey -> g[i + 1]
          [] OTHER -> Pushed(input[i], g[i + 1])]

ScansTo(input, strip_hotkey, g) ==
  /\ g \in [1..Len(input) + 1 -> Answers]
  /\ g[Len(input) + 1] = Ok(<<>>)
  /\ \A i \in 1..Len(input) : g[i] = Scanned(input, strip_hotkey, g, i)

(* A digit is no percent sign and no hotkey mark.                          *)
Plain(b) == b # Percent /\ b # Underscore

LEMMA DigitValues ==
  ASSUME NEW b \in Byte
  PROVE  Digit(b) \in -1..15 /\ (Digit(b) >= 0 => Plain(b))
<1>1. CASE b \in 48..57
  BY <1>1 DEF Digit, Plain, Percent, Underscore
<1>2. CASE b \in 65..70
  BY <1>2 DEF Digit, Plain, Percent, Underscore
<1>3. CASE b \in 97..102
  BY <1>3 DEF Digit, Plain, Percent, Underscore
<1>4. CASE b \notin 48..57 /\ b \notin 65..70 /\ b \notin 97..102
  BY <1>4 DEF Digit
<1> QED  BY <1>1, <1>2, <1>3, <1>4

LEMMA HexValues ==
  ASSUME NEW a \in Byte, NEW b \in Byte
  PROVE  /\ FromHex(a, b) \in -1..255
         /\ FromHex(a, b) >= 0 => Plain(a) /\ Plain(b)
<1> DEFINE x == Digit(a)
           y == Digit(b)
<1>1. /\ x \in -1..15 /\ y \in -1..15
      /\ x >= 0 => Plain(a)
      /\ y >= 0 => Plain(b)
  BY DigitValues
<1>2. a = Plus => x = -1 /\ Plain(a)
  BY DEF Plus, Digit, Plain, Percent, Underscore
<1> HIDE DEF x, y
<1>3. CASE x >= 0 /\ y >= 0
  <2>1. FromHex(a, b) = x * 16 + y
    BY <1>2, <1>3 DEF FromHex, x, y
  <2> QED  BY <1>1, <1>3, <2>1
<1>4. CASE a = Plus /\ y >= 0
  <2>1. FromHex(a, b) = y
    BY <1>2, <1>4 DEF FromHex, x, y
  <2> QED  BY <1>1, <1>2, <1>4, <2>1
<1>5. CASE ~(x >= 0 /\ y >= 0) /\ ~(a = Plus /\ y >= 0)
  <2>1. FromHex(a, b) = -1
    BY <1>5 DEF FromHex, x, y
  <2> QED  BY <2>1
<1> QED  BY <1>3, <1>4, <1>5

LEMMA DigitsAreHex ==
  ASSUME NEW b \in Byte
  PROVE  Digit(b) >= 0 <=> b \in HexDigits
<1>1. CASE b \in 48..57
  BY <1>1 DEF Digit, HexDigits
<1>2. CASE b \in 65..70
  BY <1>2 DEF Digit, HexDigits
<1>3. CASE b \in 97..102
  BY <1>3 DEF Digit, HexDigits
<1>4. CASE b \notin 48..57 /\ b \notin 65..70 /\ b \notin 97..102
  <2>1. Digit(b) = -1 /\ b \notin HexDigits
    BY <1>4 DEF Digit, HexDigits
  <2> QED  BY <2>1
<1> QED  BY <1>1, <1>2, <1>3, <1>4

(* What stands for a byte is two digits, or a sign and a digit.            *)
LEMMA NumbersAreHex ==
  ASSUME NEW a \in Byte, NEW b \in Byte
  PROVE  FromHex(a, b) >= 0 <=> a \in HexDigits \cup {Plus} /\ b \in HexDigits
<1> DEFINE x == Digit(a)
           y == Digit(b)
<1>1. /\ x \in -1..15 /\ y \in -1..15
      /\ x >= 0 <=> a \in HexDigits
      /\ y >= 0 <=> b \in HexDigits
  BY DigitValues, DigitsAreHex
<1>2. a = Plus => ~(x >= 0)
  BY DEF Plus, Digit
<1> HIDE DEF x, y
<1>3. CASE x >= 0 /\ y >= 0
  <2>1. FromHex(a, b) = x * 16 + y
    BY <1>2, <1>3 DEF FromHex, x, y
  <2> QED  BY <1>1, <1>3, <2>1
<1>4. CASE a = Plus /\ y >= 0
  <2>1. FromHex(a, b) = y
    BY <1>2, <1>4 DEF FromHex, x, y
  <2> QED  BY <1>1, <1>4, <2>1
<1>5. CASE ~(x >= 0 /\ y >= 0) /\ ~(a = Plus /\ y >= 0)
  <2>1. FromHex(a, b) = -1
    BY <1>5 DEF FromHex, x, y
  <2>2. ~(a \in HexDigits \cup {Plus} /\ b \in HexDigits)
    BY <1>1, <1>5
  <2> QED  BY <2>1, <2>2
<1> QED  BY <1>3, <1>4, <1>5

LEMMA EscapeValues ==
  ASSUME NEW input \in Seq(Byte), NEW i \in 1..Len(input)
  PROVE  /\ Escape(input, i) \in -1..255
         /\ Escape(input, i) >= 0 =>
              i + 2 <= Len(input) /\ Plain(input[i + 1]) /\ Plain(input[i + 2])
<1>1. CASE i + 2 > Len(input)
  BY <1>1 DEF Escape
<1>2. CASE ~(i + 2 > Len(input))
  <2>1. i + 1 \in 1..Len(input) /\ i + 2 \in 1..Len(input) /\ i + 2 <= Len(input)
    BY <1>2
  <2>2. input[i + 1] \in Byte /\ input[i + 2] \in Byte
    BY <2>1
  <2>3. Escape(input, i) = FromHex(input[i + 1], input[i + 2])
    BY <1>2 DEF Escape
  <2> DEFINE x == input[i + 1]
             y == input[i + 2]
  <2>4. /\ FromHex(x, y) \in -1..255
        /\ FromHex(x, y) >= 0 => Plain(x) /\ Plain(y)
    <3> HIDE DEF x, y
    <3>1. x \in Byte /\ y \in Byte
      BY <2>2 DEF x, y
    <3> QED  BY <3>1, HexValues
  <2> QED  BY <2>1, <2>3, <2>4
<1> QED  BY <1>1, <1>2

LEMMA PushedTypes ==
  ASSUME NEW b \in Byte, NEW rest \in Answers
  PROVE  Pushed(b, rest) \in Answers
<1>1. CASE rest = DecodeError
  BY <1>1 DEF Pushed, DecodeError, Answers
<1>2. CASE rest \in [kind : {"ok"}, bytes : Seq(Byte)]
  <2>1. rest.kind = "ok" /\ rest.bytes \in Seq(Byte) /\ <<b>> \in Seq(Byte)
    BY <1>2
  <2>2. <<b>> \o rest.bytes \in Seq(Byte)
    BY <2>1
  <2> QED  BY <2>1, <2>2 DEF Pushed, Ok, Answers
<1> QED  BY <1>1, <1>2 DEF Answers

(* What is made of a byte depends on what is behind it.                    *)
LEMMA ScannedTypes ==
  ASSUME NEW input \in Seq(Byte), NEW strip_hotkey \in BOOLEAN, NEW g, NEW i \in 1..Len(input),
         \A j \in i+1..Len(input)+1 : g[j] \in Answers
  PROVE  Scanned(input, strip_hotkey, g, i) \in Answers
<1> DEFINE n == Len(input)
           v == Escape(input, i)
<1>1. input[i] \in Byte /\ n \in Nat /\ v \in -1..255 /\ (v >= 0 => i + 2 <= n)
  BY EscapeValues
<1> HIDE DEF v
<1>2. i + 1 \in i+1..n+1 /\ (v >= 0 => v \in Byte /\ i + 3 \in i+1..n+1)
  BY <1>1 DEF Byte
<1>3. g[i + 1] \in Answers /\ (v >= 0 => g[i + 3] \in Answers)
  BY <1>2
<1>4. Pushed(input[i], g[i + 1]) \in Answers
  BY <1>1, <1>3, PushedTypes
<1>5. v >= 0 => Pushed(v, g[i + 3]) \in Answers
  BY <1>2, <1>3, PushedTypes
<1>6. (~(v < 0) => v >= 0) /\ DecodeError \in Answers
  BY <1>1 DEF Answers
<1> QED  BY <1>3, <1>4, <1>5, <1>6 DEF Scanned, v

(* The cases apart.                                                        *)
LEMMA ScannedIsScans ==
  ASSUME NEW input \in Seq(Byte), NEW strip_hotkey \in BOOLEAN, NEW g,
         g = [i \in 1..Len(input) + 1 |-> g[i]]
  PROVE  Scans(input, strip_hotkey, g) <=>
           /\ g[Len(input) + 1] = Ok(<<>>)
           /\ \A i \in 1..Len(input) : g[i] = Scanned(input, strip_hotkey, g, i)
<1> DEFINE n == Len(input)
           Cases(i) ==
             CASE i > n -> Ok(<<>>)
               [] i <= n /\ input[i] = Percent ->
                    IF Escape(input, i) < 0 THEN DecodeError ELSE Pushed(Escape(input, i), g[i + 3])
               [] i <= n /\ input[i] = Underscore /\ strip_hotkey -> g[i + 1]
               [] OTHER -> Pushed(input[i], g[i + 1])
<1>1. n \in Nat
  OBVIOUS
<1>2. Percent # Underscore
  BY DEF Percent, Underscore
<1>3. Scans(input, strip_hotkey, g) <=> \A i \in 1..n+1 : g[i] = Cases(i)
  BY DEF Scans
<1> HIDE DEF n
<1>4. \A i \in 1..n : Cases(i) = Scanned(input, strip_hotkey, g, i)
  <2> TAKE i \in 1..n
  <2>1. i <= n /\ ~(i > n)
    BY <1>1
  <2> QED  BY <1>2, <2>1 DEF Scanned
<1>5. Cases(n + 1) = Ok(<<>>)
  <2>1. n + 1 > n /\ ~(n + 1 <= n)
    BY <1>1
  <2> QED  BY <2>1
<1> HIDE DEF Cases
<1>6. \A i \in 1..n+1 : i \in 1..n \/ i = n + 1
  BY <1>1
<1>7. n + 1 \in 1..n+1 /\ \A i \in 1..n : i \in 1..n+1
  BY <1>1
<1>8. (\A i \in 1..n+1 : g[i] = Cases(i)) <=>
        g[n + 1] = Ok(<<>>) /\ \A i \in 1..n : g[i] = Scanned(input, strip_hotkey, g, i)
  BY <1>4, <1>5, <1>6, <1>7
<1> QED  BY <1>3, <1>8 DEF n

LEMMA ScanTypes ==
  ASSUME NEW input \in Seq(Byte), NEW strip_hotkey \in BOOLEAN, NEW g, Scans(input, strip_hotkey, g)
  PROVE  ScansTo(input, strip_hotkey, g)
<1> DEFINE n == Len(input)
           S == {i \in 1..n+1 : g[i] \in Answers}
<1>1. n \in Nat
  OBVIOUS
<1>2. g = [i \in 1..n+1 |-> g[i]]
  BY DEF Scans
<1>3. g[n + 1] = Ok(<<>>) /\ \A i \in 1..n : g[i] = Scanned(input, strip_hotkey, g, i)
  BY <1>2, ScannedIsScans
<1>4. n + 1 \in S
  <2>1. Ok(<<>>) \in Answers
    BY DEF Ok, Answers
  <2>2. n + 1 \in 1..n+1
    BY <1>1
  <2> QED  BY <1>3, <2>1, <2>2
<1>5. \A i \in 1..n : (\A j \in i+1..n+1 : j \in S) => i \in S
  <2> SUFFICES ASSUME NEW i \in 1..n, \A j \in i+1..n+1 : g[j] \in Answers
               PROVE  g[i] \in Answers
    BY <1>1
  <2> QED  BY <1>3, ScannedTypes
<1> HIDE DEF S
<1>6. \A i \in 1..n+1 : i \in S
  BY <1>1, <1>4, <1>5, BackwardInduction
<1>7. \A i \in 1..n+1 : g[i] \in Answers
  BY <1>6 DEF S
<1> QED  BY <1>2, <1>3, <1>7 DEF ScansTo

(* Pass 2 as a function of the places in the line.                         *)
LEMMA Decoding ==
  ASSUME NEW input \in Seq(Byte), NEW strip_hotkey \in BOOLEAN
  PROVE  \E g : ScansTo(input, strip_hotkey, g) /\ Decoded(input, strip_hotkey) = g[1]
<1> DEFINE n == Len(input)
           end == Ok(<<>>)
           G == [1..n+1 -> Answers]
           F == [p \in (1..n) \X G |-> Scanned(input, strip_hotkey, p[2], p[1])]
<1>1. n \in Nat /\ end \in Answers
  BY DEF Ok, Answers
<1>2. ASSUME NEW i \in 1..n, NEW g \in G
      PROVE  Scanned(input, strip_hotkey, g, i) \in Answers /\ F[<<i, g>>] = Scanned(input, strip_hotkey, g, i)
  <2>1. \A j \in i+1..n+1 : j \in 1..n+1
    BY <1>1
  <2>2. Scanned(input, strip_hotkey, g, i) \in Answers
    BY <2>1, ScannedTypes
  <2> QED  BY <2>2
<1>3. F \in [(1..n) \X G -> Answers]
  BY <1>2
<1>4. \A i \in 1..n : \A g, h \in G : (\A j \in i+1..n+1 : g[j] = h[j]) => F[<<i, g>>] = F[<<i, h>>]
  <2> SUFFICES ASSUME NEW i \in 1..n, NEW g \in G, NEW h \in G, \A j \in i+1..n+1 : g[j] = h[j]
               PROVE  F[<<i, g>>] = F[<<i, h>>]
    BY Zenon
  <2> DEFINE v == Escape(input, i)
  <2>1. v \in -1..255 /\ (v >= 0 => i + 2 <= n)
    BY EscapeValues
  <2> HIDE DEF v, n
  <2>2. i + 1 \in i+1..n+1 /\ (~(v < 0) => i + 3 \in i+1..n+1)
    BY <1>1, <2>1
  <2>3. g[i + 1] = h[i + 1] /\ (~(v < 0) => g[i + 3] = h[i + 3])
    BY <2>2
  <2>4. Scanned(input, strip_hotkey, g, i) = Scanned(input, strip_hotkey, h, i)
    BY <2>3 DEF Scanned, v
  <2> QED  BY <1>2, <2>4
<1> HIDE DEF F, n, end
<1>5. PICK g \in G : g[n + 1] = end /\ \A i \in 1..n : g[i] = F[<<i, g>>]
  <2>1. LooksBehind(F, n, Answers)
    BY <1>4 DEF LooksBehind
  <2>2. \E g \in G : RunsFrom(F, end, n, g)
    BY <1>1, <1>3, <2>1, BackwardExists
  <2> QED  BY <2>2 DEF RunsFrom
<1> USE DEF n
<1>6. Scans(input, strip_hotkey, g)
  <2>1. g[n + 1] = Ok(<<>>) /\ \A i \in 1..n : g[i] = Scanned(input, strip_hotkey, g, i)
    BY <1>2, <1>5 DEF end
  <2> QED  BY <2>1, ScannedIsScans
<1> DEFINE c == CHOOSE f : Scans(input, strip_hotkey, f)
<1>7. Decoded(input, strip_hotkey) = c[1]
  BY DEF Decoded, Scans, Escape
<1>8. Scans(input, strip_hotkey, c)
  BY <1>6
<1>9. ScansTo(input, strip_hotkey, c)
  BY <1>8, ScanTypes
<1> HIDE DEF c
<1> QED  BY <1>7, <1>9

-----------------------------------------------------------------------------
LEMMA Joined ==
  ASSUME NEW S, NEW a \in Seq(S), NEW b \in Seq(S)
  PROVE  /\ a \o b \in Seq(S) /\ Len(a \o b) = Len(a) + Len(b) /\ Len(b) \in Nat
         /\ \A i \in 1..Len(a) : (a \o b)[i] = a[i]
         /\ \A i \in 1..Len(b) : (a \o b)[Len(a) + i] = b[i]
OBVIOUS

(* What pass 2 makes of the end of a line does not depend on what is before. *)
LEMMA DecodedBehind ==
  ASSUME NEW pre \in Seq(Byte), NEW r \in Seq(Byte), NEW strip_hotkey \in BOOLEAN,
         NEW g, NEW h, ScansTo(pre \o r, strip_hotkey, g), ScansTo(r, strip_hotkey, h)
  PROVE  \A j \in 1..Len(r) + 1 : g[Len(pre) + j] = h[j]
<1> DEFINE p == Len(pre)
           n == Len(r)
           input == pre \o r
           S == {j \in 1..n+1 : g[p + j] = h[j]}
<1>1. /\ p \in Nat /\ n \in Nat /\ input \in Seq(Byte) /\ Len(input) = p + n
      /\ \A i \in 1..n : input[p + i] = r[i]
  OBVIOUS
<1> HIDE DEF p, n, input
<1>2. /\ h[n + 1] = Ok(<<>>) /\ \A i \in 1..n : h[i] = Scanned(r, strip_hotkey, h, i)
      /\ g[(p + n) + 1] = Ok(<<>>) /\ \A i \in 1..p+n : g[i] = Scanned(input, strip_hotkey, g, i)
  BY <1>1 DEF ScansTo, n, input
<1>3. n + 1 \in S
  <2>1. p + (n + 1) = (p + n) + 1 /\ n + 1 \in 1..n+1
    BY <1>1
  <2> QED  BY <1>2, <2>1
<1>4. \A i \in 1..n : (\A j \in i+1..n+1 : j \in S) => i \in S
  <2> SUFFICES ASSUME NEW i \in 1..n, \A j \in i+1..n+1 : j \in S
               PROVE  g[p + i] = h[i]
    BY <1>1
  <2> DEFINE v == Escape(r, i)
  <2>1. v \in -1..255 /\ (v >= 0 => i + 2 <= n)
    BY EscapeValues DEF n
  <2>2. Escape(input, p + i) = v
    <3>1. CASE i + 2 > n
      <4>1. (p + i) + 2 > p + n
        BY <1>1, <3>1
      <4> QED  BY <1>1, <3>1, <4>1 DEF Escape, n
    <3>2. CASE ~(i + 2 > n)
      <4>1. /\ ~((p + i) + 2 > p + n) /\ i + 1 \in 1..n /\ i + 2 \in 1..n
            /\ (p + i) + 1 = p + (i + 1) /\ (p + i) + 2 = p + (i + 2)
        BY <1>1, <3>2
      <4>2. input[p + (i + 1)] = r[i + 1] /\ input[p + (i + 2)] = r[i + 2]
        BY <1>1, <4>1
      <4>3. input[(p + i) + 1] = r[i + 1] /\ input[(p + i) + 2] = r[i + 2]
        BY <4>1, <4>2
      <4> QED  BY <1>1, <3>2, <4>1, <4>3 DEF Escape, n
    <3> QED  BY <3>1, <3>2
  <2> HIDE DEF v
  <2>3. /\ i + 1 \in i+1..n+1 /\ (p + i) + 1 = p + (i + 1)
        /\ ~(v < 0) => i + 3 \in i+1..n+1 /\ (p + i) + 3 = p + (i + 3)
        /\ p + i \in 1..p+n
    BY <1>1, <2>1
  <2>4. g[(p + i) + 1] = h[i + 1] /\ (~(v < 0) => g[(p + i) + 3] = h[i + 3])
    BY <2>3
  <2>5. g[p + i] = Scanned(input, strip_hotkey, g, p + i) /\ h[i] = Scanned(r, strip_hotkey, h, i)
    BY <1>2, <2>3
  <2>6. input[p + i] = r[i]
    BY <1>1
  <2> QED  BY <2>2, <2>4, <2>5, <2>6 DEF Scanned, v
<1> HIDE DEF S
<1>5. \A j \in 1..n+1 : j \in S
  BY <1>1, <1>3, <1>4, BackwardInduction
<1> QED  BY <1>5 DEF S, p, n

LEMMA DecodedTypes ==
  ASSUME NEW input \in Seq(Byte), NEW strip_hotkey \in BOOLEAN
  PROVE  Decoded(input, strip_hotkey) \in Answers
<1>1. PICK g : ScansTo(input, strip_hotkey, g) /\ Decoded(input, strip_hotkey) = g[1]
  BY Decoding
<1>2. 1 \in 1..Len(input) + 1
  OBVIOUS
<1> QED  BY <1>1, <1>2 DEF ScansTo

(* So a line can be decoded from its first byte or escape on.              *)
LEMMA DecodedAfter ==
  ASSUME NEW pre \in Seq(Byte), pre # <<>>, NEW r \in Seq(Byte), NEW strip_hotkey \in BOOLEAN
  PROVE  \E g : /\ Decoded(pre \o r, strip_hotkey) = Scanned(pre \o r, strip_hotkey, g, 1)
                /\ g[Len(pre) + 1] = Decoded(r, strip_hotkey)
<1> DEFINE input == pre \o r
<1>1. input \in Seq(Byte) /\ Len(input) \in Nat /\ 1 \in 1..Len(input) /\ Len(r) \in Nat
  OBVIOUS
<1> HIDE DEF input
<1>2. PICK g : ScansTo(input, strip_hotkey, g) /\ Decoded(input, strip_hotkey) = g[1]
  BY <1>1, Decoding
<1>3. PICK h : ScansTo(r, strip_hotkey, h) /\ Decoded(r, strip_hotkey) = h[1]
  BY Decoding
<1>4. 1 \in 1..Len(r) + 1
  BY <1>1
<1>5. \A j \in 1..Len(r) + 1 : g[Len(pre) + j] = h[j]
  BY <1>2, <1>3, DecodedBehind DEF input
<1>6. g[Len(pre) + 1] = h[1]
  BY <1>4, <1>5
<1>7. g[1] = Scanned(input, strip_hotkey, g, 1)
  BY <1>1, <1>2 DEF ScansTo
<1> QED  BY <1>2, <1>3, <1>6, <1>7 DEF input

LEMMA DecodeByte ==
  ASSUME NEW b \in Byte, b # Percent, NEW r \in Seq(Byte), NEW strip_hotkey \in BOOLEAN
  PROVE  Decoded(<<b>> \o r, strip_hotkey) =
           IF b = Underscore /\ strip_hotkey THEN Decoded(r, strip_hotkey)
           ELSE Pushed(b, Decoded(r, strip_hotkey))
<1> DEFINE pre == <<b>>
<1>1. pre \in Seq(Byte) /\ pre # <<>> /\ Len(pre) + 1 = 2 /\ (pre \o r)[1] = b
  OBVIOUS
<1> HIDE DEF pre
<1>2. PICK g : /\ Decoded(pre \o r, strip_hotkey) = Scanned(pre \o r, strip_hotkey, g, 1)
               /\ g[Len(pre) + 1] = Decoded(r, strip_hotkey)
  BY <1>1, DecodedAfter
<1>3. g[1 + 1] = Decoded(r, strip_hotkey)
  BY <1>1, <1>2
<1> QED  BY <1>1, <1>2, <1>3 DEF Scanned, pre

LEMMA DecodeEscape ==
  ASSUME NEW a \in Byte, NEW b \in Byte, FromHex(a, b) >= 0, NEW r \in Seq(Byte),
         NEW strip_hotkey \in BOOLEAN
  PROVE  Decoded(<<Percent, a, b>> \o r, strip_hotkey) =
           Pushed(FromHex(a, b), Decoded(r, strip_hotkey))
<1> DEFINE pre == <<Percent, a, b>>
           input == pre \o r
<1>1. /\ pre \in Seq(Byte) /\ pre # <<>> /\ Len(pre) = 3
      /\ pre[1] = Percent /\ pre[2] = a /\ pre[3] = b
  BY DEF Percent, Byte
<1> HIDE DEF pre
<1>2. PICK g : /\ Decoded(input, strip_hotkey) = Scanned(input, strip_hotkey, g, 1)
               /\ g[Len(pre) + 1] = Decoded(r, strip_hotkey)
  BY <1>1, DecodedAfter
<1>3. /\ input \in Seq(Byte) /\ Len(input) = Len(pre) + Len(r) /\ Len(r) \in Nat
      /\ \A i \in 1..Len(pre) : input[i] = pre[i]
  <2>1. pre \in Seq(Byte)
    BY <1>1
  <2> QED  BY <2>1
<1>4. input[1] = Percent /\ input[2] = a /\ input[3] = b
  <2> HIDE DEF input
  <2>2. 1 \in 1..Len(pre) /\ 2 \in 1..Len(pre) /\ 3 \in 1..Len(pre)
    BY <1>1
  <2> QED  BY <1>1, <1>3, <2>2
<1> HIDE DEF input
<1>5. Escape(input, 1) = FromHex(a, b)
  <2>1. ~(1 + 2 > Len(input)) /\ 1 + 1 = 2 /\ 1 + 2 = 3
    BY <1>1, <1>3
  <2> QED  BY <1>4, <2>1 DEF Escape
<1>6. ~(FromHex(a, b) < 0)
  <2> DEFINE v == FromHex(a, b)
  <2>1. v \in -1..255 /\ v >= 0
    BY HexValues
  <2> HIDE DEF v
  <2>2. ~(v < 0)
    BY <2>1
  <2> QED  BY <2>2 DEF v
<1>7. g[1 + 3] = Decoded(r, strip_hotkey)
  BY <1>1, <1>2
<1> QED  BY <1>2, <1>4, <1>5, <1>6, <1>7 DEF Scanned, pre, input

(* Each form of a byte is read as that byte.                               *)
LEMMA EscapesAreHex ==
  ASSUME NEW b \in Byte, NEW x \in Hex(b \div 16), NEW y \in Hex(b % 16)
  PROVE  x \in Byte /\ y \in Byte /\ FromHex(x, y) = b
<1>1. /\ b \div 16 \in 0..15 /\ b % 16 \in 0..15 /\ b = (b \div 16) * 16 + (b % 16)
  BY DEF Byte
<1>2. ASSUME NEW n \in 0..15, NEW d \in Hex(n)
      PROVE  d \in Byte /\ Digit(d) = n
  <2>1. CASE n < 10
    <3>1. d = 48 + n /\ d \in 48..57
      BY <1>2, <2>1 DEF Hex
    <3> QED  BY <3>1 DEF Digit, Byte
  <2>2. CASE ~(n < 10) /\ d = 55 + n
    <3>1. d \in 65..70 /\ d \notin 48..57
      BY <2>2
    <3> QED  BY <2>2, <3>1 DEF Digit, Byte
  <2>3. CASE ~(n < 10) /\ d = 87 + n
    <3>1. d \in 97..102 /\ d \notin 48..57 /\ d \notin 65..70
      BY <2>3
    <3> QED  BY <2>3, <3>1 DEF Digit, Byte
  <2> QED  BY <1>2, <2>1, <2>2, <2>3 DEF Hex
<1>3. x \in Byte /\ y \in Byte /\ Digit(x) = b \div 16 /\ Digit(y) = b % 16
  BY <1>1, <1>2
<1>4. Digit(x) >= 0 /\ Digit(y) >= 0
  BY <1>1, <1>3
<1>5. x # Plus
  <2>1. Digit(Plus) = -1
    BY DEF Plus, Digit
  <2> QED  BY <1>4, <2>1
<1>6. FromHex(x, y) = Digit(x) * 16 + Digit(y)
  BY <1>4, <1>5 DEF FromHex
<1>7. FromHex(x, y) = (b \div 16) * 16 + (b % 16)
  BY <1>3, <1>6, Zenon
<1> QED  BY <1>1, <1>3, <1>7, Zenon

LEMMA FormsAreRead ==
  ASSUME NEW b \in Byte, NEW strip_hotkey \in BOOLEAN, NEW e \in ByteEncodings(b, strip_hotkey)
  PROVE  /\ e \in Seq(Byte)
         /\ \A r \in Seq(Byte) : Decoded(e \o r, strip_hotkey) = Pushed(b, Decoded(r, strip_hotkey))
<1> DEFINE forms == EscapesOf(b)
             \cup (IF b = Percent \/ (strip_hotkey /\ b = Underscore) THEN {} ELSE {<<b>>})
<1>1. ASSUME NEW f \in forms
      PROVE  /\ f \in Seq(Byte)
             /\ \A r \in Seq(Byte) : Decoded(f \o r, strip_hotkey) = Pushed(b, Decoded(r, strip_hotkey))
  <2>1. CASE f \in EscapesOf(b)
    <3>1. PICK x \in Hex(b \div 16), y \in Hex(b % 16) : f = <<Percent, x, y>>
      BY <2>1 DEF EscapesOf
    <3>2. x \in Byte /\ y \in Byte /\ FromHex(x, y) = b
      BY EscapesAreHex
    <3>5. b >= 0 /\ Percent \in Byte
      BY DEF Byte, Percent
    <3>3. f \in Seq(Byte)
      BY <3>1, <3>2, <3>5
    <3>4. \A r \in Seq(Byte) : Decoded(<<Percent, x, y>> \o r, strip_hotkey) =
                                Pushed(FromHex(x, y), Decoded(r, strip_hotkey))
      BY <3>2, <3>5, DecodeEscape
    <3> QED  BY <3>1, <3>2, <3>3, <3>4
  <2>2. CASE f = <<b>> /\ b # Percent /\ ~(strip_hotkey /\ b = Underscore)
    BY <2>2, DecodeByte
  <2> QED  BY <2>1, <2>2
<1>2. CASE e \in forms
  BY <1>1, <1>2
<1>3. ASSUME strip_hotkey, NEW f \in forms, e = <<Underscore>> \o f
      PROVE  /\ e \in Seq(Byte)
             /\ \A r \in Seq(Byte) : Decoded(e \o r, strip_hotkey) = Pushed(b, Decoded(r, strip_hotkey))
  <2>1. f \in Seq(Byte) /\ Underscore \in Byte /\ Underscore # Percent
    BY <1>1 DEF Byte, Underscore, Percent
  <2>2. e \in Seq(Byte)
    BY <1>3, <2>1
  <2>3. ASSUME NEW r \in Seq(Byte)
        PROVE  Decoded(e \o r, strip_hotkey) = Pushed(b, Decoded(r, strip_hotkey))
    <3>1. e \o r = <<Underscore>> \o (f \o r) /\ f \o r \in Seq(Byte)
      BY <1>3, <2>1
    <3>2. Decoded(<<Underscore>> \o (f \o r), strip_hotkey) = Decoded(f \o r, strip_hotkey)
      BY <1>3, <2>1, <3>1, DecodeByte
    <3> QED  BY <1>1, <3>1, <3>2
  <2> QED  BY <2>2, <2>3
<1> HIDE DEF forms
<1>4. e \in forms \/ (strip_hotkey /\ \E f \in forms : e = <<Underscore>> \o f)
  BY DEF ByteEncodings, forms
<1> QED  BY <1>2, <1>3, <1>4

-----------------------------------------------------------------------------
(* Pass 1.                                                                 *)

CountFrom(input, b, i) == Cardinality({j \in i..Len(input) : input[j] = b})

CountsDown(input, b) ==
  /\ CountFrom(input, b, 1) = Count(input, b)
  /\ CountFrom(input, b, Len(input) + 1) = 0
  /\ \A i \in 1..Len(input) + 1 : CountFrom(input, b, i) \in Nat
  /\ \A i \in 1..Len(input) :
       CountFrom(input, b, i) = CountFrom(input, b, i + 1) + (IF input[i] = b THEN 1 ELSE 0)

LEMMA CountedOneByOne ==
  ASSUME NEW input \in Seq(Byte), NEW b
  PROVE  CountsDown(input, b)
<1> DEFINE n == Len(input)
           C(i) == {j \in i..n : input[j] = b}
<1>1. n \in Nat /\ DOMAIN input = 1..n
  OBVIOUS
<1> HIDE DEF n
<1>2. Cardinality(C(1)) = Count(input, b)
  BY <1>1 DEF Count
<1>3. Cardinality(C(n + 1)) = 0
  <2>1. C(n + 1) = {}
    BY <1>1
  <2> QED  BY <2>1, FS_EmptySet
<1>4. ASSUME NEW i \in 1..n+1  PROVE  IsFiniteSet(C(i)) /\ Cardinality(C(i)) \in Nat
  <2>1. C(i) \in SUBSET (i..n) /\ IsFiniteSet(i..n)
    BY <1>1, FS_Interval
  <2>2. IsFiniteSet(C(i))
    BY <2>1, FS_Subset
  <2> QED  BY <2>2, FS_CardinalityType
<1>5. ASSUME NEW i \in 1..n
      PROVE  Cardinality(C(i)) = Cardinality(C(i + 1)) + (IF input[i] = b THEN 1 ELSE 0)
  <2>1. i + 1 \in 1..n+1 /\ i \notin C(i + 1)
    BY <1>1
  <2>2. IsFiniteSet(C(i + 1)) /\ Cardinality(C(i + 1)) \in Nat
    BY <1>4, <2>1
  <2>3. C(i) = IF input[i] = b THEN C(i + 1) \cup {i} ELSE C(i + 1)
    BY <1>1
  <2> HIDE DEF C
  <2>4. Cardinality(C(i + 1) \cup {i}) = Cardinality(C(i + 1)) + 1
    BY <2>1, <2>2, FS_AddElement
  <2> QED  BY <2>2, <2>3, <2>4
<1> HIDE DEF C
<1>6. \A i : CountFrom(input, b, i) = Cardinality(C(i))
  BY DEF CountFrom, C, n
<1> QED  BY <1>2, <1>3, <1>4, <1>5, <1>6 DEF CountsDown, n

(* The escapes from i on, and the length of what they and the other bytes  *)
(* become.                                                                 *)
ReadableFrom(input, i) == \A j \in i..Len(input) : input[j] = Percent => Escape(input, j) >= 0

LenFrom(input, strip_hotkey, i) ==
  ((Len(input) + 1) - i) - 2 * CountFrom(input, Percent, i)
    - (IF strip_hotkey THEN CountFrom(input, Underscore, i) ELSE 0)

LEMMA LengthOneByOne ==
  ASSUME NEW input \in Seq(Byte), NEW strip_hotkey \in BOOLEAN
  PROVE  /\ LenFrom(input, strip_hotkey, 1) = DecodedLen(input, strip_hotkey)
         /\ LenFrom(input, strip_hotkey, Len(input) + 1) = 0
         /\ \A i \in 1..Len(input) + 1 : LenFrom(input, strip_hotkey, i) \in Int
         /\ \A i \in 1..Len(input) :
              LenFrom(input, strip_hotkey, i) =
                LenFrom(input, strip_hotkey, i + 1) +
                  (IF input[i] = Percent THEN -1
                   ELSE IF input[i] = Underscore /\ strip_hotkey THEN 0 ELSE 1)
<1> DEFINE n == Len(input)
           P(i) == CountFrom(input, Percent, i)
           U(i) == CountFrom(input, Underscore, i)
           L(i) == LenFrom(input, strip_hotkey, i)
<1>1. n \in Nat /\ Percent # Underscore
  BY DEF Percent, Underscore
<1>2. /\ P(1) = Count(input, Percent) /\ P(n + 1) = 0 /\ \A i \in 1..n+1 : P(i) \in Nat
      /\ \A i \in 1..n : P(i) = P(i + 1) + (IF input[i] = Percent THEN 1 ELSE 0)
  <2>1. CountsDown(input, Percent)
    BY CountedOneByOne
  <2> QED  BY <2>1 DEF CountsDown
<1>3. /\ U(1) = Count(input, Underscore) /\ U(n + 1) = 0 /\ \A i \in 1..n+1 : U(i) \in Nat
      /\ \A i \in 1..n : U(i) = U(i + 1) + (IF input[i] = Underscore THEN 1 ELSE 0)
  <2>1. CountsDown(input, Underscore)
    BY CountedOneByOne
  <2> QED  BY <2>1 DEF CountsDown
<1> HIDE DEF P, U
<1> DEFINE K(i) == IF strip_hotkey THEN U(i) ELSE 0
<1>4. /\ K(n + 1) = 0 /\ \A i \in 1..n+1 : K(i) \in Nat
      /\ \A i \in 1..n : K(i) = K(i + 1) + (IF input[i] = Underscore /\ strip_hotkey THEN 1 ELSE 0)
  <2>1. CASE strip_hotkey
    BY <1>3, <2>1
  <2>2. CASE ~strip_hotkey
    BY <2>2
  <2> QED  BY <2>1, <2>2
<1>5. /\ \A i : L(i) = ((n + 1) - i) - 2 * P(i) - K(i)
      /\ DecodedLen(input, strip_hotkey) = n - 2 * P(1) - K(1)
  BY <1>2, <1>3 DEF LenFrom, DecodedLen, P, U
<1> HIDE DEF n, K, L
<1>6. 1 \in 1..n+1 /\ n + 1 \in 1..n+1 /\ (n + 1) - 1 = n /\ (n + 1) - (n + 1) = 0
  BY <1>1
<1>7. L(1) = DecodedLen(input, strip_hotkey)
  BY <1>5, <1>6
<1>8. L(n + 1) = 0
  <2>1. L(n + 1) = 0 - 2 * 0 - 0
    BY <1>2, <1>4, <1>5, <1>6, Zenon
  <2> QED  BY <2>1
<1>9. ASSUME NEW i \in 1..n+1  PROVE  L(i) \in Int
  <2> DEFINE p == P(i)
             k == K(i)
  <2>1. p \in Nat /\ k \in Nat /\ i \in Nat
    BY <1>1, <1>2, <1>4
  <2>2. L(i) = ((n + 1) - i) - 2 * p - k
    BY <1>5
  <2> HIDE DEF p, k
  <2> QED  BY <1>1, <2>1, <2>2
<1>10. ASSUME NEW i \in 1..n
       PROVE  L(i) = L(i + 1) + (IF input[i] = Percent THEN -1
                                 ELSE IF input[i] = Underscore /\ strip_hotkey THEN 0 ELSE 1)
  <2> DEFINE p == P(i + 1)
             k == K(i + 1)
             a == L(i)
             b == L(i + 1)
             x == IF input[i] = Percent THEN 1 ELSE 0
             y == IF input[i] = Underscore /\ strip_hotkey THEN 1 ELSE 0
  <2>1. i + 1 \in 1..n+1 /\ i \in Nat
    BY <1>1
  <2>2. p \in Nat /\ k \in Nat /\ P(i) = p + x /\ K(i) = k + y
    BY <1>2, <1>4, <2>1
  <2>3. a = ((n + 1) - i) - 2 * (p + x) - (k + y) /\ b = ((n + 1) - (i + 1)) - 2 * p - k
    BY <1>5, <2>2
  <2>4. /\ input[i] = Percent => x = 1 /\ y = 0
        /\ input[i] # Percent => x = 0
        /\ input[i] = Underscore /\ strip_hotkey => y = 1
        /\ ~(input[i] = Underscore /\ strip_hotkey) => y = 0
    BY <1>1
  <2>5. x \in {0, 1} /\ y \in {0, 1}
    OBVIOUS
  <2> HIDE DEF p, k, a, b, x, y
  <2>6. a = b + (1 - 2 * x - y)
    BY <1>1, <2>1, <2>2, <2>3, <2>5
  <2>7. CASE input[i] = Percent
    <3>1. a = b + (-1)
      BY <2>4, <2>6, <2>7
    <3> QED  BY <2>7, <3>1 DEF a, b
  <2>8. CASE input[i] # Percent /\ input[i] = Underscore /\ strip_hotkey
    <3>1. a = b + 0
      BY <2>4, <2>6, <2>8
    <3> QED  BY <2>8, <3>1 DEF a, b
  <2>9. CASE input[i] # Percent /\ ~(input[i] = Underscore /\ strip_hotkey)
    <3>1. a = b + 1
      BY <2>4, <2>6, <2>9
    <3> QED  BY <2>9, <3>1 DEF a, b
  <2> QED  BY <2>7, <2>8, <2>9
<1> QED  BY <1>7, <1>8, <1>9, <1>10 DEF n, L

LEMMA PushedLength ==
  ASSUME NEW b, NEW rest \in Answers
  PROVE  /\ Pushed(b, rest).kind = "ok" <=> rest.kind = "ok"
         /\ rest.kind = "ok" => rest.bytes \in Seq(Byte)
         /\ rest.kind = "ok" => Len(Pushed(b, rest).bytes) = Len(rest.bytes) + 1
<1>1. CASE rest = DecodeError
  BY <1>1 DEF Pushed, DecodeError
<1>2. CASE rest \in [kind : {"ok"}, bytes : Seq(Byte)]
  <2>1. rest.kind = "ok" /\ rest.bytes \in Seq(Byte) /\ Pushed(b, rest) = Ok(<<b>> \o rest.bytes)
    BY <1>2 DEF Pushed
  <2>2. Len(<<b>> \o rest.bytes) = Len(rest.bytes) + 1
    BY <2>1
  <2> QED  BY <2>1, <2>2 DEF Ok
<1> QED  BY <1>1, <1>2 DEF Answers

(* Pass 2 accepts what is behind i when the escapes there are whole, and   *)
(* pushes what pass 1 has counted.                                         *)
LEMMA ScanIsJudged ==
  ASSUME NEW input \in Seq(Byte), NEW strip_hotkey \in BOOLEAN, NEW g, ScansTo(input, strip_hotkey, g)
  PROVE  \A i \in 1..Len(input) + 1 :
           /\ g[i].kind = "ok" <=> ReadableFrom(input, i)
           /\ g[i].kind = "ok" => Len(g[i].bytes) = LenFrom(input, strip_hotkey, i)
<1> DEFINE n == Len(input)
           L(i) == LenFrom(input, strip_hotkey, i)
           S == {i \in 1..n+1 : /\ g[i].kind = "ok" <=> ReadableFrom(input, i)
                                /\ g[i].kind = "ok" => Len(g[i].bytes) = L(i)}
<1>1. n \in Nat
  OBVIOUS
<1>2. /\ \A i \in 1..n+1 : g[i] \in Answers
      /\ g[n + 1] = Ok(<<>>) /\ \A i \in 1..n : g[i] = Scanned(input, strip_hotkey, g, i)
  BY DEF ScansTo
<1>3. /\ L(n + 1) = 0 /\ \A i \in 1..n+1 : L(i) \in Int
      /\ \A i \in 1..n : L(i) = L(i + 1) + (IF input[i] = Percent THEN -1
                                 ELSE IF input[i] = Underscore /\ strip_hotkey THEN 0 ELSE 1)
  BY LengthOneByOne
<1> HIDE DEF L
<1>4. n + 1 \in S
  <2>1. ReadableFrom(input, n + 1)
    BY <1>1 DEF ReadableFrom
  <2>2. Ok(<<>>).kind = "ok" /\ Len(Ok(<<>>).bytes) = 0
    BY DEF Ok
  <2>3. n + 1 \in 1..n+1
    BY <1>1
  <2> QED  BY <1>2, <1>3, <2>1, <2>2, <2>3
<1>5. \A i \in 1..n : (\A j \in i+1..n+1 : j \in S) => i \in S
  <2> SUFFICES ASSUME NEW i \in 1..n, \A j \in i+1..n+1 : j \in S  PROVE  i \in S
    OBVIOUS
  <2> DEFINE v == Escape(input, i)
             ahead == i + 1
             behind == i + 3
  <2>1. /\ v \in -1..255
        /\ v >= 0 => i + 2 <= n /\ Plain(input[i + 1]) /\ Plain(input[i + 2])
    BY EscapeValues
  <2>15. v < 0 <=> ~(v >= 0)
    <3> HIDE DEF v
    <3> QED  BY <2>1
  <2>2. /\ i \in 1..n+1 /\ ahead \in i+1..n+1 /\ ahead \in 1..n+1
        /\ v >= 0 => behind \in i+1..n+1 /\ behind \in 1..n+1
    BY <1>1, <2>1
  <2>3. g[i] = Scanned(input, strip_hotkey, g, i)
    BY <1>2
  <2>4. ReadableFrom(input, i) <=> (input[i] = Percent => v >= 0) /\ ReadableFrom(input, ahead)
    <3>1. \A j \in i..n : j = i \/ j \in ahead..n
      BY <1>1
    <3>2. i \in i..n /\ \A j \in ahead..n : j \in i..n
      BY <1>1
    <3> QED  BY <3>1, <3>2 DEF ReadableFrom
  <2>5. v >= 0 => (ReadableFrom(input, ahead) <=> ReadableFrom(input, behind))
    <3> SUFFICES ASSUME v >= 0  PROVE  ReadableFrom(input, ahead) <=> ReadableFrom(input, behind)
      OBVIOUS
    <3>1. \A j \in ahead..n : j = i + 1 \/ j = i + 2 \/ j \in behind..n
      BY <1>1
    <3>2. \A j \in behind..n : j \in ahead..n
      BY <1>1
    <3>3. input[i + 1] # Percent /\ input[i + 2] # Percent
      BY <2>1 DEF Plain
    <3> QED  BY <3>1, <3>2, <3>3 DEF ReadableFrom
  <2>6. L(i) = L(ahead) + (IF input[i] = Percent THEN -1
                           ELSE IF input[i] = Underscore /\ strip_hotkey THEN 0 ELSE 1)
    BY <1>3
  <2>7. v >= 0 => L(ahead) = L(behind) + 2
    <3> SUFFICES ASSUME v >= 0  PROVE  L(ahead) = L(behind) + 2
      OBVIOUS
    <3>1. /\ i + 1 \in 1..n /\ i + 2 \in 1..n /\ (i + 1) + 1 = i + 2 /\ (i + 2) + 1 = i + 3
          /\ behind \in 1..n+1
      BY <1>1, <2>1
    <3>2. L(i + 1) = L(i + 2) + 1
      BY <1>3, <2>1, <3>1 DEF Plain
    <3>3. L(i + 2) = L(i + 3) + 1
      BY <1>3, <2>1, <3>1 DEF Plain
    <3>4. L(i + 3) \in Int
      BY <1>3, <3>1
    <3> QED  BY <3>2, <3>3, <3>4
  <2>8. L(ahead) \in Int /\ (v >= 0 => L(behind) \in Int)
    BY <1>3, <2>2
  <2>9. /\ g[ahead] \in Answers
        /\ g[ahead].kind = "ok" <=> ReadableFrom(input, ahead)
        /\ g[ahead].kind = "ok" => Len(g[ahead].bytes) = L(ahead)
    BY <1>2, <2>2
  <2>10. v >= 0 => /\ g[behind] \in Answers
                   /\ g[behind].kind = "ok" <=> ReadableFrom(input, behind)
                   /\ g[behind].kind = "ok" => Len(g[behind].bytes) = L(behind)
    BY <1>2, <2>2
  <2> SUFFICES /\ g[i].kind = "ok" <=> ReadableFrom(input, i)
               /\ g[i].kind = "ok" => Len(g[i].bytes) = L(i)
    BY <2>2
  <2> HIDE DEF S
  <2>11. CASE input[i] = Percent /\ v < 0
    <3>1. g[i] = DecodeError
      BY <2>3, <2>11 DEF Scanned
    <3>2. ~ReadableFrom(input, i)
      BY <2>15, <2>4, <2>11
    <3> QED  BY <3>1, <3>2 DEF DecodeError
  <2>12. CASE input[i] = Percent /\ ~(v < 0)
    <3>1. v >= 0
      BY <2>15, <2>12
    <3>2. g[i] = Pushed(v, g[behind])
      BY <2>3, <2>12 DEF Scanned
    <3>3. L(i) = L(behind) + 1
      BY <2>6, <2>7, <2>8, <2>12, <3>1
    <3> HIDE DEF v, ahead, behind
    <3> QED  BY <2>4, <2>5, <2>10, <3>1, <3>2, <3>3, PushedLength
  <2>13. CASE input[i] # Percent /\ input[i] = Underscore /\ strip_hotkey
    <3>1. g[i] = g[ahead]
      BY <2>3, <2>13 DEF Scanned
    <3>2. L(i) = L(ahead)
      BY <2>6, <2>8, <2>13
    <3> QED  BY <2>4, <2>9, <2>13, <3>1, <3>2
  <2>14. CASE input[i] # Percent /\ ~(input[i] = Underscore /\ strip_hotkey)
    <3>1. g[i] = Pushed(input[i], g[ahead])
      BY <2>3, <2>14 DEF Scanned
    <3>2. L(i) = L(ahead) + 1
      BY <2>6, <2>8, <2>14
    <3> HIDE DEF v, ahead, behind
    <3> QED  BY <2>4, <2>9, <2>14, <3>1, <3>2, PushedLength
  <2> QED  BY <2>11, <2>12, <2>13, <2>14
<1> HIDE DEF S
<1>6. \A i \in 1..n+1 : i \in S
  BY <1>1, <1>4, <1>5, BackwardInduction
<1> QED  BY <1>6 DEF S, L

LEMMA DecodedIsJudged ==
  ASSUME NEW input \in Seq(Byte), NEW strip_hotkey \in BOOLEAN
  PROVE  LET out == Decoded(input, strip_hotkey) IN
         /\ out \in Answers
         /\ out.kind = "ok" <=> Readable(input)
         /\ out.kind = "ok" => Len(out.bytes) = DecodedLen(input, strip_hotkey)
<1>1. PICK g : ScansTo(input, strip_hotkey, g) /\ Decoded(input, strip_hotkey) = g[1]
  BY Decoding
<1>2. 1 \in 1..Len(input) + 1
  OBVIOUS
<1>3. /\ g[1].kind = "ok" <=> ReadableFrom(input, 1)
      /\ g[1].kind = "ok" => Len(g[1].bytes) = LenFrom(input, strip_hotkey, 1)
  BY <1>1, <1>2, ScanIsJudged
<1>4. LenFrom(input, strip_hotkey, 1) = DecodedLen(input, strip_hotkey)
  BY LengthOneByOne
<1>5. ReadableFrom(input, 1) <=> Readable(input)
  <2>1. ASSUME NEW j \in 1..Len(input)
        PROVE  Escape(input, j) >= 0 <=>
                 /\ j + 2 <= Len(input)
                 /\ input[j + 1] \in HexDigits \cup {Plus} /\ input[j + 2] \in HexDigits
    <3>1. CASE j + 2 > Len(input)
      <4>1. Escape(input, j) = -1 /\ ~(j + 2 <= Len(input))
        BY <3>1 DEF Escape
      <4> QED  BY <4>1
    <3>2. CASE ~(j + 2 > Len(input))
      <4>1. /\ j + 1 \in 1..Len(input) /\ j + 2 \in 1..Len(input) /\ j + 2 <= Len(input)
            /\ Escape(input, j) = FromHex(input[j + 1], input[j + 2])
        BY <3>2 DEF Escape
      <4> DEFINE a == input[j + 1]
                 b == input[j + 2]
      <4>2. a \in Byte /\ b \in Byte
        BY <4>1
      <4> HIDE DEF a, b
      <4>3. FromHex(a, b) >= 0 <=> a \in HexDigits \cup {Plus} /\ b \in HexDigits
        BY <4>2, NumbersAreHex
      <4> QED  BY <4>1, <4>3 DEF a, b
    <3> QED  BY <3>1, <3>2
  <2>2. DOMAIN input = 1..Len(input)
    OBVIOUS
  <2> QED  BY <2>1, <2>2 DEF ReadableFrom, Readable
<1> QED  BY <1>1, <1>3, <1>4, <1>5, DecodedTypes

-----------------------------------------------------------------------------
(* All encodings of what is behind a place.                                *)
EncodesTo(bytes, strip_hotkey, g) ==
  g = [i \in 1..Len(bytes) + 1 |->
        IF i > Len(bytes) THEN {<<>>}
        ELSE Concatenations(ByteEncodings(bytes[i], strip_hotkey), g[i + 1])]

LEMMA HeadAndTail ==
  ASSUME NEW heads, NEW tails, NEW x \in Concatenations(heads, tails)
  PROVE  \E e \in heads : \E f \in tails : x = e \o f
BY DEF Concatenations

LEMMA LinesOfLines ==
  ASSUME NEW heads \in SUBSET Seq(Byte), NEW tails \in SUBSET Seq(Byte)
  PROVE  Concatenations(heads, tails) \in SUBSET Seq(Byte)
<1> SUFFICES ASSUME NEW x \in Concatenations(heads, tails)  PROVE  x \in Seq(Byte)
  OBVIOUS
<1>1. PICK e \in heads : \E f \in tails : x = e \o f
  BY HeadAndTail
<1>2. PICK f \in tails : x = e \o f
  BY <1>1
<1> QED  BY <1>2

LEMMA Encoding ==
  ASSUME NEW bytes \in Seq(Byte), NEW strip_hotkey \in BOOLEAN
  PROVE  \E g : EncodesTo(bytes, strip_hotkey, g) /\ Encodings(bytes, strip_hotkey) = g[1]
<1> DEFINE n == Len(bytes)
           X == SUBSET Seq(Byte)
           end == {<<>>}
           G == [1..n+1 -> X]
           Made(i, g) == Concatenations(ByteEncodings(bytes[i], strip_hotkey), g[i + 1])
           F == [p \in (1..n) \X G |-> Made(p[1], p[2])]
<1>1. n \in Nat /\ end \in X
  OBVIOUS
<1>2. \A i \in 1..n : i + 1 \in i+1..n+1 /\ i + 1 \in 1..n+1 /\ bytes[i] \in Byte
  BY <1>1
<1>3. ASSUME NEW i \in 1..n, NEW g \in G
      PROVE  F[<<i, g>>] = Made(i, g) /\ Made(i, g) \in X
  <2>1. g[i + 1] \in X
    BY <1>2
  <2> DEFINE heads == ByteEncodings(bytes[i], strip_hotkey)
             tails == g[i + 1]
  <2>2. heads \in SUBSET Seq(Byte) /\ tails \in SUBSET Seq(Byte)
    BY <1>2, <2>1, FormsAreRead
  <2>3. Concatenations(heads, tails) \in SUBSET Seq(Byte)
    <3> HIDE DEF heads, tails
    <3> QED  BY <2>2, LinesOfLines
  <2> QED  BY <2>3
<1> HIDE DEF X, n, end
<1>4. F \in [(1..n) \X G -> X]
  BY <1>3
<1>5. LooksBehind(F, n, X)
  <2> SUFFICES ASSUME NEW i \in 1..n, NEW g \in G, NEW h \in G, \A j \in i+1..n+1 : g[j] = h[j]
               PROVE  F[<<i, g>>] = F[<<i, h>>]
    BY DEF LooksBehind
  <2>1. g[i + 1] = h[i + 1]
    BY <1>2
  <2>2. Made(i, g) = Made(i, h)
    BY <2>1
  <2> QED  BY <1>3, <2>2
<1> HIDE DEF F
<1>6. PICK g \in G : RunsFrom(F, end, n, g)
  BY <1>1, <1>4, <1>5, BackwardExists
<1>7. EncodesTo(bytes, strip_hotkey, g)
  <2>1. ASSUME NEW i \in 1..n+1
        PROVE  g[i] = IF i > n THEN {<<>>} ELSE Made(i, g)
    <3>1. CASE i > n
      <4>1. i = n + 1
        BY <1>1, <3>1
      <4> QED  BY <1>6, <3>1, <4>1 DEF RunsFrom, end
    <3>2. CASE ~(i > n)
      <4>1. i \in 1..n
        BY <1>1, <3>2
      <4> QED  BY <1>3, <1>6, <3>2, <4>1 DEF RunsFrom
    <3> QED  BY <3>1, <3>2
  <2>2. g = [i \in 1..n+1 |-> g[i]]
    OBVIOUS
  <2> QED  BY <2>1, <2>2 DEF EncodesTo, n
<1> DEFINE c == CHOOSE f : EncodesTo(bytes, strip_hotkey, f)
<1>8. Encodings(bytes, strip_hotkey) = c[1]
  BY DEF Encodings, EncodesTo
<1>9. EncodesTo(bytes, strip_hotkey, c)
  BY <1>7
<1> QED  BY <1>8, <1>9

LEMMA EncodingsAreRead ==
  ASSUME NEW bytes \in Seq(Byte), NEW strip_hotkey \in BOOLEAN, NEW e \in Encodings(bytes, strip_hotkey)
  PROVE  e \in Seq(Byte) /\ Decoded(e, strip_hotkey) = Ok(bytes)
<1> DEFINE n == Len(bytes)
           rest(i) == SubSeq(bytes, i, n)
<1>1. PICK g : EncodesTo(bytes, strip_hotkey, g) /\ Encodings(bytes, strip_hotkey) = g[1]
  BY Encoding
<1> DEFINE S == {i \in 1..n+1 : \A f \in g[i] : f \in Seq(Byte) /\ Decoded(f, strip_hotkey) = Ok(rest(i))}
<1>2. n \in Nat
  OBVIOUS
<1>3. \A i \in 1..n+1 :
        g[i] = IF i > n THEN {<<>>}
               ELSE Concatenations(ByteEncodings(bytes[i], strip_hotkey), g[i + 1])
  BY <1>1 DEF EncodesTo
<1>4. n + 1 \in S
  <2>1. n + 1 > n /\ n + 1 \in 1..n+1
    BY <1>2
  <2>2. g[n + 1] = {<<>>}
    BY <1>3, <2>1
  <2>3. rest(n + 1) = <<>>
    OBVIOUS
  <2>4. Decoded(<<>>, strip_hotkey) = Ok(<<>>)
    <3> DEFINE none == <<>>
    <3>1. none \in Seq(Byte) /\ Len(none) + 1 = 1
      OBVIOUS
    <3> HIDE DEF none
    <3>2. PICK h : ScansTo(none, strip_hotkey, h) /\ Decoded(none, strip_hotkey) = h[1]
      BY <3>1, Decoding
    <3> QED  BY <3>1, <3>2 DEF ScansTo, none
  <2>5. <<>> \in Seq(Byte)
    OBVIOUS
  <2> QED  BY <2>1, <2>2, <2>3, <2>4, <2>5
<1>5. \A i \in 1..n : (\A j \in i+1..n+1 : j \in S) => i \in S
  <2> SUFFICES ASSUME NEW i \in 1..n, \A j \in i+1..n+1 : j \in S  PROVE  i \in S
    OBVIOUS
  <2>1. i \in 1..n+1 /\ ~(i > n) /\ i + 1 \in i+1..n+1 /\ bytes[i] \in Byte
    BY <1>2
  <2>2. \A f \in g[i + 1] : f \in Seq(Byte) /\ Decoded(f, strip_hotkey) = Ok(rest(i + 1))
    BY <2>1
  <2>3. <<bytes[i]>> \o rest(i + 1) = rest(i)
    BY <1>2, <2>1
  <2>4. Pushed(bytes[i], Ok(rest(i + 1))) = Ok(rest(i))
    BY <2>3 DEF Pushed, Ok
  <2>5. ASSUME NEW x \in ByteEncodings(bytes[i], strip_hotkey), NEW f \in g[i + 1]
        PROVE  x \o f \in Seq(Byte) /\ Decoded(x \o f, strip_hotkey) = Ok(rest(i))
    <3>1. x \in Seq(Byte) /\ f \in Seq(Byte)
      BY <2>1, <2>2, FormsAreRead
    <3>2. Decoded(x \o f, strip_hotkey) = Pushed(bytes[i], Decoded(f, strip_hotkey))
      BY <2>1, <3>1, FormsAreRead
    <3> QED  BY <2>2, <2>4, <3>1, <3>2
  <2>6. g[i] = Concatenations(ByteEncodings(bytes[i], strip_hotkey), g[i + 1])
    BY <1>3, <2>1
  <2> HIDE DEF rest
  <2>7. \A f \in g[i] : f \in Seq(Byte) /\ Decoded(f, strip_hotkey) = Ok(rest(i))
    <3> TAKE x \in g[i]
    <3> DEFINE heads == ByteEncodings(bytes[i], strip_hotkey)
               tails == g[i + 1]
    <3>1. x \in Concatenations(heads, tails)
      BY <2>6
    <3>2. PICK y \in heads : \E f \in tails : x = y \o f
      <4> HIDE DEF heads, tails
      <4> QED  BY <3>1, HeadAndTail
    <3> QED  BY <2>5, <3>2
  <2> QED  BY <2>1, <2>7
<1> HIDE DEF S
<1>6. \A i \in 1..n+1 : i \in S
  BY <1>2, <1>4, <1>5, BackwardInduction
<1>7. 1 \in 1..n+1 /\ rest(1) = bytes
  BY <1>2
<1>8. 1 \in S
  BY <1>6, <1>7
<1> HIDE DEF rest
<1> QED  BY <1>1, <1>7, <1>8 DEF S

(* A text is what String holds.                                            *)
Utf8 == {t \in Seq(Byte) : IsUtf8(t)}

(* Every encoding of a text, of any length and with any of its bytes       *)
(* escaped or marked, is decoded to that text (assuan_decode).             *)
THEOREM EveryEncodingIsDecoded ==
  \A t \in Utf8, strip_hotkey \in BOOLEAN : \A e \in Encodings(t, strip_hotkey) :
    assuan_decode(e, strip_hotkey) = Ok(t)
<1> SUFFICES ASSUME NEW t \in Utf8, NEW strip_hotkey \in BOOLEAN, NEW e \in Encodings(t, strip_hotkey)
             PROVE  assuan_decode(e, strip_hotkey) = Ok(t)
  OBVIOUS
<1>1. t \in Seq(Byte) /\ IsUtf8(t) /\ Len(t) \in Nat
  BY DEF Utf8
<1>2. e \in Seq(Byte) /\ Decoded(e, strip_hotkey) = Ok(t)
  BY <1>1, EncodingsAreRead
<1>3. Ok(t).kind = "ok" /\ Ok(t).bytes = t
  BY DEF Ok
<1>4. DecodedLen(e, strip_hotkey) = Len(t)
  BY <1>2, <1>3, DecodedIsJudged
<1>5. ~(DecodedLen(e, strip_hotkey) < 0)
  BY <1>1, <1>4
<1> QED  BY <1>1, <1>2, <1>3, <1>5 DEF assuan_decode

(* A line of any bytes is accepted exactly when its escapes are whole and  *)
(* what they make is UTF-8; what is pushed then fits what was reserved     *)
(* for it (assuan_decode).                                                 *)
THEOREM EveryLineIsJudged ==
  \A input \in Seq(Byte), strip_hotkey \in BOOLEAN : Judged(input, strip_hotkey)
<1> SUFFICES ASSUME NEW input \in Seq(Byte), NEW strip_hotkey \in BOOLEAN
             PROVE  Judged(input, strip_hotkey)
  OBVIOUS
<1> DEFINE out == Decoded(input, strip_hotkey)
           len == DecodedLen(input, strip_hotkey)
<1>1. /\ out \in Answers
      /\ out.kind = "ok" <=> Readable(input)
      /\ out.kind = "ok" => Len(out.bytes) = len
  BY DecodedIsJudged
<1>2. out.kind = "ok" => ~(len < 0)
  <2>1. out.kind = "ok" => out.bytes \in Seq(Byte)
    BY <1>1 DEF Answers, DecodeError
  <2>2. out.kind = "ok" => Len(out.bytes) \in Nat
    BY <2>1
  <2> HIDE DEF out, len
  <2> QED  BY <1>1, <2>2
<1>3. assuan_decode(input, strip_hotkey) =
        IF len < 0 THEN Panic
        ELSE IF out.kind = "ok" /\ ~IsUtf8(out.bytes) THEN DecodeError ELSE out
  BY DEF assuan_decode
<1>4. Panic.kind # "ok" /\ DecodeError.kind # "ok"
  BY DEF Panic, DecodeError
<1> HIDE DEF out, len
<1>5. assuan_decode(input, strip_hotkey).kind = "ok" <=> out.kind = "ok" /\ IsUtf8(out.bytes)
  BY <1>2, <1>3, <1>4
<1>6. assuan_decode(input, strip_hotkey).kind = "ok" => assuan_decode(input, strip_hotkey) = out
  BY <1>2, <1>3, <1>4
<1> QED  BY <1>1, <1>5, <1>6 DEF Judged, out, len

-----------------------------------------------------------------------------
(* A byte below 128 in front of a text leaves it a text.                   *)
Utf8Behind(s, g, i) ==
  \E n \in 1..4 : i + n - 1 <= Len(s) /\ WellFormed(SubSeq(s, i, i + n - 1)) /\ g[i + n]

SplitsTo(s, g) == g = [i \in 1..Len(s) + 1 |-> i > Len(s) \/ Utf8Behind(s, g, i)]

LEMMA Splitting ==
  ASSUME NEW s \in Seq(Byte)
  PROVE  \E g : SplitsTo(s, g) /\ IsUtf8(s) = g[1]
<1> DEFINE n == Len(s)
           G == [1..n+1 -> BOOLEAN]
           F == [p \in (1..n) \X G |-> Utf8Behind(s, p[2], p[1])]
<1>1. n \in Nat
  OBVIOUS
<1>2. ASSUME NEW i \in 1..n, NEW g \in G
      PROVE  F[<<i, g>>] = Utf8Behind(s, g, i) /\ Utf8Behind(s, g, i) \in BOOLEAN
  BY Zenon DEF Utf8Behind
<1>3. F \in [(1..n) \X G -> BOOLEAN]
  <2>1. \A p \in (1..n) \X G : Utf8Behind(s, p[2], p[1]) \in BOOLEAN
    BY Zenon DEF Utf8Behind
  <2> QED  BY <2>1
<1>4. LooksBehind(F, n, BOOLEAN)
  <2> SUFFICES ASSUME NEW i \in 1..n, NEW g \in G, NEW h \in G, \A j \in i+1..n+1 : g[j] = h[j]
               PROVE  F[<<i, g>>] = F[<<i, h>>]
    BY Zenon DEF LooksBehind
  <2>1. \A k \in 1..4 : i + k - 1 <= n => i + k \in i+1..n+1
    BY <1>1
  <2>2. \A k \in 1..4 : i + k - 1 <= n => g[i + k] = h[i + k]
    BY <2>1
  <2>3. Utf8Behind(s, g, i) = Utf8Behind(s, h, i)
    <3>1. Utf8Behind(s, g, i) => Utf8Behind(s, h, i)
      BY <2>2, Zenon DEF Utf8Behind, n
    <3>2. Utf8Behind(s, h, i) => Utf8Behind(s, g, i)
      BY <2>2, Zenon DEF Utf8Behind, n
    <3> QED  BY <1>2, <3>1, <3>2
  <2> QED  BY <1>2, <2>3, Zenon
<1> HIDE DEF F
<1>5. PICK g \in G : RunsFrom(F, TRUE, n, g)
  BY <1>1, <1>3, <1>4, BackwardExists
<1>6. SplitsTo(s, g)
  <2>1. ASSUME NEW i \in 1..n+1
        PROVE  g[i] = (i > n \/ Utf8Behind(s, g, i))
    <3>1. CASE i > n
      <4>1. i = n + 1
        BY <1>1, <3>1
      <4>2. g[i] = TRUE
        BY <1>5, <4>1 DEF RunsFrom
      <4> QED  BY <3>1, <4>2
    <3>2. CASE ~(i > n)
      <4>1. i \in 1..n
        BY <1>1, <3>2
      <4>2. g[i] = Utf8Behind(s, g, i) /\ Utf8Behind(s, g, i) \in BOOLEAN
        BY <1>2, <1>5, <4>1, Zenon DEF RunsFrom
      <4>3. (i > n) = FALSE
        BY <3>2
      <4> QED  BY <3>2, <4>2, <4>3, Zenon
    <3> QED  BY <3>1, <3>2
  <2>2. g = [i \in 1..n+1 |-> g[i]]
    OBVIOUS
  <2> QED  BY <2>1, <2>2, Zenon DEF SplitsTo, n
<1> DEFINE c == CHOOSE f : SplitsTo(s, f)
<1>7. IsUtf8(s) = c[1]
  BY Zenon DEF IsUtf8, SplitsTo, Utf8Behind
<1>8. SplitsTo(s, c)
  BY <1>6
<1> QED  BY <1>7, <1>8

LEMMA Utf8Prepended ==
  ASSUME NEW b \in 0..127, NEW t \in Utf8
  PROVE  <<b>> \o t \in Utf8
<1> DEFINE s == <<b>> \o t
           n == Len(t)
<1>0. t \in Seq(Byte) /\ IsUtf8(t)
  BY DEF Utf8
<1>1. /\ n \in Nat /\ s \in Seq(Byte) /\ Len(s) = n + 1 /\ s[1] = b
      /\ \A i \in 1..n : s[i + 1] = t[i]
  BY <1>0 DEF Byte
<1>2. ASSUME NEW i \in 1..n, NEW k \in 1..4, i + k - 1 <= n
      PROVE  SubSeq(s, i + 1, (i + 1) + k - 1) = SubSeq(t, i, i + k - 1)
  <2> DEFINE j == i + k - 1
  <2>1. /\ i \in Nat /\ j \in Nat /\ j <= n /\ i >= 1 /\ (i + 1) + k - 1 = j + 1
        /\ \A m \in 1..(j - i) + 1 : i + m - 1 \in 1..n /\ (i + 1) + m - 1 = (i + m - 1) + 1
    BY <1>1, <1>2
  <2> HIDE DEF j, n, s
  <2>2. \A m \in 1..(j - i) + 1 : s[(i + 1) + m - 1] = t[i + m - 1]
    BY <1>1, <2>1
  <2>3. SubSeq(s, i + 1, j + 1) = SubSeq(t, i, j)
    <3>1. SubSeq(t, i, j) = [m \in 1..(j - i) + 1 |-> t[i + m - 1]]
      BY <2>1
    <3>2. SubSeq(s, i + 1, j + 1) = [m \in 1..(j - i) + 1 |-> s[(i + 1) + m - 1]]
      BY <2>1
    <3> QED  BY <2>2, <3>1, <3>2
  <2> QED  BY <2>1, <2>3 DEF j
<1>3. WellFormed(SubSeq(s, 1, 1 + 1 - 1))
  <2>1. SubSeq(s, 1, 1 + 1 - 1) = <<b>>
    <3> HIDE DEF s
    <3> DEFINE first == SubSeq(s, 1, 1)
    <3>1. first \in Seq(Byte) /\ Len(first) = 1 /\ first[1] = b
      BY <1>1
    <3> HIDE DEF first
    <3>2. first = <<b>>
      BY <3>1
    <3> QED  BY <3>2 DEF first
  <2>2. Utf8SeqLen(b) = 1
    <3>1. b < 128 /\ b \notin 192..223 /\ b \notin 224..239 /\ b \notin 240..247
      OBVIOUS
    <3> QED  BY <3>1 DEF Utf8SeqLen
  <2> HIDE DEF s
  <2>3. WellFormed(<<b>>)
    BY <2>2 DEF WellFormed
  <2> QED  BY <2>1, <2>3
<1> HIDE DEF s, n
<1>4. PICK g : SplitsTo(t, g) /\ IsUtf8(t) = g[1]
  BY <1>0, Splitting
<1>5. PICK h : SplitsTo(s, h) /\ IsUtf8(s) = h[1]
  BY <1>1, Splitting
<1>6. /\ \A i \in 1..n+1 : g[i] = (i > n \/ Utf8Behind(t, g, i))
      /\ \A i \in 1..(n+1)+1 : h[i] = (i > n + 1 \/ Utf8Behind(s, h, i))
  BY <1>1, <1>4, <1>5, Zenon DEF SplitsTo, n
<1> DEFINE S == {i \in 1..n+1 : g[i] => h[i + 1]}
<1>7. n + 1 \in S
  <2>1. n + 1 \in 1..n+1 /\ (n + 1) + 1 \in 1..(n+1)+1 /\ (n + 1) + 1 > n + 1
    BY <1>1
  <2>2. h[(n + 1) + 1]
    BY <1>6, <2>1, Zenon
  <2> QED  BY <2>1, <2>2
<1>8. \A i \in 1..n : (\A j \in i+1..n+1 : j \in S) => i \in S
  <2> SUFFICES ASSUME NEW i \in 1..n, \A j \in i+1..n+1 : j \in S, g[i]  PROVE  h[i + 1]
    BY <1>1
  <2>1. i \in 1..n+1 /\ ~(i > n) /\ i + 1 \in 1..(n+1)+1
    BY <1>1
  <2>2. Utf8Behind(t, g, i)
    BY <1>6, <2>1, Zenon
  <2>3. PICK k \in 1..4 : i + k - 1 <= n /\ WellFormed(SubSeq(t, i, i + k - 1)) /\ g[i + k]
    BY <2>2 DEF Utf8Behind, n
  <2>4. i + k \in i+1..n+1 /\ (i + 1) + k = (i + k) + 1 /\ (i + 1) + k - 1 <= n + 1
    BY <1>1, <2>3
  <2>5. h[(i + k) + 1]
    BY <2>3, <2>4
  <2>6. WellFormed(SubSeq(s, i + 1, (i + 1) + k - 1))
    BY <1>2, <2>3
  <2>7. Utf8Behind(s, h, i + 1)
    BY <1>1, <2>4, <2>5, <2>6, Zenon DEF Utf8Behind
  <2> QED  BY <1>6, <2>1, <2>7, Zenon
<1> HIDE DEF S
<1>9. \A i \in 1..n+1 : i \in S
  BY <1>1, <1>7, <1>8, BackwardInduction
<1>10. 1 \in S /\ 1 \in 1..4 /\ 1 \in 1..(n+1)+1 /\ 1 + 1 - 1 <= n + 1
  BY <1>1, <1>9
<1>11. h[1 + 1]
  BY <1>0, <1>4, <1>10 DEF S
<1>12. Utf8Behind(s, h, 1)
  BY <1>1, <1>3, <1>10, <1>11, Zenon DEF Utf8Behind
<1>13. h[1]
  BY <1>6, <1>10, <1>12, Zenon
<1>14. IsUtf8(s)
  BY <1>5, <1>13, Zenon
<1> QED  BY <1>1, <1>14 DEF Utf8, s

(* A space in front of a text arrives with it.                             *)
LEMMA SpaceArrives ==
  ASSUME NEW t \in Utf8, NEW e \in Encodings(t, FALSE)
  PROVE  assuan_decode(<<Space>> \o e, FALSE) = Ok(<<Space>> \o t)
<1> DEFINE line == <<Space>> \o e
           text == <<Space>> \o t
<1>1. t \in Seq(Byte) /\ IsUtf8(t) /\ e \in Seq(Byte) /\ Decoded(e, FALSE) = Ok(t)
  BY EncodingsAreRead DEF Utf8
<1>2. Space \in Byte /\ Space \in 0..127 /\ Space # Percent
  BY DEF Space, Byte, Percent
<1>3. text \in Seq(Byte) /\ IsUtf8(text) /\ Len(text) \in Nat
  <2>1. text \in Utf8
    BY <1>2, Utf8Prepended
  <2> HIDE DEF text
  <2> QED  BY <2>1 DEF Utf8
<1>4. line \in Seq(Byte)
  BY <1>1, <1>2
<1>5. Decoded(line, FALSE) = Pushed(Space, Decoded(e, FALSE))
  BY <1>1, <1>2, DecodeByte
<1>6. Decoded(line, FALSE) = Ok(text)
  <2>1. Ok(t).kind = "ok" /\ Ok(t).bytes = t
    BY DEF Ok
  <2>2. Pushed(Space, Ok(t)) = Ok(text)
    BY <2>1 DEF Pushed
  <2> QED  BY <1>1, <1>5, <2>2
<1> HIDE DEF line, text
<1>7. Ok(text).kind = "ok" /\ Ok(text).bytes = text
  BY DEF Ok
<1>8. DecodedLen(line, FALSE) = Len(text)
  BY <1>4, <1>6, <1>7, DecodedIsJudged
<1>9. ~(DecodedLen(line, FALSE) < 0)
  <2> DEFINE len == DecodedLen(line, FALSE)
  <2>1. len \in Nat
    BY <1>3, <1>8
  <2> HIDE DEF len
  <2>2. ~(len < 0)
    BY <2>1
  <2> QED  BY <2>2 DEF len
<1>10. assuan_decode(line, FALSE) = Ok(text)
  BY <1>3, <1>6, <1>7, <1>9 DEF assuan_decode
<1> QED  BY <1>10 DEF line, text

-----------------------------------------------------------------------------
(* The lines, and the texts they bring.                                    *)
LEMMA EmptyDecoded == assuan_decode(<<>>, FALSE) = Ok(<<>>)
<1> DEFINE none == <<>>
<1>1. none \in Seq(Byte) /\ Len(none) = 0
  OBVIOUS
<1>2. none \in Encodings(none, FALSE)
  <2>1. PICK g : EncodesTo(none, FALSE, g) /\ Encodings(none, FALSE) = g[1]
    BY <1>1, Encoding
  <2>2. g[1] = {<<>>}
    BY <1>1, <2>1 DEF EncodesTo
  <2> QED  BY <2>1, <2>2
<1>3. IsUtf8(none)
  <2>1. PICK g : SplitsTo(none, g) /\ IsUtf8(none) = g[1]
    BY <1>1, Splitting
  <2>2. 1 \in 1..Len(none) + 1 /\ 1 > Len(none)
    BY <1>1
  <2>3. g[1]
    BY <2>1, <2>2, Zenon DEF SplitsTo
  <2> QED  BY <2>1, <2>3, Zenon
<1>4. none \in Utf8
  BY <1>1, <1>3 DEF Utf8
<1> HIDE DEF none
<1>5. assuan_decode(none, FALSE) = Ok(none)
  BY <1>2, <1>4, EveryEncodingIsDecoded
<1> QED  BY <1>5 DEF none

LEMMA Behind ==
  ASSUME NEW front \in Seq(Byte), NEW rest \in Seq(Byte)
  PROVE  From(front \o rest, Len(front)) = rest
<1> DEFINE line == front \o rest
           cut == SubSeq(line, Len(front) + 1, Len(line))
<1>1. /\ line \in Seq(Byte) /\ Len(line) = Len(front) + Len(rest)
      /\ Len(front) \in Nat /\ Len(rest) \in Nat
      /\ \A i \in 1..Len(rest) : line[Len(front) + i] = rest[i]
  BY Joined
<1>2. cut \in Seq(Byte) /\ Len(cut) = Len(rest) /\ \A i \in 1..Len(rest) : cut[i] = line[Len(front) + i]
  <2> HIDE DEF line
  <2> QED  BY <1>1
<1> HIDE DEF cut, line
<1>3. cut = rest
  BY <1>1, <1>2
<1> QED  BY <1>3 DEF From, cut, line

LEMMA CutOff ==
  ASSUME NEW k \in Nat, NEW head \in [1..k -> Byte], NEW rest \in Seq(Byte)
  PROVE  /\ From(head \o rest, k) = rest
         /\ From((head \o <<Space>>) \o rest, k) = <<Space>> \o rest
         /\ From((head \o <<Space>>) \o rest, k + 1) = rest
         /\ From(head, k + 1) = <<>>
<1> DEFINE space == <<Space>>
<1>1. /\ head \in Seq(Byte) /\ Len(head) = k
      /\ space \in Seq(Byte) /\ Len(space) = 1
  BY DEF Space, Byte
<1> HIDE DEF space
<1>2. /\ head \o space \in Seq(Byte) /\ Len(head \o space) = k + 1 /\ space \o rest \in Seq(Byte)
      /\ (head \o space) \o rest = head \o (space \o rest)
  <2>1. head \o space \in Seq(Byte) /\ Len(head \o space) = k + 1
    <3>1. head \o space \in Seq(Byte) /\ Len(head \o space) = Len(head) + Len(space)
      BY <1>1, Joined
    <3> QED  BY <1>1, <3>1
  <2>2. space \o rest \in Seq(Byte)
    BY <1>1
  <2>3. (head \o space) \o rest = head \o (space \o rest)
    BY <1>1, ConcatAssociative
  <2> QED  BY <2>1, <2>2, <2>3
<1>3. From(head \o rest, k) = rest
  BY <1>1, Behind
<1>4. From((head \o space) \o rest, k) = space \o rest
  BY <1>1, <1>2, Behind
<1>5. From((head \o space) \o rest, k + 1) = rest
  BY <1>2, Behind
<1>6. From(head, k + 1) = <<>>
  BY <1>1 DEF From
<1> QED  BY <1>3, <1>4, <1>5, <1>6 DEF space

(* A text meant arrives as it is kept, however it was encoded.             *)
LEMMA SaidIsKept ==
  ASSUME NEW name \in LabelName \cup DefaultName, NEW t \in Meant, NEW line \in Saying(name, t)
  PROVE  Arrives(name, line) = Kept(name, t)
<1> DEFINE k == KeywordLength[name]
           strip_hotkey == name \in DefaultName
<1>1. t \in Utf8
  BY MeantAssumption DEF Utf8, Byte
<1>2. k \in Nat /\ Keyword(name) \in [1..k -> Byte]
  BY DEF KeywordLength, Keyword, LabelName, DefaultName, Byte
<1>3. /\ name \in TextLabel => name \notin ButtonLabel /\ strip_hotkey = FALSE
      /\ name \in ButtonLabel => name \notin TextLabel /\ strip_hotkey = FALSE
      /\ name \in DefaultName => name \notin TextLabel /\ name \notin ButtonLabel /\ strip_hotkey = TRUE
      /\ name \in TextLabel \/ name \in ButtonLabel \/ name \in DefaultName
  BY DEF TextLabel, ButtonLabel, DefaultName, LabelName
<1>4. ASSUME NEW x, assuan_decode(Argument(name, line), strip_hotkey) = Ok(x)
      PROVE  Arrives(name, line) = x
  BY <1>4 DEF Arrives, Ok
<1> HIDE DEF k
<1>5. CASE name \in ButtonLabel /\ t = <<>> /\ line = Keyword(name)
  <2>1. From(line, k + 1) = <<>>
    <3>1. <<>> \in Seq(Byte)
      OBVIOUS
    <3> QED  BY <1>2, <1>5, <3>1, CutOff
  <2>2. Argument(name, line) = <<>>
    BY <1>5, <2>1 DEF Argument, k
  <2>3. Arrives(name, line) = <<>>
    BY <1>3, <1>4, <1>5, <2>2, EmptyDecoded
  <2> QED  BY <1>3, <1>5, <2>3 DEF Kept
<1>6. ASSUME NEW e \in Encodings(t, strip_hotkey), line = Line(name, e)
      PROVE  Arrives(name, line) = Kept(name, t)
  <2>1. e \in Seq(Byte) /\ strip_hotkey \in BOOLEAN
    <3>1. t \in Seq(Byte)
      BY <1>1 DEF Utf8
    <3>2. strip_hotkey \in BOOLEAN
      BY <1>3
    <3> HIDE DEF strip_hotkey
    <3> QED  BY <1>6, <3>1, <3>2, EncodingsAreRead
  <2>2. assuan_decode(e, strip_hotkey) = Ok(t)
    BY <1>1, <2>1, EveryEncodingIsDecoded
  <2>3. CASE name \in TextLabel
    <3>1. line = (Keyword(name) \o <<Space>>) \o e
      BY <1>3, <1>6, <2>3 DEF Line
    <3>2. Argument(name, line) = <<Space>> \o e
      BY <1>2, <1>3, <2>1, <2>3, <3>1, CutOff DEF Argument, k
    <3>3. assuan_decode(<<Space>> \o e, FALSE) = Ok(<<Space>> \o t)
      BY <1>1, <1>3, <2>3, SpaceArrives
    <3>4. Arrives(name, line) = <<Space>> \o t
      BY <1>3, <1>4, <2>3, <3>2, <3>3
    <3> QED  BY <2>3, <3>4 DEF Kept
  <2>4. CASE name \in ButtonLabel
    <3>1. line = (Keyword(name) \o <<Space>>) \o e
      BY <1>3, <1>6, <2>4 DEF Line
    <3>2. Argument(name, line) = e
      BY <1>2, <2>1, <2>4, <3>1, CutOff DEF Argument, k
    <3> QED  BY <1>3, <1>4, <2>2, <2>4, <3>2 DEF Kept
  <2>5. CASE name \in DefaultName
    <3>1. line = Keyword(name) \o e
      <4>1. Keyword(name) \in Seq(Byte)
        BY <1>2
      <4>2. Keyword(name) \o <<>> = Keyword(name)
        BY <4>1
      <4> QED  BY <1>6, <2>5, <4>2 DEF Line
    <3>2. Argument(name, line) = e
      BY <1>2, <1>3, <2>1, <2>5, <3>1, CutOff DEF Argument, k
    <3> QED  BY <1>3, <1>4, <2>2, <2>5, <3>2 DEF Kept
  <2> QED  BY <1>3, <2>3, <2>4, <2>5
<1> QED  BY <1>5, <1>6 DEF Saying

-----------------------------------------------------------------------------
(* Labels and defaults are texts meant, for as long as the client says     *)
(* what it means.                                                          *)
MeantLabels == \A l \in LabelName : labels[l] \in {Unset} \cup {Kept(l, t) : t \in Meant}
MeantDefaults == \A d \in DefaultName : defaults[d] \in {Unset} \cup Meant
MeantInv == MeantLabels /\ MeantDefaults

LEMMA SaidOrBroken ==
  ASSUME NEW c \in Vocabulary, c.op = "SET" \/ (c.op = "OPTION" /\ c.arg \in DefaultName),
         c.text # Malformed
  PROVE  c.text \in {Kept(c.arg, t) : t \in Meant}
<1>1. c.arg \in LabelName \cup DefaultName
  BY VocabularyAssumption, CommandFields
<1>2. PICK t \in Meant : \E line \in Saying(c.arg, t) : c.text = Arrives(c.arg, line)
  BY SayingAssumption
<1>3. c.text = Kept(c.arg, t)
  BY <1>1, <1>2, SaidIsKept
<1> QED  BY <1>3

(* A default label and a default's button are not kept with a space.       *)
LEMMA KeptAsMeant ==
  ASSUME NEW name \in ButtonLabel \cup DefaultName
  PROVE  {Kept(name, t) : t \in Meant} = Meant
BY DEF Kept, TextLabel, ButtonLabel, DefaultName

LEMMA InitMeant == ReplInit => MeantInv
BY DEF ReplInit, MeantInv, MeantLabels, MeantDefaults

LEMMA SetupMeant ==
  ASSUME ReplTypeOK, MeantInv, NEW c \in Vocabulary, SetupCommand(c)
  PROVE  MeantInv'
<1> USE DEF MeantInv, MeantLabels, MeantDefaults
<1>1. CASE SetLabel(c)
  <2>1. c.text \in {Kept(c.arg, t) : t \in Meant}
    BY <1>1, SaidOrBroken DEF SetLabel
  <2> QED  BY <1>1, <2>1 DEF SetLabel, ReplTypeOK
<1>2. CASE SetOption(c)
  <2>1. c.arg \in DefaultName => c.text \in Meant
    BY <1>2, SaidOrBroken, KeptAsMeant DEF SetOption
  <2> QED  BY <1>2, <2>1 DEF SetOption, ReplTypeOK
<1>3. CASE BadArgument(c) BY <1>3 DEF BadArgument, DecodeFails
<1>4. CASE Reset(c) BY <1>4 DEF Reset
<1>5. CASE Bye(c) BY <1>5 DEF Bye
<1>6. CASE Stateless(c) BY <1>6 DEF Stateless
<1>7. CASE Blank(c) BY <1>7 DEF Blank, replVars
<1>8. CASE EmptyMessage(c) BY <1>8 DEF EmptyMessage
<1> QED  BY <1>1, <1>2, <1>3, <1>4, <1>5, <1>6, <1>7, <1>8 DEF SetupCommand

(* A prompt moves defaults to labels of buttons only.                      *)
LEMMA StartMeant ==
  ASSUME MeantInv, NEW c \in Vocabulary, StartPrompt(c)
  PROVE  MeantInv'
<1>1. MeantLabels'
  <2> SUFFICES ASSUME NEW l \in LabelName
               PROVE  labels'[l] \in {Unset} \cup {Kept(l, t) : t \in Meant}
    BY DEF MeantLabels
  <2>1. CASE UsesDefault(c.op, l)
    <3>1. DefaultFor(c.op, l) \in DefaultName /\ l \in ButtonLabel
      BY <2>1 DEF UsesDefault, DefaultFor, DefaultName, ButtonLabel
    <3>2. labels'[l] \in {Unset} \cup Meant
      BY <2>1, <3>1 DEF StartPrompt, MeantInv, MeantDefaults
    <3> QED  BY <3>1, <3>2, KeptAsMeant
  <2>2. CASE ~UsesDefault(c.op, l)
    BY <2>2 DEF StartPrompt, MeantInv, MeantLabels
  <2> QED  BY <2>1, <2>2
<1>2. MeantDefaults'
  BY DEF StartPrompt, MeantInv, MeantDefaults
<1> QED  BY <1>1, <1>2 DEF MeantInv

LEMMA StepMeant == ReplTypeOK /\ MeantInv /\ [ReplNext]_replVars => MeantInv'
<1> SUFFICES ASSUME ReplTypeOK, MeantInv, [ReplNext]_replVars PROVE MeantInv'
  OBVIOUS
<1>1. CASE UNCHANGED replVars
  BY <1>1 DEF replVars, MeantInv, MeantLabels, MeantDefaults
<1>2. ASSUME NEW c \in Vocabulary, HandleLine(c) PROVE MeantInv'
  <2>1. CASE SetupCommand(c) BY <2>1, SetupMeant
  <2>2. CASE StartPrompt(c) BY <2>2, StartMeant
  <2>3. CASE DropLine(c) BY <1>1, <2>3 DEF DropLine
  <2> QED  BY <1>2, <2>1, <2>2, <2>3 DEF HandleLine
<1>3. ASSUME NEW event \in UserEvent, NEW secret \in Pins, EndPrompt(event, secret) PROVE MeantInv'
  <2>1. labels' = labels \/ labels' = [labels EXCEPT !["err_message"] = Unset]
    BY <1>3 DEF EndPrompt, HandleFrontendEvent
  <2>2. MeantLabels'
    BY <2>1 DEF MeantInv, MeantLabels, ReplTypeOK
  <2>3. MeantDefaults'
    BY <1>3 DEF EndPrompt, HandleFrontendEvent, MeantInv, MeantDefaults
  <2> QED  BY <2>2, <2>3 DEF MeantInv
<1> QED  BY <1>1, <1>2, <1>3 DEF ReplNext

(* The labels and defaults of a REPL are texts its client meant, title,    *)
(* description, prompt and error message each with the space that was in   *)
(* front of it, whichever encodings were sent and in whatever order        *)
(* commands, defaults, prompts and RESETs came (handle_line, get_option,   *)
(* assuan_decode, Config::labels).                                         *)
THEOREM LabelsArriveAsMeant == ReplSpec => []LabelsAreMeant
<1>1. AllJudged
  <2>1. ASSUME NEW input \in ShortLines  PROVE  input \in Seq(Byte)
    <3>1. PICK k \in 0..4 : input \in [1..k -> {Percent, Plus, Underscore, 56, 65, 103}]
      BY DEF ShortLines
    <3>2. {Percent, Plus, Underscore, 56, 65, 103} \subseteq Byte
      BY DEF Percent, Plus, Underscore, Byte
    <3>3. k \in Nat /\ input \in [1..k -> Byte]
      BY <3>1, <3>2
    <3> QED  BY <3>3
  <2> QED  BY <2>1, EveryLineIsJudged DEF AllJudged
<1>2. MeantInv => LabelsAreMeant
  BY <1>1 DEF MeantInv, MeantLabels, MeantDefaults, LabelsAreMeant
<1>3. ReplSpec => []MeantInv
  BY InitMeant, StepMeant, ReplTypeCorrect, PTL DEF ReplSpec
<1> QED  BY <1>2, <1>3, PTL
=============================================================================
