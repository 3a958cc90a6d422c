--------------------------- MODULE AssuanService ---------------------------
(***************************************************************************)
(* What pinentry mode promises its client, as the client sees it: it takes *)
(* the complete lines in the order they were written, each exactly once;   *)
(* it answers each one it accepts once and in order; it accepts nothing    *)
(* while a prompt waits for the user; a passphrase answers only a GETPIN;  *)
(* it returns normally only with no prompt waiting, after BYE or when the  *)
(* client closed its end.  It may fail at any time.                        *)
(***************************************************************************)
EXTENDS Naturals, Sequences

CONSTANTS Vocabulary,  \* the lines clients write: records with a field op
          Secret       \* what a user may enter

VARIABLES sent,   \* the complete lines
          open,   \* the client has not closed its end
          taken,  \* how many of them have been taken
          log,    \* the accepted commands and the reply to each
          fate    \* "running", "ok" or "failed"

vars == <<sent, open, taken, log, fate>>

Init == sent = <<>> /\ open = TRUE /\ taken = 0 /\ log = <<>> /\ fate = "running"

Waiting == Len(log) > 0 /\ log[Len(log)].reply = "PENDING"
ByeTaken == Len(log) > 0 /\ log[Len(log)].cmd.op = "BYE"

Write(c) ==
  /\ open /\ fate = "running"
  /\ sent' = Append(sent, c)
  /\ UNCHANGED <<open, taken, log, fate>>

Close ==
  /\ fate = "running"
  /\ open' = FALSE
  /\ UNCHANGED <<sent, taken, log, fate>>

(* The replies a command may have at once.                                 *)
FirstReply(op) ==
  CASE op \in {"GETPIN", "CONFIRM"} -> {"PENDING"}
    [] op = "MESSAGE" -> {"PENDING", "OK"}
    [] op \in {"NOT_IMPLEMENTED", "UNKNOWN"} -> {op}
    [] OTHER -> {"OK"}

Accept ==
  /\ fate = "running" /\ taken < Len(sent)
  /\ ~Waiting /\ ~ByeTaken
  /\ sent[taken + 1].op # "BLANK"
  /\ \E reply \in FirstReply(sent[taken + 1].op) :
       log' = Append(log, [cmd |-> sent[taken + 1], reply |-> reply, pin |-> <<>>])
  /\ taken' = taken + 1
  /\ fate' \in {"running", "failed"}
  /\ UNCHANGED <<sent, open>>

(* A line that is not answered: white space, one that arrives during a     *)
(* prompt, or one the process ends at.                                     *)
Drop ==
  /\ fate = "running" /\ taken < Len(sent) /\ ~ByeTaken
  /\ \/ fate' = "running" /\ (Waiting \/ sent[taken + 1].op = "BLANK")
     \/ fate' = "failed" /\ ~Waiting
  /\ taken' = taken + 1
  /\ UNCHANGED <<sent, open, log>>

Answer ==
  /\ fate = "running"
  /\ Waiting
  /\ Len(log') = Len(log)
  /\ \E answer \in {log'[Len(log)]} :
       /\ answer.cmd = log[Len(log)].cmd
       /\ answer.reply \in {"OK", "PIN", "CANCELLED", "NOT_CONFIRMED"}
       /\ answer.reply = "PIN" => answer.cmd.op = "GETPIN"
       /\ answer.reply = "PIN" <=> answer.pin # <<>>
       /\ answer.pin \in Secret
       /\ log' = [log EXCEPT ![Len(log)] = answer]
  /\ fate' \in {"running", "failed"}
  /\ UNCHANGED <<sent, open, taken>>

Return ==
  /\ fate = "running"
  /\ ~Waiting
  /\ ByeTaken \/ ~open
  /\ fate' = "ok"
  /\ UNCHANGED <<sent, open, taken, log>>

Fail ==
  /\ fate = "running"
  /\ fate' = "failed"
  /\ UNCHANGED <<sent, open, taken, log>>

Next ==
  \/ \E c \in Vocabulary : Write(c)
  \/ Close \/ Accept \/ Drop \/ Answer \/ Return \/ Fail

Spec == Init /\ [][Next]_vars
=============================================================================
