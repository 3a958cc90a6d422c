-------------------------- MODULE Pinentry_proofs --------------------------
(***************************************************************************)
(* Proofs about Pinentry: in every interleaving of client, user, frontend  *)
(* and compositor the REPL and the frontend agree on the prompt, a key     *)
(* ends only the prompt it was pressed at, no secret outlives its GETPIN,  *)
(* and what the client sees is AssuanService.                              *)
(*                                                                         *)
(* Three inductive invariants, each a part of the next: ModesInv (what the *)
(* REPL, the frontend and the sync callback know of the prompt), KeysInv   *)
(* (whose keys wait where), ServeInv (the log).                            *)
(***************************************************************************)
EXTENDS Pinentry, Assuan_proofs

-----------------------------------------------------------------------------
(* The keys that wait.                                                     *)

UserKey == EditKey \cup DecisionKey

Only(ks, K) == \A i \in 1..Len(ks) : ks[i].key \in K

(* The kinds of keys do not overlap.                                       *)
LEMMA KeysApart ==
  /\ UserKey \cap CompositorEvent = {} /\ Key = UserKey \cup CompositorEvent
  /\ EditKey \cap DecisionKey = {} /\ Chars \cap {"Backspace", "Clear"} = {}
BY CharsAssumption DEF UserKey, EditKey, DecisionKey, CompositorEvent, Key

(* Queues of keys: all of one kind, with a key appended.                   *)
LEMMA OneKeyMore ==
  ASSUME NEW ks \in Seq(KeyPress), NEW k \in KeyPress
  PROVE  /\ Append(ks, k) \in Seq(KeyPress) /\ Append(ks, k) # <<>>
         /\ Len(Append(ks, k)) = Len(ks) + 1
         /\ \A i \in 1..Len(ks) : Append(ks, k)[i] = ks[i]
         /\ Append(ks, k)[Len(ks) + 1] = k
OBVIOUS

(* The same for the queue of the next state.                               *)
LEMMA OnlyOneMore ==
  ASSUME NEW ks \in Seq(KeyPress), NEW k \in KeyPress, NEW K, Only(ks, K), k.key \in K
  PROVE  Only(Append(ks, k), K)
BY OneKeyMore DEF Only

(* All of one kind, with the first key taken.                              *)
LEMMA OneKeyLess ==
  ASSUME NEW ks \in Seq(KeyPress), ks # <<>>
  PROVE  /\ Head(ks) \in KeyPress /\ Head(ks) = ks[1] /\ 1 \in 1..Len(ks)
         /\ Tail(ks) \in Seq(KeyPress) /\ Len(Tail(ks)) = Len(ks) - 1
         /\ \A i \in 1..Len(Tail(ks)) : i + 1 \in 1..Len(ks) /\ Tail(ks)[i] = ks[i + 1]
OBVIOUS

(* The same for the queue of the next state.                               *)
LEMMA OnlyOneLess ==
  ASSUME NEW ks \in Seq(KeyPress), ks # <<>>, NEW K, Only(ks, K)
  PROVE  Only(Tail(ks), K) /\ Head(ks).key \in K
BY OneKeyLess DEF Only

(* The first keys of a queue and the rest are of its kind.                 *)
LEMMA SomeKeys ==
  ASSUME NEW ks \in Seq(KeyPress), NEW n \in 1..Len(ks)
  PROVE  /\ SubSeq(ks, 1, n) \in Seq(KeyPress) /\ Len(SubSeq(ks, 1, n)) = n
         /\ \A i \in 1..n : SubSeq(ks, 1, n)[i] = ks[i] /\ i \in 1..Len(ks)
         /\ SubSeq(ks, n + 1, Len(ks)) \in Seq(KeyPress)
         /\ Len(SubSeq(ks, n + 1, Len(ks))) = Len(ks) - n
         /\ \A i \in 1..Len(ks) - n :
              SubSeq(ks, n + 1, Len(ks))[i] = ks[n + i] /\ n + i \in 1..Len(ks)
<1>1. n \in Nat /\ n <= Len(ks) /\ Len(ks) \in Nat
  OBVIOUS
<1>2. SubSeq(ks, 1, n) \in Seq(KeyPress) /\ Len(SubSeq(ks, 1, n)) = n
  BY <1>1
<1>3. SubSeq(ks, n + 1, Len(ks)) \in Seq(KeyPress) /\ Len(SubSeq(ks, n + 1, Len(ks))) = Len(ks) - n
  BY <1>1
<1>4. \A i \in 1..n : SubSeq(ks, 1, n)[i] = ks[i] /\ i \in 1..Len(ks)
  BY <1>1, <1>2
<1>5. \A i \in 1..Len(ks) - n : SubSeq(ks, n + 1, Len(ks))[i] = ks[n + i] /\ n + i \in 1..Len(ks)
  BY <1>1, <1>3
<1> QED  BY <1>2, <1>3, <1>4, <1>5

(* Keys that have become stale are the same keys.                          *)
LEMMA StaleKeys ==
  ASSUME NEW ks \in Seq(KeyPress)
  PROVE  /\ Stale(ks) \in Seq(KeyPress) /\ Len(Stale(ks)) = Len(ks)
         /\ \A i \in 1..Len(ks) : Stale(ks)[i].key = ks[i].key
         /\ ks = <<>> => Stale(ks) = <<>>
<1>1. ASSUME NEW k \in KeyPress
      PROVE  [k EXCEPT !.fresh = FALSE] \in KeyPress /\ [k EXCEPT !.fresh = FALSE].key = k.key
  BY DEF KeyPress
<1>2. ASSUME NEW i \in 1..Len(ks)  PROVE  Stale(ks)[i] \in KeyPress /\ Stale(ks)[i].key = ks[i].key
  <2>1. Stale(ks)[i] = [ks[i] EXCEPT !.fresh = FALSE] /\ ks[i] \in KeyPress
    BY DEF Stale
  <2> QED  BY <1>1, <2>1
<1>3. DOMAIN Stale(ks) = 1..Len(ks) /\ Len(ks) \in Nat
  BY DEF Stale
<1>4. Stale(ks) \in [1..Len(ks) -> KeyPress]
  BY <1>2 DEF Stale
<1>5. Stale(ks) \in Seq(KeyPress) /\ Len(Stale(ks)) = Len(ks)
  BY <1>3, <1>4
<1>6. ks = <<>> => Stale(ks) = <<>>
  BY <1>5
<1> QED  BY <1>2, <1>5, <1>6

(* What the client and the loop have done to stdin.                        *)
LinesInv ==
  /\ 2 * Len(sent) <= avail + 1
  /\ stdinClosed => ~writing
  /\ "hup" \in ready => ~writing
  /\ pc = "stdin" /\ "in" \in ready => rd < avail \/ ~writing

(* What each frontend can be in.                                           *)
Unselected ==
  /\ feMode = "None" /\ delayed = "None" /\ ~synced /\ focus = "none" /\ keys = <<>>
  /\ fate = "running" => mode = "None"
OnTerminal ==
  /\ delayed = "None" /\ ~synced /\ focus = "none"
  /\ Only(keys, UserKey) /\ Only(batch, UserKey)
BeforeSync ==
  /\ feMode = "None" /\ focus = "none" /\ reason = "None"
  /\ Only(keys, {"Sync"}) /\ Only(batch, {"Sync"})

FrontendInv ==
  /\ batch # <<>> \/ reason # "None" => pc = "dispatch"
  /\ pc = "dispatch" => fe # "none"
  /\ fe = "none" => Unselected
  /\ fe = "tty" => OnTerminal
  /\ fe = "wayland" /\ ~synced => BeforeSync
  /\ synced => delayed = "None"

PromptLogged == mode # "None" => Len(log) > 0

ModesInv ==
  /\ TypeOK /\ LinesInv /\ FrontendInv
  /\ PromptLogged /\ ModesAgree /\ NoSecretOutsideGetPin

StdinTypes ==
  /\ stdinKind \in StdinKinds /\ writing \in BOOLEAN /\ stdinClosed \in BOOLEAN
  /\ sent \in Seq(Vocabulary) /\ avail \in Nat /\ rd \in Nat
  /\ avail <= 2 * Len(sent) /\ rd <= avail
LoopTypes ==
  /\ pc \in {"head", "poll", "stdin", "frontend", "dispatch"}
  /\ ready \in SUBSET {"in", "hup", "fe"}
FrontendTypes ==
  /\ fe \in {"none", "tty", "wayland"} /\ feMode \in InterfaceMode
  /\ synced \in BOOLEAN /\ delayed \in InterfaceMode
  /\ keys \in Seq(KeyPress) /\ batch \in Seq(KeyPress)
  /\ reason \in UserEvent \cup {"None", "Error"}
  /\ secret \in Secret /\ Len(secret) <= Capacity
  /\ focus \in {"none", "current", "stale"} /\ link \in {"up", "down", "broken"}

(* The type invariant, by whose state it is.                               *)
LEMMA TypeParts == TypeOK <=> ReplTypeOK /\ StdinTypes /\ LoopTypes /\ FrontendTypes
BY DEF TypeOK, StdinTypes, LoopTypes, FrontendTypes

(* The same in the next state.                                             *)
LEMMA TypePartsNext == TypeOK' <=> ReplTypeOK' /\ StdinTypes' /\ LoopTypes' /\ FrontendTypes'
BY TypeParts, PTL

(* Stdin left alone keeps its types.                                       *)
LEMMA StdinStays == StdinTypes /\ UNCHANGED stdinVars => StdinTypes'
BY DEF StdinTypes, stdinVars

(* The frontend left alone keeps its types.                                *)
LEMMA FrontendStays == FrontendTypes /\ UNCHANGED feVars => FrontendTypes'
BY DEF FrontendTypes, feVars

PromptPart == FrontendInv /\ PromptLogged /\ ModesAgree /\ NoSecretOutsideGetPin

(* Steps that leave the prompt alone.                                      *)
LEMMA PromptStays ==
  ASSUME ModesInv, UNCHANGED <<replVars, feVars>>, pc' = "dispatch" <=> pc = "dispatch"
  PROVE  PromptPart'
BY DEF ModesInv, PromptPart, FrontendInv, Unselected, OnTerminal, BeforeSync, PromptLogged, ModesAgree,
  NoSecretOutsideGetPin, EffectiveMode, InterfaceFor, replVars, feVars, Only, UserKey, EditKey

(* Steps that leave stdin and the poll's result alone.                     *)
LEMMA LinesStay ==
  ASSUME ModesInv, UNCHANGED <<stdinVars, ready>>, pc' = "stdin" => pc = "stdin"
  PROVE  LinesInv'
BY DEF ModesInv, LinesInv, stdinVars

(* Steps after which nothing of the poll's result is left.                 *)
LEMMA LinesForgotten ==
  ASSUME ModesInv, UNCHANGED stdinVars, ready' = {}
  PROVE  LinesInv'
BY DEF ModesInv, LinesInv, stdinVars

(* The REPL left alone keeps its types.                                    *)
LEMMA ReplStays ==
  ASSUME ReplTypeOK, UNCHANGED replVars
  PROVE  ReplTypeOK'
BY DEF ReplTypeOK, replVars

(* The REPL keeps its types when only the fate of the process changes.     *)
LEMMA ReplFate ==
  ASSUME ReplTypeOK, UNCHANGED <<mode, labels, defaults, settings, isRunning, log>>,
         fate' \in {"running", "ok", "failed"}
  PROVE  ReplTypeOK'
BY DEF ReplTypeOK

(* The loop starts in ModesInv.                                            *)
LEMMA InitModes == Init => ModesInv
<1> SUFFICES ASSUME Init  PROVE  ModesInv
  OBVIOUS
<1> USE DEF Init
<1>1. TypeOK
  <2>1. ReplTypeOK
    BY InitType
  <2>2. StdinTypes /\ LoopTypes
    <3>1. sent \in Seq(Vocabulary) /\ Len(sent) = 0
      OBVIOUS
    <3>2. avail <= 2 * Len(sent) /\ avail \in Nat /\ rd \in Nat /\ rd <= avail
      BY <3>1
    <3>3. writing \in BOOLEAN /\ stdinClosed \in BOOLEAN /\ stdinKind \in StdinKinds
      BY Zenon
    <3>4. ready \in SUBSET {"in", "hup", "fe"} /\ pc \in {"head", "poll", "stdin", "frontend", "dispatch"}
      OBVIOUS
    <3> QED  BY <3>1, <3>2, <3>3, <3>4, Zenon DEF StdinTypes, LoopTypes
  <2>3. secret \in Secret /\ Len(secret) <= Capacity
    BY CapacityAssumption DEF Secret
  <2>4. keys \in Seq(KeyPress) /\ batch \in Seq(KeyPress)
    OBVIOUS
  <2>5. FrontendTypes
    BY <2>3, <2>4 DEF FrontendTypes, InterfaceMode
  <2> QED  BY <2>1, <2>2, <2>5, TypeParts
<1>2. LinesInv /\ FrontendInv /\ PromptLogged /\ ModesAgree /\ NoSecretOutsideGetPin
  BY DEF LinesInv, FrontendInv, Unselected, OnTerminal, BeforeSync, PromptLogged, ModesAgree,
    NoSecretOutsideGetPin, EffectiveMode, InterfaceFor, ReplInit, Only
<1> QED  BY <1>1, <1>2 DEF ModesInv

(* What the client writes disturbs no prompt.                              *)
LEMMA ClientModes ==
  ASSUME ModesInv, Client
  PROVE  ModesInv'
<1>1. UNCHANGED <<replVars, pc, ready, feVars>> /\ At("poll")
  BY DEF Client, WriteCommand, WriteNewline, CloseStdin
<1>2. PromptPart'
  BY <1>1, PromptStays
<1>3. ReplTypeOK' /\ LoopTypes' /\ FrontendTypes'
  BY <1>1, ReplStays, FrontendStays, TypeParts DEF ModesInv, LoopTypes
<1>4. StdinTypes' /\ LinesInv'
  <2>1. ASSUME NEW c \in Vocabulary, WriteCommand(c)  PROVE  StdinTypes' /\ LinesInv'
    <3>1. Len(sent') = Len(sent) + 1 /\ sent' \in Seq(Vocabulary)
      BY <2>1, TypeParts DEF ModesInv, StdinTypes, WriteCommand
    <3>2. Len(sent) \in Nat
      BY TypeParts DEF ModesInv, StdinTypes
    <3> QED
      BY <2>1, <3>1, <3>2, TypeParts DEF ModesInv, StdinTypes, LinesInv, WriteCommand
  <2>2. ASSUME WriteNewline  PROVE  StdinTypes' /\ LinesInv'
    <3>1. Len(sent) \in Nat /\ sent' = sent
      BY <2>2, TypeParts DEF ModesInv, StdinTypes, WriteNewline
    <3> QED
      BY <2>2, <3>1, TypeParts DEF ModesInv, StdinTypes, LinesInv, WriteNewline
  <2>3. ASSUME CloseStdin  PROVE  StdinTypes' /\ LinesInv'
    <3>1. writing' \in BOOLEAN /\ ~writing'
      BY <2>3 DEF CloseStdin
    <3>2. UNCHANGED <<stdinKind, sent, avail, rd, stdinClosed, pc, ready>>
      BY <2>3 DEF CloseStdin
    <3> QED
      BY <3>1, <3>2, TypeParts DEF ModesInv, StdinTypes, LinesInv
  <2> QED  BY <2>1, <2>2, <2>3 DEF Client
<1> QED  BY <1>2, <1>3, <1>4, TypePartsNext DEF ModesInv, PromptPart

(* A key in the queue disturbs no prompt.                                  *)
LEMMA PressModes ==
  ASSUME ModesInv, NEW k \in UserKeys, Press(k)
  PROVE  ModesInv'
<1> DEFINE press == [key |-> k, fresh |-> PromptInView]
<1>1. press \in KeyPress /\ press.key = k /\ k \in UserKey /\ k # "Sync"
  <2>1. PromptInView \in BOOLEAN
    BY DEF PromptInView
  <2>2. k \in UserKey /\ k \in Key /\ k # "Sync"
    BY UserKeysAssumption, KeysApart DEF UserKey, CompositorEvent
  <2> QED  BY <2>1, <2>2, Zenon DEF KeyPress
<1>2. keys' = Append(keys, press) /\ fate = "running" /\ CanPress(k)
      /\ UNCHANGED <<replVars, stdinVars, pc, ready, fe, feMode, synced, delayed, batch, reason,
                     secret, focus, link>>
  BY DEF Press, KeyMatters, At
<1> HIDE DEF press
<1>3. TypeOK /\ FrontendTypes /\ keys \in Seq(KeyPress) /\ keys' \in Seq(KeyPress)
  BY <1>1, <1>2, TypeParts, OneKeyMore DEF ModesInv, FrontendTypes
<1>4. TypeOK'
  <2>1. FrontendTypes'
    BY <1>2, <1>3 DEF FrontendTypes
  <2>2. ReplTypeOK' /\ StdinTypes' /\ LoopTypes'
    BY <1>2, TypeParts, ReplStays, StdinStays DEF ModesInv, LoopTypes
  <2> QED  BY <2>1, <2>2, TypePartsNext
<1>5. LinesInv'
  BY <1>2, LinesStay DEF ModesInv
<1>6. FrontendInv'
  <2>1. fe # "none" /\ (fe = "wayland" => focus # "none")
    BY <1>2, <1>3 DEF CanPress, FrontendTypes
  <2>2. fe = "tty" => Only(keys', UserKey)
    BY <1>1, <1>2, <1>3, OnlyOneMore DEF ModesInv, FrontendInv, OnTerminal
  <2> QED
    BY <1>2, <2>1, <2>2 DEF ModesInv, FrontendInv, Unselected, OnTerminal, BeforeSync, replVars
<1>7. PromptLogged' /\ ModesAgree' /\ NoSecretOutsideGetPin'
  BY <1>2 DEF ModesInv, PromptLogged, ModesAgree, EffectiveMode, NoSecretOutsideGetPin, replVars
<1> QED  BY <1>4, <1>5, <1>6, <1>7 DEF ModesInv

(* What the compositor, and whoever takes the link down, does.             *)
LEMMA CompositorModes ==
  ASSUME ModesInv, AnswerSync \/ ShowPrompt \/ HidePrompt \/ CloseSurface \/ LoseLink
  PROVE  ModesInv'
<1>1. UNCHANGED <<replVars, stdinVars, pc, ready, fe, feMode, synced, delayed, batch, reason, secret>>
      /\ fate = "running"
  BY DEF AnswerSync, ShowPrompt, HidePrompt, CloseSurface, LoseLink, At
<1>2. fe # "none" /\ TypeOK /\ FrontendTypes /\ keys \in Seq(KeyPress)
  BY TypeParts
  DEF AnswerSync, ShowPrompt, HidePrompt, CloseSurface, LoseLink, ModesInv, FrontendTypes, FrontendInv,
    Unselected
<1>3. ASSUME NEW k \in {"Sync", "Closed"}
      PROVE  [key |-> k, fresh |-> TRUE] \in KeyPress /\ [key |-> k, fresh |-> TRUE].key = k
  BY DEF KeyPress, Key, CompositorEvent
<1>4. keys' \in Seq(KeyPress)
  <2>1. CASE AnswerSync
    BY <2>1, <1>3 DEF AnswerSync
  <2>2. CASE CloseSurface
    BY <2>2, <1>2, <1>3 DEF CloseSurface
  <2>3. CASE LoseLink
    BY <2>3, <1>2 DEF LoseLink
  <2>4. CASE ShowPrompt \/ HidePrompt
    BY <2>4, <1>2 DEF ShowPrompt, HidePrompt
  <2> QED  BY <2>1, <2>2, <2>3, <2>4
<1>5. focus' \in {"none", "current", "stale"} /\ link' \in {"up", "down", "broken"}
  BY <1>2 DEF AnswerSync, ShowPrompt, HidePrompt, CloseSurface, LoseLink, FrontendTypes
<1>6. TypeOK'
  <2>1. FrontendTypes'
    BY <1>1, <1>2, <1>4, <1>5 DEF FrontendTypes
  <2>2. ReplTypeOK' /\ StdinTypes' /\ LoopTypes'
    BY <1>1, TypeParts, ReplStays, StdinStays DEF ModesInv, LoopTypes
  <2> QED  BY <2>1, <2>2, TypePartsNext
<1>7. LinesInv'
  BY <1>1, LinesStay DEF ModesInv
<1>8. ASSUME fe = "tty"  PROVE  focus' = "none" /\ Only(keys', UserKey)
  <2>1. ~AnswerSync /\ ~ShowPrompt /\ ~HidePrompt /\ ~CloseSurface
    BY <1>8 DEF ModesInv, FrontendInv, OnTerminal, AnswerSync, ShowPrompt, HidePrompt, CloseSurface
  <2>2. focus' = focus /\ keys' = <<>>
    BY <1>8, <2>1 DEF LoseLink
  <2> QED  BY <1>8, <2>2 DEF ModesInv, FrontendInv, OnTerminal, Only
<1>9. ASSUME fe = "wayland", ~synced  PROVE  focus' = "none" /\ Only(keys', {"Sync"})
  <2>1. BeforeSync
    BY <1>9 DEF ModesInv, FrontendInv
  <2>2. ~ShowPrompt /\ ~HidePrompt /\ ~CloseSurface
    BY <2>1 DEF BeforeSync, ShowPrompt, HidePrompt, CloseSurface
  <2>3. CASE AnswerSync
    BY <2>1, <2>3 DEF BeforeSync, AnswerSync, Only
  <2>4. CASE LoseLink
    BY <1>9, <2>1, <2>4 DEF BeforeSync, LoseLink
  <2> QED  BY <2>2, <2>3, <2>4
<1>10. FrontendInv'
  BY <1>1, <1>2, <1>8, <1>9 DEF ModesInv, FrontendInv, OnTerminal, BeforeSync, replVars
<1>11. PromptLogged' /\ ModesAgree' /\ NoSecretOutsideGetPin'
  BY <1>1 DEF ModesInv, PromptLogged, ModesAgree, EffectiveMode, NoSecretOutsideGetPin, replVars
<1> QED  BY <1>6, <1>7, <1>10, <1>11 DEF ModesInv

(* What goes on around the process keeps ModesInv.                         *)
LEMMA EnvironmentModes ==
  ASSUME ModesInv, Environment
  PROVE  ModesInv'
BY PressModes, CompositorModes DEF Environment

(* Steps that end the process and leave the prompt as it is.               *)
LEMMA EndModes ==
  ASSUME ModesInv, UNCHANGED <<mode, labels, defaults, settings, isRunning, log, stdinVars, pc, ready, feVars>>,
         fate = "running", fate' = "failed" \/ fate' = "ok"
  PROVE  ModesInv'
<1>1. TypeOK'
  BY TypeParts, TypePartsNext, ReplFate, StdinStays, FrontendStays DEF ModesInv, LoopTypes
<1>2. LinesInv'
  BY LinesStay DEF ModesInv
<1>3. PromptPart'
  BY DEF ModesInv, PromptPart, FrontendInv, Unselected, OnTerminal, BeforeSync, PromptLogged, ModesAgree,
    NoSecretOutsideGetPin, EffectiveMode, feVars, Only, UserKey, EditKey
<1> QED  BY <1>1, <1>2, <1>3 DEF ModesInv, PromptPart

(* Steps of the loop that touch neither the prompt nor stdin.              *)
LEMMA WalkModes ==
  ASSUME ModesInv, UNCHANGED <<replVars, stdinVars, feVars>>,
         pc # "dispatch", pc' \in {"head", "poll", "frontend"}, ready' \in {ready, {}}
  PROVE  ModesInv'
<1>1. TypeOK'
  <2>1. LoopTypes'
    BY TypeParts DEF ModesInv, LoopTypes
  <2> QED  BY <2>1, TypeParts, TypePartsNext, ReplStays, StdinStays, FrontendStays DEF ModesInv
<1>2. LinesInv'
  BY DEF ModesInv, LinesInv, stdinVars
<1>3. PromptPart'
  BY PromptStays
<1> QED  BY <1>1, <1>2, <1>3 DEF ModesInv, PromptPart

(* The head of the loop keeps ModesInv.                                    *)
LEMMA HeadModes ==
  ASSUME ModesInv, LoopHead
  PROVE  ModesInv'
<1>1. CASE UNCHANGED pc /\ fate' \in {"ok", "failed"}
  BY <1>1, EndModes DEF LoopHead, At
<1>2. CASE UNCHANGED fate /\ pc' = "poll"
  BY <1>2, WalkModes DEF LoopHead, At, replVars
<1> QED  BY <1>1, <1>2 DEF LoopHead

(* The poll keeps ModesInv: it looks at stdin only while that is open.     *)
LEMMA PollModes ==
  ASSUME ModesInv, Poll
  PROVE  ModesInv'
<1>1. Revents \in SUBSET {"in", "hup", "fe"} /\ ("hup" \in Revents => ~writing)
      /\ ("in" \in Revents => rd < avail \/ ~writing)
  BY DEF Revents, StdinHungUp, StdinReadable
<1>2. TypeOK'
  <2>1. LoopTypes'
    BY <1>1 DEF Poll, LoopTypes
  <2> QED  BY <2>1, TypeParts, TypePartsNext, ReplStays, StdinStays, FrontendStays DEF ModesInv, Poll
<1>3. LinesInv'
  BY <1>1 DEF ModesInv, LinesInv, Poll, stdinVars
<1>4. PromptPart'
  BY PromptStays DEF Poll, At
<1> QED  BY <1>2, <1>3, <1>4 DEF ModesInv, PromptPart

(* Steps that go back to the head.                                         *)
LEMMA ReturnToHead ==
  ASSUME ModesInv, NoEvent \/ ReadHungUpTerminal
  PROVE  ModesInv'
BY WalkModes DEF NoEvent, ReadHungUpTerminal, At

(* An iteration without an event keeps ModesInv.                           *)
LEMMA NoDecisionModes ==
  ASSUME ModesInv, NoDecision
  PROVE  ModesInv'
<1>1. UNCHANGED <<replVars, stdinVars, ready, feVars>> /\ pc' = "head" /\ batch = <<>> /\ reason = "None"
      /\ pc = "dispatch"
  BY DEF NoDecision, At
<1>2. TypeOK'
  <2>1. LoopTypes'
    BY <1>1, TypeParts DEF ModesInv, LoopTypes
  <2> QED  BY <1>1, <2>1, TypeParts, TypePartsNext, ReplStays, StdinStays, FrontendStays DEF ModesInv
<1>3. LinesInv'
  BY <1>1 DEF ModesInv, LinesInv, stdinVars
<1>4. PromptPart'
  BY <1>1 DEF ModesInv, PromptPart, FrontendInv, Unselected, OnTerminal, BeforeSync, PromptLogged, ModesAgree,
    NoSecretOutsideGetPin, EffectiveMode, replVars, feVars, Only, UserKey, EditKey
<1> QED  BY <1>2, <1>3, <1>4 DEF ModesInv, PromptPart

(* A frontend that fails ends the process.                                 *)
LEMMA FailureModes ==
  ASSUME ModesInv, FrontendFails \/ IdleTerminalFails
  PROVE  ModesInv'
BY EndModes DEF FrontendFails, IdleTerminalFails, At

(* The frontend hands its keys to the loop.                                *)
LEMMA ReadModes ==
  ASSUME ModesInv, (\E n \in 1..Len(keys) : ReadTerminal(n)) \/ ReadWayland
  PROVE  ModesInv'
<1>1. UNCHANGED <<replVars, stdinVars, fe, feMode, synced, delayed, reason, secret, focus>>
      /\ pc' = "dispatch" /\ ready' = {} /\ pc = "frontend" /\ fate = "running" /\ fe # "none"
  BY DEF ReadTerminal, ReadWayland, At
<1>2. TypeOK /\ FrontendTypes /\ keys \in Seq(KeyPress)
  BY TypeParts DEF ModesInv, FrontendTypes
<1> DEFINE Handed ==
      /\ keys' \in Seq(KeyPress) /\ batch' \in Seq(KeyPress) /\ link' \in {"up", "down", "broken"}
      /\ \A K : Only(keys, K) => Only(keys', K) /\ Only(batch', K)
<1>3. Handed
  <2>1. ASSUME NEW n \in 1..Len(keys), ReadTerminal(n)  PROVE  Handed
    <3> DEFINE front == SubSeq(keys, 1, n)
               rest == SubSeq(keys, n + 1, Len(keys))
    <3>1. batch' = front /\ keys' = rest /\ link' = link
      BY <2>1 DEF ReadTerminal
    <3>2. /\ front \in Seq(KeyPress) /\ Len(front) = n
          /\ \A i \in 1..n : front[i] = keys[i] /\ i \in 1..Len(keys)
          /\ rest \in Seq(KeyPress) /\ Len(rest) = Len(keys) - n
          /\ \A i \in 1..Len(keys) - n : rest[i] = keys[n + i] /\ n + i \in 1..Len(keys)
      BY <1>2, SomeKeys
    <3> HIDE DEF front, rest
    <3> QED  BY <1>2, <3>1, <3>2 DEF Only, FrontendTypes
  <2>2. CASE ReadWayland
    <3>1. batch' = keys /\ keys' = <<>> /\ link' \in {"up", "broken"}
      BY <2>2 DEF ReadWayland
    <3> QED  BY <1>2, <3>1 DEF Only
  <2> QED  BY <2>1, <2>2
<1>4. TypeOK'
  <2>1. FrontendTypes' /\ LoopTypes'
    BY <1>1, <1>2, <1>3 DEF FrontendTypes, LoopTypes
  <2> QED  BY <1>1, <2>1, TypeParts, TypePartsNext, ReplStays, StdinStays DEF ModesInv
<1>5. LinesInv'
  BY <1>1, LinesForgotten
<1>6. FrontendInv'
  BY <1>1, <1>3 DEF ModesInv, FrontendInv, OnTerminal, BeforeSync, replVars
<1>7. PromptLogged' /\ ModesAgree' /\ NoSecretOutsideGetPin'
  BY <1>1 DEF ModesInv, PromptLogged, ModesAgree, EffectiveMode, NoSecretOutsideGetPin, replVars
<1> QED  BY <1>4, <1>5, <1>6, <1>7 DEF ModesInv

(* A dispatched key leaves the batch.                                      *)
LEMMA BatchShrinks ==
  ASSUME ModesInv, batch # <<>>, batch' \in {Tail(batch), <<>>}
  PROVE  batch' \in Seq(KeyPress) /\ \A K : Only(batch, K) => Only(batch', K)
<1>1. batch \in Seq(KeyPress)
  BY TypeParts DEF ModesInv, FrontendTypes
<1>2. CASE batch' = Tail(batch)
  BY <1>1, <1>2, OneKeyLess, OnlyOneLess
<1>3. CASE batch' = <<>>
  BY <1>3 DEF Only
<1> QED  BY <1>2, <1>3

(* An edit keeps the secret within the page.                               *)
LEMMA EditFits ==
  ASSUME ModesInv, NEW k \in EditKey
  PROVE  Edited(k) \in Secret /\ Len(Edited(k)) <= Capacity
<1>1. secret \in Seq(Chars) /\ Len(secret) <= Capacity /\ Capacity \in Nat
  BY TypeParts, CapacityAssumption DEF ModesInv, FrontendTypes, Secret
<1>2. CASE k \in Chars
  <2>1. Edited(k) = IF Len(secret) < Capacity THEN Append(secret, k) ELSE secret
    BY <1>2, KeysApart DEF Edited
  <2> QED  BY <1>1, <1>2, <2>1 DEF Secret
<1>3. CASE k = "Backspace"
  <2>1. Edited(k) = DropLast(secret)
    BY <1>3, KeysApart DEF Edited
  <2> QED  BY <1>1, <2>1 DEF Secret, DropLast
<1>4. CASE k = "Clear"
  <2>1. Edited(k) = <<>>
    BY <1>4, KeysApart DEF Edited
  <2> QED  BY <1>1, <2>1 DEF Secret
<1> QED  BY <1>2, <1>3, <1>4 DEF EditKey

(* While the frontend is in the mode of a prompt, so is the REPL.          *)
LEMMA SameMode ==
  ASSUME ModesInv, fate = "running", feMode # "None"
  PROVE  /\ mode # "None" /\ (feMode = "GetPin" => mode = "GetPin")
         /\ fe # "none" /\ (fe = "wayland" => synced)
<1>1. fe \in {"none", "tty", "wayland"} /\ mode \in AssuanMode /\ feMode \in InterfaceMode
  BY TypeParts DEF ModesInv, FrontendTypes, ReplTypeOK
<1>2. fe # "none" /\ (fe = "wayland" => synced)
  BY DEF ModesInv, FrontendInv, Unselected, BeforeSync
<1>3. feMode = InterfaceFor(mode)
  BY <1>1, <1>2 DEF ModesInv, ModesAgree, EffectiveMode
<1> QED  BY <1>1, <1>2, <1>3 DEF InterfaceFor, AssuanMode

(* What a dispatched key may change.                                       *)
KeyDispatched ==
  /\ UNCHANGED <<replVars, stdinVars, pc, ready, fe, keys, focus, link>>
  /\ fate = "running" /\ pc = "dispatch"
  /\ batch # <<>> /\ batch' \in {Tail(batch), <<>>}
  /\ reason' \in UserEvent \cup {"None", "Error"}
  /\ secret' \in Secret /\ Len(secret') <= Capacity
  /\ secret' # secret => mode = "GetPin"

(* A dispatched key that leaves the mode alone.                            *)
LEMMA DispatchModes ==
  ASSUME ModesInv, KeyDispatched,
         UNCHANGED <<feMode, synced, delayed>>,
         fe = "wayland" /\ ~synced => reason' = "None"
  PROVE  ModesInv'
<1> USE DEF KeyDispatched
<1>1. batch' \in Seq(KeyPress) /\ \A K : Only(batch, K) => Only(batch', K)
  BY BatchShrinks
<1>2. TypeOK'
  <2>1. FrontendTypes'
    BY <1>1, TypeParts DEF FrontendTypes, ModesInv
  <2>2. ReplTypeOK' /\ StdinTypes' /\ LoopTypes'
    BY TypeParts, ReplStays, StdinStays DEF ModesInv, LoopTypes
  <2> QED  BY <2>1, <2>2, TypePartsNext
<1>3. LinesInv'
  BY LinesStay
<1>4. FrontendInv'
  BY <1>1 DEF ModesInv, FrontendInv, OnTerminal, BeforeSync, Unselected, replVars
<1>5. PromptLogged' /\ ModesAgree' /\ NoSecretOutsideGetPin'
  BY DEF ModesInv, PromptLogged, ModesAgree, EffectiveMode, NoSecretOutsideGetPin, replVars
<1> QED  BY <1>2, <1>3, <1>4, <1>5 DEF ModesInv

(* A key of the user keeps ModesInv: it edits the secret only in a         *)
(* GETPIN.                                                                 *)
LEMMA KeyModes ==
  ASSUME ModesInv, DispatchKey
  PROVE  ModesInv'
<1> DEFINE k == Head(batch).key
<1>1. /\ UNCHANGED <<replVars, stdinVars, pc, ready, fe, feMode, synced, delayed, keys, focus, link>>
      /\ fate = "running" /\ pc = "dispatch" /\ batch # <<>>
      /\ \/ k \in DecisionKey /\ (TtyDecision(k) \/ WaylandDecision(k))
         \/ k \in EditKey /\ EditSecret(k)
  BY DEF DispatchKey, At
<1>2. TypeOK /\ FrontendTypes /\ batch \in Seq(KeyPress)
  BY TypeParts DEF ModesInv, FrontendTypes
<1>3. fe = "wayland" => synced
  <2>1. ASSUME BeforeSync  PROVE  FALSE
    <3>1. k = "Sync"
      BY <1>1, <1>2, <2>1, OnlyOneLess DEF BeforeSync
    <3> QED  BY <1>1, <3>1, KeysApart DEF UserKey, CompositorEvent
  <2> QED  BY <2>1 DEF ModesInv, FrontendInv
<1> HIDE DEF k
<1>4. CASE k \in DecisionKey /\ (TtyDecision(k) \/ WaylandDecision(k))
  <2>1. EventOf(k) \in UserEvent
    BY <1>4 DEF EventOf, DecisionKey, UserEvent
  <2>2. reason' \in UserEvent \cup {"None", "Error"} /\ batch' \in {Tail(batch), <<>>} /\ secret' = secret
    BY <1>2, <1>4, <2>1 DEF TtyDecision, WaylandDecision, FrontendTypes
  <2>3. KeyDispatched
    BY <1>1, <1>2, <2>2 DEF KeyDispatched, FrontendTypes
  <2> QED  BY <1>1, <1>3, <2>3, DispatchModes
<1>5. CASE k \in EditKey /\ EditSecret(k)
  <2>1. secret' \in Secret /\ Len(secret') <= Capacity /\ (secret' # secret => mode = "GetPin")
    BY <1>1, <1>2, <1>5, EditFits, SameMode DEF EditSecret, FrontendTypes
  <2>2. reason' = reason /\ batch' = Tail(batch)
    BY <1>5 DEF EditSecret
  <2>3. KeyDispatched
    BY <1>1, <1>2, <2>1, <2>2 DEF KeyDispatched, FrontendTypes
  <2> QED  BY <1>1, <1>3, <2>3, DispatchModes
<1> QED  BY <1>1, <1>4, <1>5

(* A Ctrl-U that fails keeps ModesInv.                                     *)
LEMMA ClearModes ==
  ASSUME ModesInv, ClearFails
  PROVE  ModesInv'
<1>1. /\ UNCHANGED <<replVars, stdinVars, pc, ready, fe, feMode, synced, delayed, keys, focus, link>>
      /\ fate = "running" /\ pc = "dispatch" /\ batch # <<>> /\ batch' = Tail(batch)
      /\ fe = "wayland" /\ feMode = "GetPin" /\ secret' = <<>> /\ reason' = "Error"
  BY DEF ClearFails, At
<1>2. mode = "GetPin" /\ synced
  BY <1>1, SameMode
<1>3. secret' \in Secret /\ Len(secret') <= Capacity
  BY <1>1, CapacityAssumption DEF Secret
<1>4. KeyDispatched
  BY <1>1, <1>2, <1>3 DEF KeyDispatched
<1> QED  BY <1>1, <1>2, <1>4, DispatchModes

(* A closed surface keeps ModesInv.                                        *)
LEMMA ClosedModes ==
  ASSUME ModesInv, DispatchClosed
  PROVE  ModesInv'
<1>1. /\ UNCHANGED <<replVars, stdinVars, pc, ready, fe, feMode, synced, delayed, keys, secret, focus, link>>
      /\ fate = "running" /\ pc = "dispatch" /\ batch # <<>> /\ Head(batch).key = "Closed"
      /\ batch' = Tail(batch) /\ reason' \in {reason, "Error"}
  BY DEF DispatchClosed, At
<1>2. FrontendTypes /\ batch \in Seq(KeyPress)
  BY TypeParts DEF ModesInv, FrontendTypes
<1>3. ~(fe = "wayland" /\ ~synced)
  BY <1>1, <1>2, OnlyOneLess DEF ModesInv, FrontendInv, BeforeSync
<1>4. KeyDispatched
  BY <1>1, <1>2 DEF KeyDispatched, FrontendTypes
<1> QED  BY <1>1, <1>3, <1>4, DispatchModes

(* The mode that waited for the sync callback is the frontend's now.       *)
LEMMA SyncModes ==
  ASSUME ModesInv, DispatchSync
  PROVE  ModesInv'
<1>1. /\ UNCHANGED <<replVars, stdinVars, pc, ready, fe, keys, secret, focus, link>>
      /\ fate = "running" /\ pc = "dispatch" /\ batch # <<>> /\ Head(batch).key = "Sync"
      /\ batch' = Tail(batch) /\ reason' \in {reason, "Error"}
      /\ synced' = TRUE /\ delayed' = "None"
      /\ feMode' = IF delayed # "None" THEN delayed ELSE feMode
  BY DEF DispatchSync, At
<1>2. FrontendTypes /\ batch \in Seq(KeyPress) /\ mode \in AssuanMode
  BY TypeParts DEF ModesInv, FrontendTypes, ReplTypeOK
<1>3. fe = "wayland"
  <2>1. ~Only(batch, UserKey)
    BY <1>1, <1>2, OnlyOneLess, KeysApart DEF CompositorEvent
  <2> QED  BY <1>1, <1>2, <2>1 DEF ModesInv, FrontendInv, OnTerminal, FrontendTypes
<1>4. batch' \in Seq(KeyPress)
  BY <1>1, BatchShrinks
<1>5. synced' \in BOOLEAN /\ synced'
  BY <1>1
<1>6. TypeOK'
  <2>1. FrontendTypes'
    BY <1>1, <1>2, <1>4, <1>5 DEF FrontendTypes, InterfaceMode
  <2>2. ReplTypeOK' /\ StdinTypes' /\ LoopTypes'
    BY <1>1, TypeParts, ReplStays, StdinStays DEF ModesInv, LoopTypes
  <2> QED  BY <2>1, <2>2, TypePartsNext
<1>7. LinesInv'
  BY <1>1, LinesStay
<1>8. FrontendInv'
  BY <1>1, <1>3, <1>5 DEF ModesInv, FrontendInv
<1>9. feMode' = EffectiveMode /\ EffectiveMode' = feMode'
  BY <1>1, <1>3, <1>5 DEF EffectiveMode, ModesInv, FrontendInv, BeforeSync
<1>10. PromptLogged' /\ ModesAgree' /\ NoSecretOutsideGetPin'
  BY <1>1, <1>9 DEF ModesInv, PromptLogged, ModesAgree, NoSecretOutsideGetPin, replVars
<1> QED  BY <1>6, <1>7, <1>8, <1>10 DEF ModesInv

-----------------------------------------------------------------------------
(* The byte of stdin.                                                      *)

StdinMoves ==
  /\ pc = "stdin" /\ pc' = "frontend" /\ fate = "running"
  /\ rd' \in {rd, rd + 1} /\ rd' <= avail
  /\ UNCHANGED <<stdinKind, writing, sent, avail, ready>>
  /\ stdinClosed' \in BOOLEAN /\ (stdinClosed' => ~writing)

(* The three cases of the step, the line being the one whose newline is    *)
(* read.                                                                   *)
LEMMA StdinCases ==
  ASSUME ModesInv, StdinStep
  PROVE  /\ StdinMoves
         /\ \/ UNCHANGED <<replVars, feVars>> /\ (rd' # rd => rd' % 2 # 0)
            \/ /\ rd' = rd + 1 /\ rd' % 2 = 0
               /\ DispatchLine(sent[rd' \div 2])
<1>1. StdinTypes /\ LinesInv
  BY TypeParts DEF ModesInv
<1>2. pc = "stdin" /\ pc' = "frontend" /\ fate = "running"
      /\ UNCHANGED <<stdinKind, writing, sent, avail, ready>>
  BY DEF StdinStep, At, clientVars
<1>3. ClosedAfter \in BOOLEAN /\ (ClosedAfter => ~writing)
  BY <1>1 DEF ClosedAfter, LinesInv, StdinTypes
<1>4. CASE "in" \notin ready /\ stdinClosed' = ClosedAfter /\ UNCHANGED <<rd, replVars, feVars>>
  BY <1>1, <1>2, <1>3, <1>4 DEF StdinMoves, StdinTypes
<1>5. CASE "in" \in ready /\ rd = avail /\ stdinClosed' = TRUE /\ UNCHANGED <<rd, replVars, feVars>>
  <2>1. ~writing
    BY <1>1, <1>2, <1>5 DEF LinesInv, StdinTypes
  <2>2. stdinClosed' \in BOOLEAN
    BY <1>5
  <2> QED  BY <1>1, <1>2, <1>5, <2>1, <2>2 DEF StdinMoves, StdinTypes
<1>6. CASE /\ "in" \in ready /\ rd < avail /\ rd' = rd + 1 /\ stdinClosed' = ClosedAfter
           /\ IF rd' % 2 = 0 THEN DispatchLine(sent[rd' \div 2]) ELSE UNCHANGED <<replVars, feVars>>
  <2>1. StdinMoves
    BY <1>1, <1>2, <1>3, <1>6 DEF StdinMoves, StdinTypes
  <2> QED  BY <1>6, <2>1
<1> QED  BY <1>4, <1>5, <1>6 DEF StdinStep

(* The line is one the client wrote.                                       *)
LEMMA LineRead ==
  ASSUME ModesInv, StdinMoves, rd' = rd + 1, rd' % 2 = 0
  PROVE  /\ rd' \div 2 \in 1..Len(sent) /\ rd' \div 2 = (rd \div 2) + 1
         /\ sent[rd' \div 2] \in Command
<1>1. /\ rd \in Nat /\ avail \in Nat /\ avail <= 2 * Len(sent) /\ Len(sent) \in Nat /\ rd' <= avail
      /\ sent \in Seq(Vocabulary)
  BY TypeParts DEF ModesInv, StdinTypes, StdinMoves
<1>2. rd' \div 2 \in 1..Len(sent) /\ rd' \div 2 = (rd \div 2) + 1
  BY <1>1
<1>3. sent[rd' \div 2] \in Vocabulary
  BY <1>1, <1>2
<1> QED  BY <1>2, <1>3, VocabularyAssumption

(* What a line may change of the prompt.                                   *)
LEMMA LineModes ==
  ASSUME ModesInv, StdinMoves, ReplTypeOK', FrontendTypes', FrontendInv',
         PromptLogged', ModesAgree', NoSecretOutsideGetPin'
  PROVE  ModesInv'
<1>1. StdinTypes' /\ LoopTypes'
  BY TypeParts DEF ModesInv, StdinTypes, LoopTypes, StdinMoves
<1>2. LinesInv'
  BY DEF ModesInv, LinesInv, StdinMoves
<1> QED  BY <1>1, <1>2, TypePartsNext DEF ModesInv

(* A line without a prompt keeps ModesInv.                                 *)
LEMMA SetupModes ==
  ASSUME ModesInv, StdinMoves, NEW c \in Command, SetupCommand(c) \/ DropLine(c), UNCHANGED feVars
  PROVE  ModesInv'
<1>1. ReplTypeOK /\ mode' = mode /\ (mode = "None" \/ log' = log)
  BY TypeParts, SetupEffect DEF DropLine, replVars, ModesInv
<1>2. ReplTypeOK' /\ (mode # "None" => UNCHANGED replVars)
  BY <1>1, SetupType, SetupEffect, ReplStays DEF DropLine
<1>3. fate' \in {"running", "failed"}
  BY DEF SetupCommand, SetLabel, SetOption, BadArgument, DecodeFails, Reset, Bye, Stateless, Blank,
    EmptyMessage, DropLine, replVars, StdinMoves
<1>4. FrontendTypes'
  BY TypeParts, FrontendStays DEF ModesInv
<1>5. batch = <<>> /\ reason = "None"
  BY DEF ModesInv, FrontendInv, StdinMoves
<1>6. FrontendInv'
  BY <1>1, <1>5 DEF ModesInv, FrontendInv, Unselected, OnTerminal, BeforeSync, StdinMoves, feVars, Only,
    UserKey, EditKey
<1>7. PromptLogged' /\ ModesAgree' /\ NoSecretOutsideGetPin'
  BY <1>1, <1>3
  DEF ModesInv, PromptLogged, ModesAgree, EffectiveMode, NoSecretOutsideGetPin, feVars, StdinMoves
<1> QED  BY <1>2, <1>4, <1>6, <1>7, LineModes

(* What entering a mode does, and does not do.                             *)
LEMMA EnterEffect ==
  ASSUME ModesInv, StdinMoves, mode = "None", FrontendFor # "none", NEW m \in {"GetPin", "Message"},
         EnterMode(FrontendFor, m)
  PROVE  /\ FrontendFor \in {"tty", "wayland"} /\ fate' \in {"running", "failed"}
         /\ feMode' \in {feMode, m} /\ delayed' \in {delayed, m} /\ keys' \in {keys, <<>>}
         /\ FrontendFor = "tty" => delayed' = delayed /\ (fate' = "running" => feMode' = m /\ keys' = <<>>)
         /\ FrontendFor = "wayland" =>
              /\ keys' = keys
              /\ IF synced THEN feMode' = m /\ delayed' = delayed ELSE delayed' = m /\ feMode' = feMode
<1>1. FrontendFor \in {"tty", "wayland"}
  BY TypeParts DEF ModesInv, FrontendTypes, FrontendFor, Selected
<1>2. fate = "running"
  BY DEF StdinMoves
<1>3. CASE FrontendFor = "tty"
  BY <1>1, <1>2, <1>3 DEF EnterMode, TtyEnterMode
<1>4. CASE FrontendFor = "wayland"
  BY <1>1, <1>2, <1>4 DEF EnterMode, WaylandEnterMode, CreateSurface
<1> QED  BY <1>1, <1>3, <1>4

(* A line that opens a prompt: both modes are set, or the process ends.    *)
LEMMA OpenModes ==
  ASSUME ModesInv, StdinMoves, NEW c \in Command, OpenPrompt(c)
  PROVE  ModesInv'
<1> DEFINE m == IF c.op = "GETPIN" THEN "GetPin" ELSE "Message"
<1>1. /\ FrontendFor # "none" /\ fe' = FrontendFor /\ StartPrompt(c) /\ EnterMode(FrontendFor, m)
      /\ UNCHANGED <<synced, batch, reason, secret, focus, link>>
  BY DEF OpenPrompt
<1>2. mode = "None" /\ c.op \in PromptOp /\ mode' = ModeOf(c.op)
  BY <1>1 DEF StartPrompt, RequiresFrontend, PromptOp
<1>3. mode' \in {"GetPin", "Confirm", "Message"} /\ InterfaceFor(mode') = m /\ (mode' = "GetPin" <=> m = "GetPin")
  BY <1>2 DEF ModeOf, PromptOp, InterfaceFor
<1>4. m \in {"GetPin", "Message"}
  OBVIOUS
<1> HIDE DEF m
<1>5. /\ FrontendFor \in {"tty", "wayland"} /\ fate' \in {"running", "failed"}
      /\ feMode' \in {feMode, m} /\ delayed' \in {delayed, m} /\ keys' \in {keys, <<>>}
      /\ FrontendFor = "tty" => delayed' = delayed /\ (fate' = "running" => feMode' = m /\ keys' = <<>>)
      /\ FrontendFor = "wayland" =>
           /\ keys' = keys
           /\ IF synced THEN feMode' = m /\ delayed' = delayed ELSE delayed' = m /\ feMode' = feMode
  BY <1>1, <1>2, <1>4, EnterEffect
<1>6. ReplTypeOK'
  BY <1>1, <1>5, TypeParts, StartType DEF ModesInv
<1>7. FrontendTypes /\ keys \in Seq(KeyPress) /\ batch = <<>> /\ reason = "None"
      /\ (fe # "none" => FrontendFor = fe) /\ fe \in {"none", "tty", "wayland"}
  BY TypeParts DEF ModesInv, FrontendTypes, FrontendInv, StdinMoves, FrontendFor
<1>8. FrontendTypes'
  BY <1>1, <1>4, <1>5, <1>7 DEF FrontendTypes, InterfaceMode
<1>9. synced' = synced /\ batch' = <<>> /\ reason' = "None" /\ focus' = focus /\ pc' = "frontend" /\ fe' = FrontendFor
  BY <1>1, <1>7 DEF StdinMoves
<1>10. fe' = "tty" => OnTerminal'
  <2>1. ASSUME fe' = "tty"  PROVE  OnTerminal'
    <3>1. delayed = "None" /\ ~synced /\ focus = "none" /\ Only(keys, UserKey)
      BY <1>7, <1>9, <2>1 DEF ModesInv, FrontendInv, Unselected, OnTerminal, Only
    <3>2. Only(keys', UserKey)
      BY <1>5, <3>1 DEF Only
    <3> QED  BY <1>5, <1>9, <2>1, <3>1, <3>2 DEF OnTerminal, Only, UserKey, EditKey
  <2> QED  BY <2>1
<1>11. fe' = "wayland" /\ ~synced' => BeforeSync'
  <2>1. ASSUME fe' = "wayland", ~synced'  PROVE  BeforeSync'
    <3>1. feMode = "None" /\ focus = "none" /\ Only(keys, {"Sync"})
      BY <1>7, <1>9, <2>1 DEF ModesInv, FrontendInv, Unselected, BeforeSync, Only
    <3> QED  BY <1>5, <1>9, <2>1, <3>1 DEF BeforeSync, Only
  <2> QED  BY <2>1
<1>12. synced' => delayed' = "None"
  <2>1. synced => FrontendFor = "wayland" /\ delayed = "None"
    BY <1>5, <1>7 DEF ModesInv, FrontendInv, Unselected, OnTerminal
  <2> QED  BY <1>5, <1>9, <2>1
<1>13. FrontendInv'
  BY <1>5, <1>9, <1>10, <1>11, <1>12 DEF FrontendInv
<1>14. PromptLogged'
  <2>1. log \in Seq(LogEntry) /\ Entry(c, "PENDING") \in LogEntry /\ log' = Append(log, Entry(c, "PENDING"))
    BY <1>1, TypeParts, EntryType DEF ModesInv, ReplTypeOK, StartPrompt, Logged, ReplyKind
  <2> QED  BY <2>1 DEF PromptLogged
<1>15. ModesAgree'
  <2>1. fate' = "running" => EffectiveMode' = m
    BY <1>5, <1>9 DEF EffectiveMode
  <2> QED  BY <1>3, <2>1 DEF ModesAgree
<1>16. NoSecretOutsideGetPin'
  <2>1. secret' = <<>>
    BY <1>1, <1>2 DEF ModesInv, NoSecretOutsideGetPin, StdinMoves
  <2> QED  BY <2>1 DEF NoSecretOutsideGetPin
<1> QED  BY <1>6, <1>8, <1>13, <1>14, <1>15, <1>16, LineModes

(* A prompt nobody can show ends the process.                              *)
LEMMA NoFrontendModes ==
  ASSUME ModesInv, StdinMoves, NEW c \in Command, NoFrontend(c)
  PROVE  ModesInv'
<1>1. UNCHANGED <<mode, labels, defaults, settings, isRunning, log, feVars>> /\ fate' = "failed"
  BY DEF NoFrontend
<1>2. ReplTypeOK' /\ FrontendTypes'
  BY <1>1, TypeParts, ReplFate, FrontendStays DEF ModesInv
<1>3. batch = <<>> /\ reason = "None"
  BY DEF ModesInv, FrontendInv, StdinMoves
<1>4. FrontendInv'
  BY <1>1, <1>3 DEF ModesInv, FrontendInv, Unselected, OnTerminal, BeforeSync, StdinMoves, feVars, Only,
    UserKey, EditKey
<1>5. PromptLogged' /\ ModesAgree' /\ NoSecretOutsideGetPin'
  BY <1>1 DEF ModesInv, PromptLogged, ModesAgree, NoSecretOutsideGetPin
<1> QED  BY <1>2, <1>4, <1>5, LineModes

(* A byte of stdin keeps ModesInv.                                         *)
LEMMA StdinModes ==
  ASSUME ModesInv, StdinStep
  PROVE  ModesInv'
<1>1. StdinMoves
  BY StdinCases
<1>2. CASE UNCHANGED <<replVars, feVars>>
  <2>1. PromptPart'
    BY <1>1, <1>2, PromptStays DEF StdinMoves
  <2>2. ReplTypeOK' /\ FrontendTypes'
    BY <1>2, TypeParts, ReplStays, FrontendStays DEF ModesInv
  <2> QED  BY <1>1, <2>1, <2>2, LineModes DEF PromptPart
<1>3. ASSUME rd' = rd + 1, rd' % 2 = 0, DispatchLine(sent[rd' \div 2])  PROVE  ModesInv'
  <2> DEFINE c == sent[rd' \div 2]
  <2>1. c \in Command
    BY <1>1, <1>3, LineRead
  <2> HIDE DEF c
  <2>2. NoFrontend(c) \/ OpenPrompt(c) \/ ((SetupCommand(c) \/ DropLine(c)) /\ UNCHANGED feVars)
    BY <1>3 DEF DispatchLine, c
  <2> QED  BY <1>1, <2>1, <2>2, NoFrontendModes, OpenModes, SetupModes
<1> QED  BY <1>2, <1>3, StdinCases

-----------------------------------------------------------------------------
(* The end of a prompt.                                                    *)

(* The end of a prompt leaves both modes and empties the page.             *)
LEMMA EndModesOf ==
  ASSUME ModesInv, EndPromptOnTerminal \/ EndPromptOnWayland
  PROVE  ModesInv'
<1>1. /\ HandleFrontendEvent(reason, secret) /\ reason \in UserEvent
      /\ secret' = <<>> /\ reason' = "None" /\ fate' \in {"running", "failed"} /\ pc' = "head"
      /\ batch = <<>> /\ pc = "dispatch" /\ fate = "running"
      /\ UNCHANGED <<stdinVars, ready, fe, synced, delayed, batch, link>>
      /\ (fe = "tty" /\ TtyLeaveMode) \/ (fe = "wayland" /\ WaylandLeaveMode)
  BY DEF EndPromptOnTerminal, EndPromptOnWayland, EndPromptOf, At
<1>2. FrontendTypes /\ ReplTypeOK /\ keys \in Seq(KeyPress) /\ secret \in Secret
  BY TypeParts DEF ModesInv, FrontendTypes
<1>3. mode' = "None"
  BY <1>1 DEF HandleFrontendEvent
<1>4. ReplTypeOK'
  <2>1. mode # "None" => Len(log) > 0
    BY DEF ModesInv, PromptLogged
  <2> QED  BY <1>1, <1>2, <2>1, AnswerType
<1>5. feMode' = "None" /\ keys' \in Seq(KeyPress) /\ focus' \in {"none", "current", "stale"}
  BY <1>1, <1>2, StaleKeys DEF TtyLeaveMode, WaylandLeaveMode, FrontendTypes
<1>6. secret' \in Secret /\ Len(secret') <= Capacity
  BY <1>1, CapacityAssumption DEF Secret
<1>7. FrontendTypes' /\ StdinTypes' /\ LoopTypes'
  BY <1>1, <1>2, <1>5, <1>6, TypeParts, StdinStays DEF ModesInv, FrontendTypes, InterfaceMode, LoopTypes
<1>8. LinesInv'
  BY <1>1, LinesStay
<1>9. (fe = "tty" => focus' = focus /\ keys' = <<>>) /\ (fe = "wayland" => synced)
  BY <1>1 DEF TtyLeaveMode, ModesInv, FrontendInv, BeforeSync, UserEvent
<1>10. FrontendInv'
  BY <1>1, <1>2, <1>9 DEF ModesInv, FrontendInv, OnTerminal, FrontendTypes, Only
<1>11. PromptLogged' /\ NoSecretOutsideGetPin'
  BY <1>1, <1>3 DEF PromptLogged, NoSecretOutsideGetPin
<1>12. ModesAgree'
  <2>1. EffectiveMode' = "None"
    BY <1>1, <1>5, <1>9 DEF EffectiveMode
  <2> QED  BY <1>3, <2>1 DEF ModesAgree, InterfaceFor
<1> QED  BY <1>4, <1>7, <1>8, <1>10, <1>11, <1>12, TypePartsNext DEF ModesInv

(* A step that changes nothing keeps ModesInv.                             *)
LEMMA StutterModes ==
  ASSUME ModesInv, UNCHANGED vars
  PROVE  ModesInv'
<1>1. UNCHANGED <<replVars, stdinVars, pc, ready, feVars>>
  BY DEF vars
<1>2. TypeOK'
  BY <1>1, TypeParts, TypePartsNext, ReplStays, StdinStays, FrontendStays DEF ModesInv, LoopTypes
<1> QED  BY <1>1, <1>2, PromptStays, LinesStay DEF PromptPart, ModesInv

(* Every step of the loop keeps ModesInv.                                  *)
LEMMA LoopModes ==
  ASSUME ModesInv, Loop
  PROVE  ModesInv'
BY HeadModes, PollModes, StdinModes, ReturnToHead, ReadModes, KeyModes, ClearModes, SyncModes, ClosedModes,
  FailureModes, NoDecisionModes, EndModesOf DEF Loop

(* Every step keeps ModesInv.                                              *)
LEMMA StepModes == ModesInv /\ [Next]_vars => ModesInv'
BY ClientModes, EnvironmentModes, LoopModes, StutterModes DEF Next, Returned

(* ModesInv is an invariant.                                               *)
LEMMA ModesInvariance == Spec => []ModesInv
BY InitModes, StepModes, PTL DEF Spec

(* The state of pinentry mode stays in its types: what is read of stdin    *)
(* was written, the secret fits its page, and every log entry is one.      *)
THEOREM PinentryTypeCorrect == Spec => []TypeOK
<1>1. ModesInv => TypeOK
  BY DEF ModesInv
<1> QED  BY <1>1, ModesInvariance, PTL

(* run_pinentry's two modes, AssuanRepl::mode and the frontend's, agree    *)
(* whatever the user types, even before the sync callback.                 *)
THEOREM TheModesAgree == Spec => []ModesAgree
<1>1. ModesInv => ModesAgree
  BY DEF ModesInv
<1> QED  BY <1>1, ModesInvariance, PTL

(* Nothing typed for one prompt is in the secret page at the next one.     *)
THEOREM SecretEndsWithGetPin == Spec => []NoSecretOutsideGetPin
<1>1. ModesInv => NoSecretOutsideGetPin
  BY DEF ModesInv
<1> QED  BY <1>1, ModesInvariance, PTL

-----------------------------------------------------------------------------
(* Which prompt a key belongs to.  On Wayland a key pressed behind the one *)
(* that decides is a key for the next prompt; what follows is about a      *)
(* terminal, which discards such keys, or a user who does not press them.  *)

NoTypeAhead == PatientUser \/ LiveDisplays = {}

Fresh(ks) == \A i \in 1..Len(ks) : ks[i].fresh
NoUserKey(ks) == \A i \in 1..Len(ks) : ks[i].key \notin UserKey
Owned(ks) == \A i \in 1..Len(ks) : ks[i].key \in UserKey => ks[i].fresh
DecidesLast(ks) ==
  \A i, j \in 1..Len(ks) : ks[i].key \in DecisionKey /\ i < j => ks[j].key \notin UserKey

(* The sync callback is delivered once, before anything else.              *)
SyncOnce ==
  /\ fe = "wayland" /\ ~synced => Len(keys) + Len(batch) <= 1 /\ Fresh(keys) /\ Fresh(batch)
  /\ synced => Only(keys, UserKey \cup {"Closed"}) /\ Only(batch, UserKey \cup {"Closed"})

TerminalStops == fe = "tty" /\ reason # "None" => batch = <<>>

WhoWaits == fe = "wayland" => PatientUser /\ LiveDisplays # {}

(* A patient user's decision is the last of what waits.                    *)
Patience ==
  /\ mode = "None" \/ reason \in UserEvent => NoUserKey(keys) /\ NoUserKey(batch)
  /\ DecidesLast(keys) /\ DecidesLast(batch)
  /\ Decides(batch) => NoUserKey(keys)
  /\ reason \in UserEvent => mode # "None"

OwnKeys ==
  fate = "running" =>
    /\ mode # "None" => Owned(keys) /\ Owned(batch)
    /\ PatientUser => Patience

KeysPart == SyncOnce /\ TerminalStops /\ WhoWaits /\ OwnKeys
KeysInv == ModesInv /\ KeysPart

(* Of an empty queue everything holds.                                     *)
LEMMA NoKeys ==
  NoUserKey(<<>>) /\ Owned(<<>>) /\ DecidesLast(<<>>) /\ ~Decides(<<>>) /\ Fresh(<<>>)
  /\ Len(<<>>) = 0 /\ \A K : Only(<<>>, K)
BY DEF NoUserKey, Owned, DecidesLast, Decides, Fresh, Only

(* A queue without a key of the user has none that decides.                *)
LEMMA WeakerKeys ==
  ASSUME NEW ks \in Seq(KeyPress)
  PROVE  (NoUserKey(ks) => Owned(ks) /\ DecidesLast(ks) /\ ~Decides(ks)) /\ (~Decides(ks) => DecidesLast(ks))
BY DEF NoUserKey, Owned, DecidesLast, Decides, UserKey

(* What a key appended to a queue makes of it.                             *)
LEMMA KeyAppended ==
  ASSUME NEW ks \in Seq(KeyPress), NEW k \in KeyPress
  PROVE  /\ NoUserKey(ks) /\ k.key \notin UserKey => NoUserKey(Append(ks, k))
         /\ Owned(ks) /\ (k.key \in UserKey => k.fresh) => Owned(Append(ks, k))
         /\ DecidesLast(ks) /\ (k.key \notin UserKey \/ ~Decides(ks)) => DecidesLast(Append(ks, k))
<1> DEFINE new == Append(ks, k)
<1>1. Len(new) = Len(ks) + 1 /\ (\A i \in 1..Len(ks) : new[i] = ks[i]) /\ new[Len(ks) + 1] = k
      /\ Len(ks) \in Nat
  BY OneKeyMore
<1> HIDE DEF new
<1>2. \A i \in 1..Len(new) : i \in 1..Len(ks) \/ i = Len(ks) + 1
  BY <1>1
<1>3. NoUserKey(ks) /\ k.key \notin UserKey => NoUserKey(new)
  BY <1>1, <1>2 DEF NoUserKey
<1>4. Owned(ks) /\ (k.key \in UserKey => k.fresh) => Owned(new)
  BY <1>1, <1>2 DEF Owned
<1>5. ASSUME DecidesLast(ks), k.key \notin UserKey \/ ~Decides(ks)  PROVE  DecidesLast(new)
  <2> SUFFICES ASSUME NEW i \in 1..Len(new), NEW j \in 1..Len(new), new[i].key \in DecisionKey, i < j
               PROVE  new[j].key \notin UserKey
    BY DEF DecidesLast
  <2>1. i \in 1..Len(ks) /\ new[i] = ks[i]
    BY <1>1
  <2>2. CASE j \in 1..Len(ks)
    BY <1>1, <1>5, <2>1, <2>2 DEF DecidesLast
  <2>3. CASE j = Len(ks) + 1
    BY <1>1, <1>5, <2>1, <2>3 DEF Decides
  <2> QED  BY <1>2, <2>2, <2>3
<1> QED  BY <1>3, <1>4, <1>5 DEF new

(* What is left of a queue whose first key is taken.                       *)
LEMMA KeyTaken ==
  ASSUME NEW ks \in Seq(KeyPress), ks # <<>>
  PROVE  /\ NoUserKey(ks) => NoUserKey(Tail(ks)) /\ Head(ks).key \notin UserKey
         /\ Owned(ks) => Owned(Tail(ks)) /\ (Head(ks).key \in UserKey => Head(ks).fresh)
         /\ DecidesLast(ks) => DecidesLast(Tail(ks)) /\ (Head(ks).key \in DecisionKey => NoUserKey(Tail(ks)))
         /\ Decides(Tail(ks)) \/ Head(ks).key \in DecisionKey => Decides(ks)
         /\ Fresh(ks) => Fresh(Tail(ks)) /\ Head(ks).fresh
<1> DEFINE rest == Tail(ks)
<1>1. /\ Head(ks) = ks[1] /\ 1 \in 1..Len(ks) /\ Len(rest) = Len(ks) - 1 /\ Len(ks) \in Nat
      /\ \A i \in 1..Len(rest) : i + 1 \in 1..Len(ks) /\ rest[i] = ks[i + 1]
  BY OneKeyLess
<1> HIDE DEF rest
<1>2. \A i, j \in 1..Len(rest) : i < j => i + 1 < j + 1
  BY <1>1
<1>3. \A i \in 1..Len(rest) : 1 < i + 1
  BY <1>1
<1>4. NoUserKey(ks) => NoUserKey(rest) /\ Head(ks).key \notin UserKey
  BY <1>1 DEF NoUserKey
<1>5. Owned(ks) => Owned(rest) /\ (Head(ks).key \in UserKey => Head(ks).fresh)
  BY <1>1 DEF Owned
<1>6. DecidesLast(ks) => DecidesLast(rest)
  BY <1>1, <1>2 DEF DecidesLast
<1>7. DecidesLast(ks) /\ Head(ks).key \in DecisionKey => NoUserKey(rest)
  BY <1>1, <1>3 DEF DecidesLast, NoUserKey
<1>8. Decides(rest) \/ Head(ks).key \in DecisionKey => Decides(ks)
  BY <1>1 DEF Decides
<1>9. Fresh(ks) => Fresh(rest) /\ Head(ks).fresh
  BY <1>1 DEF Fresh
<1> QED  BY <1>4, <1>5, <1>6, <1>7, <1>8, <1>9 DEF rest

(* A queue that is cut in two.                                             *)
LEMMA KeysSplit ==
  ASSUME NEW ks \in Seq(KeyPress), NEW n \in 1..Len(ks)
  PROVE  LET front == SubSeq(ks, 1, n)
             rest == SubSeq(ks, n + 1, Len(ks))
         IN  /\ NoUserKey(ks) => NoUserKey(front) /\ NoUserKey(rest)
             /\ Owned(ks) => Owned(front) /\ Owned(rest)
             /\ DecidesLast(ks) =>
                  DecidesLast(front) /\ DecidesLast(rest) /\ (Decides(front) => NoUserKey(rest))
<1> DEFINE front == SubSeq(ks, 1, n)
           rest == SubSeq(ks, n + 1, Len(ks))
<1>1. /\ Len(front) = n /\ n \in Nat /\ Len(ks) \in Nat
      /\ \A i \in 1..n : front[i] = ks[i] /\ i \in 1..Len(ks)
      /\ Len(rest) = Len(ks) - n
      /\ \A i \in 1..Len(rest) : rest[i] = ks[n + i] /\ n + i \in 1..Len(ks)
  BY SomeKeys
<1> HIDE DEF front, rest
<1>2. \A i, j \in 1..Len(rest) : i < j => n + i < n + j
  BY <1>1
<1>3. \A i \in 1..n : \A j \in 1..Len(rest) : i < n + j
  BY <1>1
<1>4. NoUserKey(ks) => NoUserKey(front) /\ NoUserKey(rest)
  BY <1>1 DEF NoUserKey
<1>5. Owned(ks) => Owned(front) /\ Owned(rest)
  BY <1>1 DEF Owned
<1>6. DecidesLast(ks) => DecidesLast(front)
  BY <1>1 DEF DecidesLast
<1>7. DecidesLast(ks) => DecidesLast(rest)
  BY <1>1, <1>2 DEF DecidesLast
<1>8. ASSUME DecidesLast(ks), Decides(front)  PROVE  NoUserKey(rest)
  <2>1. PICK i \in 1..n : front[i].key \in DecisionKey
    BY <1>1, <1>8 DEF Decides
  <2>2. ASSUME NEW j \in 1..Len(rest)  PROVE  rest[j].key \notin UserKey
    <3>1. rest[j] = ks[n + j] /\ n + j \in 1..Len(ks) /\ i < n + j /\ i \in 1..Len(ks) /\ front[i] = ks[i]
      BY <1>1, <1>3
    <3> QED  BY <1>8, <2>1, <3>1 DEF DecidesLast
  <2> QED  BY <2>2 DEF NoUserKey
<1> QED  BY <1>4, <1>5, <1>6, <1>7, <1>8 DEF front, rest

(* A queue that has become stale still has the same order of keys.         *)
LEMMA StaleUserKeys ==
  ASSUME NEW ks \in Seq(KeyPress)
  PROVE  /\ NoUserKey(ks) => NoUserKey(Stale(ks))
         /\ \A K : Only(ks, K) => Only(Stale(ks), K)
BY StaleKeys DEF NoUserKey, Only

(* Steps that leave the keys alone.                                        *)
LEMMA KeysStay ==
  ASSUME KeysInv, UNCHANGED <<mode, feVars>>, fate' = "running" => fate = "running"
  PROVE  KeysPart'
BY DEF KeysInv, KeysPart, SyncOnce, TerminalStops, WhoWaits, OwnKeys, Patience, feVars, Fresh, NoUserKey,
  Owned, DecidesLast, Decides, Only, UserKey, EditKey, DecisionKey

(* The loop starts with no key waiting.                                    *)
LEMMA InitKeys == Init => KeysPart
BY NoKeys DEF Init, ReplInit, KeysPart, SyncOnce, TerminalStops, WhoWaits, OwnKeys, Patience, UserEvent

(* A key is pressed: a patient user does so only at the prompt in view.    *)
LEMMA PressKeys ==
  ASSUME KeysInv, NEW k \in UserKeys, Press(k)
  PROVE  KeysPart'
<1> DEFINE press == [key |-> k, fresh |-> PromptInView]
<1>1. press \in KeyPress /\ press.key = k /\ press.fresh = PromptInView /\ k \in UserKey
  <2>1. PromptInView \in BOOLEAN
    BY DEF PromptInView
  <2>2. k \in UserKey /\ k \in Key
    BY UserKeysAssumption, KeysApart DEF UserKey
  <2> QED  BY <2>1, <2>2, Zenon DEF KeyPress
<1>2. keys' = Append(keys, press) /\ fate = "running" /\ CanPress(k) /\ (PatientUser => PromptInView /\ ~Decided)
      /\ UNCHANGED <<replVars, stdinVars, pc, ready, fe, feMode, synced, delayed, batch, reason,
                     secret, focus, link>>
  BY DEF Press, KeyMatters, At
<1> HIDE DEF press
<1>3. ModesInv /\ FrontendTypes /\ keys \in Seq(KeyPress) /\ fe \in {"tty", "wayland"}
  BY <1>2, TypeParts DEF KeysInv, ModesInv, FrontendTypes, CanPress
<1>4. PromptInView => mode # "None"
  BY <1>2, <1>3, SameMode DEF PromptInView
<1>5. mode # "None" => PromptInView
  <2>1. CASE PatientUser
    BY <1>2, <2>1
  <2>2. CASE ~PatientUser
    <3>1. fe = "tty"
      BY <1>3, <2>2 DEF KeysInv, KeysPart, WhoWaits
    <3>2. mode # "None" => feMode # "None"
      BY <1>2, <1>3, <3>1 DEF ModesInv, ModesAgree, EffectiveMode, InterfaceFor
    <3> QED  BY <3>1, <3>2 DEF PromptInView
  <2> QED  BY <2>1, <2>2
<1>6. SyncOnce'
  <2>1. fe = "wayland" => synced
    BY <1>2, <1>3 DEF CanPress, ModesInv, FrontendInv, BeforeSync
  <2>2. synced => Only(keys', UserKey \cup {"Closed"})
    BY <1>1, <1>2, <1>3, OnlyOneMore DEF KeysInv, KeysPart, SyncOnce
  <2> QED  BY <1>2, <2>1, <2>2 DEF KeysInv, KeysPart, SyncOnce
<1>7. TerminalStops' /\ WhoWaits'
  BY <1>2 DEF KeysInv, KeysPart, TerminalStops, WhoWaits
<1>8. mode # "None" => Owned(keys') /\ Owned(batch)
  BY <1>1, <1>2, <1>3, <1>5, KeyAppended DEF KeysInv, KeysPart, OwnKeys
<1>9. ASSUME PatientUser  PROVE  Patience'
  <2>1. Patience /\ mode # "None" /\ reason = "None" /\ ~Decides(keys) /\ ~Decides(batch)
    BY <1>2, <1>4, <1>9 DEF KeysInv, KeysPart, OwnKeys, Decided
  <2>2. DecidesLast(keys')
    BY <1>1, <1>2, <1>3, <2>1, KeyAppended, WeakerKeys
  <2> QED  BY <1>2, <2>1, <2>2 DEF Patience, replVars, UserEvent
<1>10. OwnKeys'
  BY <1>2, <1>8, <1>9 DEF OwnKeys, replVars
<1> QED  BY <1>6, <1>7, <1>10 DEF KeysPart

(* What the compositor does is not a key of the user.                      *)
LEMMA CompositorKeys ==
  ASSUME KeysInv, AnswerSync \/ ShowPrompt \/ HidePrompt \/ CloseSurface \/ LoseLink
  PROVE  KeysPart'
<1>1. UNCHANGED <<replVars, stdinVars, pc, ready, fe, feMode, synced, delayed, batch, reason, secret>>
      /\ fate = "running"
  BY DEF AnswerSync, ShowPrompt, HidePrompt, CloseSurface, LoseLink, At
<1>2. ModesInv /\ FrontendTypes /\ keys \in Seq(KeyPress) /\ FrontendInv
  BY TypeParts DEF KeysInv, ModesInv, FrontendTypes
<1>3. ASSUME keys' \in {keys, <<>>}  PROVE  KeysPart'
  <2>1. CASE keys' = keys
    BY <1>1, <2>1
    DEF KeysInv, KeysPart, SyncOnce, TerminalStops, WhoWaits, OwnKeys, Patience, Fresh, NoUserKey,
      Owned, DecidesLast, Decides, Only, UserKey, EditKey, DecisionKey, replVars
  <2>2. CASE keys' = <<>>
    <3>1. batch \in Seq(KeyPress) /\ Len(batch) \in Nat /\ Len(keys) \in Nat
      BY <1>2 DEF FrontendTypes
    <3> HIDE DEF Patience
    <3>2. SyncOnce'
      BY <1>1, <2>2, <3>1, NoKeys DEF KeysInv, KeysPart, SyncOnce
    <3>3. TerminalStops' /\ WhoWaits'
      BY <1>1 DEF KeysInv, KeysPart, TerminalStops, WhoWaits
    <3>4. OwnKeys'
      BY <1>1, <2>2, NoKeys DEF KeysInv, KeysPart, OwnKeys, Patience, replVars
    <3> QED  BY <3>2, <3>3, <3>4 DEF KeysPart
  <2> QED  BY <1>3, <2>1, <2>2
<1>4. CASE ShowPrompt \/ HidePrompt \/ LoseLink
  BY <1>3, <1>4 DEF ShowPrompt, HidePrompt, LoseLink
<1>5. CASE AnswerSync
  <2> DEFINE ks == <<[key |-> "Sync", fresh |-> TRUE]>>
  <2>1. keys' = ks /\ fe = "wayland" /\ ~synced /\ pc # "dispatch"
    BY <1>5 DEF AnswerSync, At
  <2>2. batch = <<>>
    BY <1>2, <2>1 DEF FrontendInv
  <2>3. Len(ks) = 1 /\ Fresh(ks) /\ NoUserKey(ks)
    BY KeysApart DEF Fresh, NoUserKey, CompositorEvent
  <2>4. ks \in Seq(KeyPress)
    BY DEF KeyPress, Key, CompositorEvent
  <2> HIDE DEF ks
  <2>5. Owned(ks) /\ DecidesLast(ks)
    BY <2>3, <2>4, WeakerKeys
  <2>6. SyncOnce'
    BY <1>1, <2>1, <2>2, <2>3, NoKeys DEF SyncOnce
  <2>7. TerminalStops' /\ WhoWaits'
    BY <1>1 DEF KeysInv, KeysPart, TerminalStops, WhoWaits
  <2>8. OwnKeys'
    BY <1>1, <2>1, <2>3, <2>5 DEF KeysInv, KeysPart, OwnKeys, Patience, replVars
  <2> QED  BY <2>6, <2>7, <2>8 DEF KeysPart
<1>6. CASE CloseSurface
  <2> DEFINE k == [key |-> "Closed", fresh |-> TRUE]
  <2>1. keys' = Append(keys, k) /\ focus = "current"
    BY <1>6 DEF CloseSurface
  <2>2. k \in KeyPress /\ k.key = "Closed" /\ k.key \notin UserKey
    BY KeysApart DEF KeyPress, Key, CompositorEvent
  <2> HIDE DEF k
  <2>3. ~(fe = "wayland" /\ ~synced)
    BY <1>2, <2>1 DEF FrontendInv, BeforeSync
  <2>4. synced => Only(keys', UserKey \cup {"Closed"})
    BY <1>2, <2>1, <2>2, OnlyOneMore DEF KeysInv, KeysPart, SyncOnce
  <2>5. SyncOnce'
    BY <1>1, <2>3, <2>4 DEF KeysInv, KeysPart, SyncOnce
  <2>6. TerminalStops' /\ WhoWaits'
    BY <1>1 DEF KeysInv, KeysPart, TerminalStops, WhoWaits
  <2>7. OwnKeys'
    BY <1>1, <1>2, <2>1, <2>2, KeyAppended DEF KeysInv, KeysPart, OwnKeys, Patience, replVars
  <2> QED  BY <2>5, <2>6, <2>7 DEF KeysPart
<1> QED  BY <1>4, <1>5, <1>6

(* The keys the frontend hands to the loop.                                *)
LEMMA ReadKeys ==
  ASSUME KeysInv, (\E n \in 1..Len(keys) : ReadTerminal(n)) \/ ReadWayland
  PROVE  KeysPart'
<1>1. UNCHANGED <<replVars, stdinVars, fe, feMode, synced, delayed, reason, secret, focus>>
      /\ fate = "running" /\ pc = "frontend"
  BY DEF ReadTerminal, ReadWayland, At
<1>2. FrontendTypes /\ keys \in Seq(KeyPress) /\ FrontendInv /\ Len(keys) \in Nat
  BY TypeParts DEF KeysInv, ModesInv, FrontendTypes
<1>3. batch = <<>> /\ reason = "None"
  BY <1>1, <1>2 DEF FrontendInv
<1>4. TerminalStops' /\ WhoWaits'
  BY <1>1, <1>3 DEF KeysInv, KeysPart, TerminalStops, WhoWaits
<1>5. ASSUME NEW n \in 1..Len(keys), ReadTerminal(n)  PROVE  SyncOnce' /\ OwnKeys'
  <2>1. batch' = SubSeq(keys, 1, n) /\ keys' = SubSeq(keys, n + 1, Len(keys)) /\ fe = "tty"
    BY <1>5 DEF ReadTerminal
  <2>2. /\ NoUserKey(keys) => NoUserKey(batch') /\ NoUserKey(keys')
        /\ Owned(keys) => Owned(batch') /\ Owned(keys')
        /\ DecidesLast(keys) => DecidesLast(batch') /\ DecidesLast(keys') /\ (Decides(batch') => NoUserKey(keys'))
    BY <1>2, <2>1, KeysSplit
  <2>3. SyncOnce'
    BY <1>1, <1>2, <2>1 DEF SyncOnce, FrontendInv, OnTerminal
  <2>4. OwnKeys'
    BY <1>1, <1>3, <2>2 DEF KeysInv, KeysPart, OwnKeys, Patience, replVars, UserEvent
  <2> QED  BY <2>3, <2>4
<1>6. ASSUME ReadWayland  PROVE  SyncOnce' /\ OwnKeys'
  <2>1. batch' = keys /\ keys' = <<>>
    BY <1>6 DEF ReadWayland
  <2>2. Owned(batch') <=> Owned(keys)
    BY <2>1 DEF Owned, UserKey, EditKey
  <2>3. (NoUserKey(batch') <=> NoUserKey(keys)) /\ (DecidesLast(batch') <=> DecidesLast(keys))
    BY <2>1 DEF NoUserKey, DecidesLast, UserKey, EditKey, DecisionKey
  <2>4. (Fresh(batch') <=> Fresh(keys)) /\ \A K : Only(batch', K) <=> Only(keys, K)
    BY <2>1 DEF Fresh, Only
  <2>5. SyncOnce'
    BY <1>1, <1>2, <1>3, <2>1, <2>4, NoKeys DEF KeysInv, KeysPart, SyncOnce, UserKey, EditKey, DecisionKey
  <2>6. OwnKeys'
    BY <1>1, <1>3, <2>1, <2>2, <2>3, NoKeys DEF KeysInv, KeysPart, OwnKeys, Patience, replVars, UserEvent
  <2> QED  BY <2>5, <2>6
<1>7. SyncOnce' /\ OwnKeys'
  BY <1>5, <1>6
<1> QED  BY <1>4, <1>7 DEF KeysPart

(* A queue of which only the length is known.                              *)
LEMMA NothingWaiting ==
  ASSUME NEW ks, Len(ks) = 0
  PROVE  \A K : Only(ks, K)
BY DEF Only

(* The line that is read: the queue was emptied, or the prompt of a        *)
(* patient user finds no key in it.                                        *)
LEMMA StdinKeys ==
  ASSUME NoTypeAhead, KeysInv, StdinStep
  PROVE  KeysPart'
<1>1. StdinMoves /\ ModesInv /\ FrontendTypes /\ FrontendInv
  BY StdinCases, TypeParts DEF KeysInv, ModesInv
<1>2. fate = "running" /\ batch = <<>> /\ reason = "None"
  BY <1>1 DEF StdinMoves, FrontendInv
<1>3. CASE UNCHANGED <<replVars, feVars>>
  BY <1>3, KeysStay DEF replVars
<1>4. ASSUME rd' = rd + 1, rd' % 2 = 0, DispatchLine(sent[rd' \div 2])  PROVE  KeysPart'
  <2> DEFINE c == sent[rd' \div 2]
  <2>1. c \in Command
    BY <1>1, <1>4, LineRead
  <2> HIDE DEF c
  <2>2. NoFrontend(c) \/ OpenPrompt(c) \/ ((SetupCommand(c) \/ DropLine(c)) /\ UNCHANGED feVars)
    BY <1>4 DEF DispatchLine, c
  <2>3. CASE NoFrontend(c)
    BY <1>2, <2>3, KeysStay DEF NoFrontend
  <2>4. CASE (SetupCommand(c) \/ DropLine(c)) /\ UNCHANGED feVars
    <3>1. mode' = mode
      BY <2>1, <2>4, SetupEffect DEF DropLine, replVars
    <3> QED  BY <1>2, <2>4, <3>1, KeysStay
  <2>5. CASE OpenPrompt(c)
    <3> DEFINE m == IF c.op = "GETPIN" THEN "GetPin" ELSE "Message"
    <3>1. /\ FrontendFor # "none" /\ fe' = FrontendFor /\ EnterMode(FrontendFor, m) /\ mode = "None"
          /\ UNCHANGED <<synced, batch, reason, secret, focus, link>>
      BY <2>5 DEF OpenPrompt, StartPrompt, RequiresFrontend
    <3>2. m \in {"GetPin", "Message"}
      OBVIOUS
    <3> HIDE DEF m
    <3>3. /\ FrontendFor \in {"tty", "wayland"} /\ keys' \in {keys, <<>>}
          /\ FrontendFor = "tty" => (fate' = "running" => keys' = <<>>)
      BY <1>1, <3>1, <3>2, EnterEffect
    <3>4. keys \in Seq(KeyPress) /\ (fe = "none" => keys = <<>> /\ ~synced) /\ (fe = "tty" => ~synced)
          /\ (fe # "none" => FrontendFor = fe)
      BY <1>1 DEF FrontendTypes, FrontendInv, Unselected, OnTerminal, FrontendFor
    <3>5. fe' = "wayland" => PatientUser /\ LiveDisplays # {}
      <4>1. CASE fe = "none"
        BY <3>1, <4>1 DEF FrontendFor, Selected, NoTypeAhead
      <4>2. CASE fe # "none"
        BY <3>1, <3>4, <4>2 DEF KeysInv, KeysPart, WhoWaits
      <4> QED  BY <4>1, <4>2
    <3>6. batch' = <<>> /\ reason' = "None"
      BY <1>2, <3>1
    <3>7. SyncOnce'
      <4>1. CASE keys' = <<>>
        BY <3>1, <3>6, <4>1, NoKeys DEF SyncOnce
      <4>2. CASE keys' = keys /\ keys # <<>>
        <5>1. fe' = fe /\ synced' = synced /\ batch' = batch
          BY <1>2, <3>1, <3>4, <3>6, <4>2
        <5> QED
          BY <4>2, <5>1 DEF KeysInv, KeysPart, SyncOnce, Fresh, Only, UserKey, EditKey, DecisionKey
      <4> QED  BY <3>3, <4>1, <4>2
    <3>8. fate' = "running" => NoUserKey(keys')
      <4>1. CASE fe' = "tty"
        BY <3>1, <3>3, <4>1, NoKeys
      <4>2. CASE fe' = "wayland"
        <5>1. NoUserKey(keys)
          BY <1>2, <3>1, <3>5, <4>2 DEF KeysInv, KeysPart, OwnKeys, Patience
        <5> QED  BY <3>3, <5>1, NoKeys DEF NoUserKey, UserKey, EditKey, DecisionKey
      <4> QED  BY <3>1, <3>3, <4>1, <4>2
    <3>9. keys' \in Seq(KeyPress)
      <4>1. <<>> \in Seq(KeyPress)
        OBVIOUS
      <4> QED  BY <3>3, <3>4, <4>1, Zenon
    <3>10. fate' = "running" => Owned(keys') /\ DecidesLast(keys')
      BY <3>8, <3>9, WeakerKeys
    <3>11. OwnKeys'
      BY <3>6, <3>8, <3>10, NoKeys DEF OwnKeys, Patience, UserEvent
    <3>12. TerminalStops' /\ WhoWaits'
      BY <3>5, <3>6 DEF TerminalStops, WhoWaits
    <3> QED  BY <3>7, <3>11, <3>12 DEF KeysPart
  <2> QED  BY <2>2, <2>3, <2>4, <2>5
<1> QED  BY <1>1, <1>3, <1>4, StdinCases

(* A dispatched key of the batch.                                          *)
LEMMA DispatchKeys ==
  ASSUME KeysInv, UNCHANGED <<replVars, fe, keys>>, fate = "running", batch # <<>>, batch' = Tail(batch),
         fe = "tty" => reason' = "None",
         synced' = synced \/ (synced' /\ Head(batch).key = "Sync" /\ fe = "wayland"),
         reason' \in UserEvent => reason' = reason \/ Head(batch).key \in DecisionKey
  PROVE  KeysPart'
<1>1. FrontendTypes /\ batch \in Seq(KeyPress) /\ keys \in Seq(KeyPress) /\ Len(keys) \in Nat /\ FrontendInv
  BY TypeParts DEF KeysInv, ModesInv, FrontendTypes
<1>2. /\ NoUserKey(batch) => NoUserKey(batch') /\ Head(batch).key \notin UserKey
      /\ Owned(batch) => Owned(batch')
      /\ DecidesLast(batch) => DecidesLast(batch') /\ (Head(batch).key \in DecisionKey => NoUserKey(batch'))
      /\ Decides(batch') \/ Head(batch).key \in DecisionKey => Decides(batch)
      /\ Fresh(batch) => Fresh(batch')
  BY <1>1, KeyTaken
<1>3. /\ \A K : Only(batch, K) => Only(batch', K) /\ Head(batch).key \in K
      /\ Len(batch') = Len(batch) - 1 /\ Len(batch) \in Nat /\ Len(batch) >= 1
  BY <1>1, OnlyOneLess, OneKeyLess
<1>4. SyncOnce'
  <2>1. CASE synced' = synced
    BY <1>1, <1>2, <1>3, <2>1
    DEF KeysInv, KeysPart, SyncOnce, Fresh, Only, UserKey, EditKey, DecisionKey
  <2>2. CASE synced' /\ Head(batch).key = "Sync" /\ fe = "wayland"
    <3>1. ~synced
      <4>1. "Sync" \notin UserKey \cup {"Closed"}
        BY KeysApart DEF CompositorEvent
      <4> QED  BY <1>3, <2>2, <4>1 DEF KeysInv, KeysPart, SyncOnce
    <3>2. Len(keys) + Len(batch) <= 1
      BY <2>2, <3>1 DEF KeysInv, KeysPart, SyncOnce
    <3>3. Len(keys') = 0 /\ Len(batch') = 0
      BY <1>1, <1>3, <3>2
    <3> QED  BY <2>2, <3>3, NothingWaiting DEF SyncOnce
  <2> QED  BY <2>1, <2>2
<1>5. TerminalStops' /\ WhoWaits'
  BY DEF KeysInv, KeysPart, TerminalStops, WhoWaits
<1>6. mode # "None" => Owned(keys') /\ Owned(batch')
  BY <1>2 DEF KeysInv, KeysPart, OwnKeys, Owned, UserKey, EditKey
<1>7. ASSUME PatientUser  PROVE  Patience'
  <2>1. Patience
    BY <1>7 DEF KeysInv, KeysPart, OwnKeys
  <2>2. NoUserKey(keys') <=> NoUserKey(keys)
    BY DEF NoUserKey, UserKey, EditKey
  <2>3. DecidesLast(keys') /\ DecidesLast(batch') /\ (Decides(batch') => NoUserKey(keys'))
    BY <1>2, <2>1, <2>2 DEF Patience, DecidesLast, UserKey, EditKey, DecisionKey
  <2>4. mode' = mode
    BY DEF replVars
  <2>5. mode = "None" => NoUserKey(keys') /\ NoUserKey(batch')
    BY <1>2, <2>1, <2>2 DEF Patience
  <2>6. reason' \in UserEvent => NoUserKey(keys') /\ NoUserKey(batch') /\ mode # "None"
    <3>1. CASE reason' = reason
      BY <1>2, <2>1, <2>2, <3>1 DEF Patience
    <3>2. CASE Head(batch).key \in DecisionKey
      BY <1>2, <2>1, <2>2, <3>2 DEF Patience, UserKey
    <3> QED  BY <3>1, <3>2
  <2> QED  BY <2>3, <2>4, <2>5, <2>6 DEF Patience
<1> QED  BY <1>4, <1>5, <1>6, <1>7 DEF KeysPart, OwnKeys, replVars

(* A dispatched key of the user.                                           *)
LEMMA KeyKeys ==
  ASSUME KeysInv, DispatchKey \/ ClearFails \/ DispatchSync \/ DispatchClosed
  PROVE  KeysPart'
<1> DEFINE k == Head(batch).key
<1>1. UNCHANGED <<replVars, fe, keys>> /\ fate = "running" /\ batch # <<>>
  BY DEF DispatchKey, ClearFails, DispatchSync, DispatchClosed, At
<1>2. FrontendTypes /\ FrontendInv /\ batch \in Seq(KeyPress) /\ keys \in Seq(KeyPress)
  BY TypeParts DEF KeysInv, ModesInv, FrontendTypes
<1>3. fe = "tty" => reason = "None"
  BY <1>1 DEF KeysInv, KeysPart, TerminalStops
<1>4. fe = "tty" => k \in UserKey
  BY <1>1, <1>2, OnlyOneLess DEF FrontendInv, OnTerminal
<1>5. "Sync" \notin UserKey /\ "Closed" \notin UserKey
  BY KeysApart DEF CompositorEvent
<1>6. CASE DispatchKey
  <2>1. \/ k \in DecisionKey /\ (TtyDecision(k) \/ WaylandDecision(k))
        \/ k \in EditKey /\ EditSecret(k)
    BY <1>6 DEF DispatchKey
  <2>2. synced' = synced
    BY <1>6 DEF DispatchKey
  <2> HIDE DEF k
  <2>3. CASE k \in EditKey /\ EditSecret(k)
    BY <1>1, <1>3, <2>2, <2>3, DispatchKeys DEF EditSecret
  <2>4. CASE k \in DecisionKey /\ WaylandDecision(k)
    BY <1>1, <2>2, <2>4, DispatchKeys DEF WaylandDecision, k
  <2>5. CASE k \in DecisionKey /\ TtyDecision(k)
    <3>1. batch' = <<>> /\ fe = "tty" /\ fe' = "tty" /\ ~synced
      BY <1>1, <1>2, <2>5 DEF TtyDecision, FrontendInv, OnTerminal
    <3>2. SyncOnce' /\ TerminalStops' /\ WhoWaits'
      BY <2>2, <3>1 DEF SyncOnce, TerminalStops, WhoWaits
    <3>3. ASSUME PatientUser  PROVE  Patience'
      <4>1. Patience
        BY <1>1, <3>3 DEF KeysInv, KeysPart, OwnKeys
      <4>2. Decides(batch) /\ mode # "None"
        BY <1>1, <1>2, <2>5, <4>1, KeyTaken DEF Patience, UserKey, k
      <4>3. NoUserKey(keys) /\ DecidesLast(keys)
        BY <4>1, <4>2 DEF Patience
      <4>4. NoUserKey(keys') /\ DecidesLast(keys')
        BY <1>1, <4>3
      <4> QED  BY <1>1, <3>1, <4>2, <4>4, NoKeys DEF Patience, replVars
    <3>4. mode # "None" => Owned(keys')
      BY <1>1 DEF KeysInv, KeysPart, OwnKeys
    <3>5. OwnKeys'
      BY <1>1, <3>1, <3>3, <3>4, NoKeys DEF OwnKeys, replVars
    <3> QED  BY <3>2, <3>5 DEF KeysPart
  <2> QED  BY <2>1, <2>3, <2>4, <2>5
<1>7. CASE ClearFails
  BY <1>1, <1>7, DispatchKeys DEF ClearFails, UserEvent
<1>8. CASE DispatchSync
  <2>1. fe = "wayland"
    BY <1>2, <1>4, <1>5, <1>8 DEF DispatchSync, FrontendTypes, FrontendInv, At
  <2>2. synced' /\ batch' = Tail(batch) /\ reason' \in {reason, "Error"}
    BY <1>8 DEF DispatchSync
  <2>3. k = "Sync"
    BY <1>8 DEF DispatchSync
  <2> QED  BY <1>1, <2>1, <2>2, <2>3, DispatchKeys DEF UserEvent
<1>9. CASE DispatchClosed
  <2>1. fe # "tty"
    BY <1>4, <1>5, <1>9 DEF DispatchClosed
  <2> QED  BY <1>1, <1>9, <2>1, DispatchKeys DEF DispatchClosed, UserEvent
<1> QED  BY <1>6, <1>7, <1>8, <1>9

(* Nothing ends but a prompt that waits.                                   *)
LEMMA EndsAPrompt ==
  ASSUME KeysInv, EndPromptOnTerminal \/ EndPromptOnWayland
  PROVE  mode # "None" /\ feMode # "None"
<1>1. /\ fate = "running" /\ reason \in UserEvent /\ ModesInv
      /\ (fe = "tty" /\ TtyLeaveMode) \/ (fe = "wayland" /\ WaylandLeaveMode)
  BY DEF EndPromptOnTerminal, EndPromptOnWayland, EndPromptOf, At, KeysInv
<1>2. CASE fe = "tty"
  BY <1>1, <1>2, SameMode DEF TtyLeaveMode
<1>3. CASE fe = "wayland"
  <2>1. mode # "None"
    BY <1>1, <1>3 DEF KeysInv, KeysPart, WhoWaits, OwnKeys, Patience
  <2>2. synced /\ mode \in AssuanMode
    BY <1>1, <1>3, TypeParts DEF ModesInv, FrontendInv, BeforeSync, UserEvent, ReplTypeOK
  <2>3. feMode = InterfaceFor(mode)
    BY <1>1, <1>3, <2>2 DEF ModesInv, ModesAgree, EffectiveMode
  <2> QED  BY <2>1, <2>2, <2>3 DEF InterfaceFor, AssuanMode
<1> QED  BY <1>1, <1>2, <1>3

(* The end of a prompt leaves no key behind for the next.                  *)
LEMMA EndKeys ==
  ASSUME KeysInv, EndPromptOnTerminal \/ EndPromptOnWayland
  PROVE  KeysPart'
<1>1. /\ fate = "running" /\ reason \in UserEvent /\ reason' = "None" /\ batch = <<>> /\ mode' = "None"
      /\ UNCHANGED <<fe, synced, batch>>
      /\ (fe = "tty" /\ TtyLeaveMode) \/ (fe = "wayland" /\ WaylandLeaveMode)
  BY DEF EndPromptOnTerminal, EndPromptOnWayland, EndPromptOf, At, HandleFrontendEvent
<1>2. FrontendTypes /\ FrontendInv /\ keys \in Seq(KeyPress)
  BY TypeParts DEF KeysInv, ModesInv, FrontendTypes
<1>3. keys' = <<>> \/ (keys' = Stale(keys) /\ fe = "wayland" /\ synced)
  BY <1>1, <1>2 DEF TtyLeaveMode, WaylandLeaveMode, FrontendInv, BeforeSync, UserEvent
<1>4. SyncOnce'
  BY <1>1, <1>2, <1>3, NoKeys, StaleUserKeys DEF KeysInv, KeysPart, SyncOnce, FrontendInv, BeforeSync, UserEvent, UserKey, EditKey, DecisionKey
<1>5. TerminalStops' /\ WhoWaits'
  BY <1>1 DEF KeysInv, KeysPart, TerminalStops, WhoWaits
<1>6. ASSUME PatientUser  PROVE  Patience'
  <2>1. NoUserKey(keys)
    BY <1>1, <1>6 DEF KeysInv, KeysPart, OwnKeys, Patience
  <2>2. NoUserKey(keys') /\ keys' \in Seq(KeyPress)
    <3>1. <<>> \in Seq(KeyPress) /\ NoUserKey(<<>>)
      BY NoKeys
    <3>2. Stale(keys) \in Seq(KeyPress) /\ NoUserKey(Stale(keys))
      BY <1>2, <2>1, StaleKeys, StaleUserKeys
    <3> QED  BY <1>3, <3>1, <3>2, Zenon
  <2>3. DecidesLast(keys')
    BY <2>2, WeakerKeys
  <2> QED  BY <1>1, <2>2, <2>3, NoKeys DEF Patience, UserEvent
<1> QED  BY <1>1, <1>4, <1>5, <1>6 DEF KeysPart, OwnKeys

(* Every step keeps KeysInv.                                               *)
LEMMA StepKeys ==
  ASSUME NoTypeAhead, KeysInv, [Next]_vars
  PROVE  KeysInv'
<1>1. ModesInv'
  BY StepModes DEF KeysInv
<1> SUFFICES KeysPart'
  BY <1>1 DEF KeysInv
<1>2. CASE Client
  BY <1>2, KeysStay DEF Client, WriteCommand, WriteNewline, CloseStdin, replVars
<1>3. CASE Environment
  BY <1>3, PressKeys, CompositorKeys DEF Environment
<1>4. CASE Loop
  <2>1. CASE LoopHead \/ FrontendFails \/ IdleTerminalFails
    BY <2>1, KeysStay DEF LoopHead, FrontendFails, IdleTerminalFails, At
  <2>2. CASE Poll \/ NoEvent \/ ReadHungUpTerminal \/ NoDecision
    BY <2>2, KeysStay DEF Poll, NoEvent, ReadHungUpTerminal, NoDecision, replVars
  <2> QED  BY <1>4, <2>1, <2>2, StdinKeys, ReadKeys, KeyKeys, EndKeys DEF Loop
<1>5. CASE UNCHANGED vars
  BY <1>5, KeysStay DEF vars, replVars
<1> QED  BY <1>2, <1>3, <1>4, <1>5 DEF Next, Returned

(* KeysInv is an invariant.                                                *)
LEMMA KeysInvariance ==
  ASSUME NoTypeAhead
  PROVE  Spec => []KeysInv
<1>1. Init => KeysInv
  BY InitModes, InitKeys DEF KeysInv
<1>2. KeysInv /\ [Next]_vars => KeysInv'
  BY StepKeys
<1> QED  BY <1>1, <1>2, PTL DEF Spec

(* What a key that decides is, or what else gives a reason.                *)
LEMMA ReasonsAreOwn ==
  ASSUME KeysInv, [Next]_vars, mode # "None", reason' \notin {reason, "None"}
  PROVE  Head(batch).fresh
<1> DEFINE k == Head(batch).key
<1>1. DispatchKey \/ ClearFails \/ DispatchSync \/ DispatchClosed
  <2>1. ~Client /\ ~Environment /\ ~UNCHANGED vars
    BY DEF Client, WriteCommand, WriteNewline, CloseStdin, Environment, Press, AnswerSync, ShowPrompt,
      HidePrompt, CloseSurface, LoseLink, vars, feVars
  <2>2. ~LoopHead /\ ~Poll /\ ~NoEvent /\ ~ReadHungUpTerminal /\ ~FrontendFails /\ ~NoDecision
        /\ ~IdleTerminalFails /\ ~EndPromptOnTerminal /\ ~EndPromptOnWayland /\ ~ReadWayland
        /\ ~\E n \in 1..Len(keys) : ReadTerminal(n)
    BY DEF LoopHead, Poll, NoEvent, ReadHungUpTerminal, FrontendFails, NoDecision, IdleTerminalFails,
      EndPromptOnTerminal, EndPromptOnWayland, EndPromptOf, ReadWayland, ReadTerminal, feVars
  <2>3. ~StdinStep
    BY DEF StdinStep, DispatchLine, NoFrontend, OpenPrompt, feVars
  <2> QED  BY <2>1, <2>2, <2>3 DEF Next, Loop, Returned
<1>2. fate = "running" /\ batch # <<>>
  BY <1>1 DEF DispatchKey, ClearFails, DispatchSync, DispatchClosed, At
<1>3. batch \in Seq(KeyPress) /\ FrontendInv /\ fe \in {"none", "tty", "wayland"} /\ pc \in {"dispatch"}
  BY <1>1, TypeParts DEF KeysInv, ModesInv, FrontendTypes, DispatchKey, ClearFails, DispatchSync, DispatchClosed, At
<1>4. Owned(batch)
  BY <1>2 DEF KeysInv, KeysPart, OwnKeys
<1>5. CASE k \in UserKey
  BY <1>2, <1>3, <1>4, <1>5, KeyTaken
<1>6. CASE k = "Closed"
  <2>1. DispatchClosed
    BY <1>1, <1>6, KeysApart DEF DispatchKey, ClearFails, DispatchSync, UserKey, CompositorEvent
  <2> QED  BY <2>1 DEF DispatchClosed
<1>7. CASE k = "Sync"
  <2>1. ~synced /\ fe = "wayland"
    <3>1. "Sync" \notin UserKey \cup {"Closed"}
      BY KeysApart DEF CompositorEvent
    <3> QED
      BY <1>2, <1>3, <1>7, <3>1, OnlyOneLess DEF KeysInv, KeysPart, SyncOnce, FrontendInv, OnTerminal
  <2>2. Fresh(batch)
    BY <2>1 DEF KeysInv, KeysPart, SyncOnce
  <2> QED  BY <1>2, <1>3, <2>2, KeyTaken
<1>8. k \in UserKey \cup {"Closed", "Sync"}
  BY <1>1 DEF DispatchKey, ClearFails, DispatchSync, DispatchClosed, UserKey, EditKey
<1> QED  BY <1>5, <1>6, <1>7, <1>8

(* The key that ends a prompt was pressed at that prompt, for a user who   *)
(* presses nothing behind a decision, and for any user on a terminal.      *)
THEOREM KeysAnswerTheirPrompt ==
  ASSUME NoTypeAhead
  PROVE  Spec => AnswersOwnPrompt
<1>1. KeysInv /\ [Next]_vars => [mode # "None" /\ reason' \notin {reason, "None"} => Head(batch).fresh]_vars
  BY ReasonsAreOwn
<1> QED  BY <1>1, KeysInvariance, PTL DEF Spec, AnswersOwnPrompt

(* What the terminal read behind a decision changes neither the decision   *)
(* nor the secret: parse_input's loop ends at it (frontend/tty.rs).        *)
THEOREM TheDecisionStands ==
  ASSUME LiveDisplays = {}
  PROVE  Spec => DecisionIsFinal
<1>1. ASSUME KeysInv, [Next]_vars, reason # "None", pc' = "dispatch"  PROVE  UNCHANGED <<reason, secret>>
  <2>1. fe = "tty" /\ pc = "dispatch"
    BY <1>1, TypeParts DEF KeysInv, KeysPart, WhoWaits, ModesInv, FrontendInv, FrontendTypes
  <2>2. batch = <<>>
    BY <1>1, <2>1 DEF KeysInv, KeysPart, TerminalStops
  <2>3. CASE Client \/ Environment \/ UNCHANGED vars
    BY <2>3 DEF Client, WriteCommand, WriteNewline, CloseStdin, Environment, Press, AnswerSync, ShowPrompt,
      HidePrompt, CloseSurface, LoseLink, vars, feVars
  <2>4. CASE Loop
    <3>1. FrontendFails \/ IdleTerminalFails
      <4>1. ~LoopHead /\ ~Poll /\ ~NoEvent /\ ~ReadHungUpTerminal /\ ~ReadWayland /\ ~StdinStep
            /\ ~\E n \in 1..Len(keys) : ReadTerminal(n)
        BY <2>1 DEF LoopHead, Poll, NoEvent, ReadHungUpTerminal, ReadWayland, StdinStep, ReadTerminal, At
      <4>2. ~DispatchKey /\ ~ClearFails /\ ~DispatchSync /\ ~DispatchClosed
        BY <2>2 DEF DispatchKey, ClearFails, DispatchSync, DispatchClosed
      <4>3. ~NoDecision /\ ~EndPromptOnTerminal /\ ~EndPromptOnWayland
        BY <1>1 DEF NoDecision, EndPromptOnTerminal, EndPromptOnWayland, EndPromptOf
      <4> QED  BY <2>4, <4>1, <4>2, <4>3 DEF Loop
    <3> QED  BY <3>1 DEF FrontendFails, IdleTerminalFails, feVars
  <2> QED  BY <1>1, <2>3, <2>4 DEF Next, Returned
<1>2. KeysInv /\ [Next]_vars => [reason # "None" /\ pc' = "dispatch" => UNCHANGED <<reason, secret>>]_vars
  BY <1>1
<1>3. NoTypeAhead
  BY DEF NoTypeAhead
<1>4. Spec => []KeysInv
  BY <1>3, KeysInvariance
<1> QED  BY <1>2, <1>4, PTL DEF Spec, DecisionIsFinal

(* A frontend is told to leave a mode only when it is in one, for a user   *)
(* who presses nothing behind a decision, and for any user on a terminal.  *)
THEOREM NoModeIsLeftTwice ==
  ASSUME NoTypeAhead
  PROVE  Spec => LeavesOnlyAPrompt
<1>1. ASSUME KeysInv, [Next]_vars, reason # "None", reason' = "None"  PROVE  feMode # "None"
  <2>1. ~Client /\ ~Environment /\ ~UNCHANGED vars
    BY <1>1 DEF Client, WriteCommand, WriteNewline, CloseStdin, Environment, Press, AnswerSync, ShowPrompt,
      HidePrompt, CloseSurface, LoseLink, vars, feVars
  <2>2. ~LoopHead /\ ~Poll /\ ~NoEvent /\ ~ReadHungUpTerminal /\ ~FrontendFails /\ ~NoDecision
        /\ ~IdleTerminalFails /\ ~ReadWayland /\ ~\E n \in 1..Len(keys) : ReadTerminal(n)
    BY <1>1 DEF LoopHead, Poll, NoEvent, ReadHungUpTerminal, FrontendFails, NoDecision, IdleTerminalFails,
      ReadWayland, ReadTerminal, feVars
  <2>3. ~StdinStep
    BY <1>1 DEF StdinStep, DispatchLine, NoFrontend, OpenPrompt, feVars
  <2>4. ~ClearFails /\ ~DispatchSync /\ ~DispatchClosed
    BY <1>1 DEF ClearFails, DispatchSync, DispatchClosed
  <2>5. ~DispatchKey
    BY <1>1 DEF DispatchKey, EditSecret, TtyDecision, WaylandDecision, EventOf, DecisionKey
  <2>6. EndPromptOnTerminal \/ EndPromptOnWayland
    BY <1>1, <2>1, <2>2, <2>3, <2>4, <2>5 DEF Next, Loop, Returned
  <2> QED  BY <1>1, <2>6, EndsAPrompt
<1>2. KeysInv /\ [Next]_vars => [reason # "None" /\ reason' = "None" => feMode # "None"]_vars
  BY <1>1
<1> QED  BY <1>2, KeysInvariance, PTL DEF Spec, LeavesOnlyAPrompt

-----------------------------------------------------------------------------
(* The REPL inside the loop.                                               *)

ByeTaken == Len(log) > 0 /\ log[Len(log)].cmd.op = "BYE"

ByeInv ==
  /\ isRunning <=> ~ByeTaken
  /\ ~isRunning => pc \notin {"poll", "stdin"}

ServeInv == KeysInv /\ LabelInv /\ ByeInv

(* Steps in which the REPL does nothing, though the process may end.       *)
LEMMA ReplUntouched ==
  ASSUME ServeInv, UNCHANGED <<mode, labels, defaults, settings, isRunning, log>>,
         fate' \in {"running", "ok", "failed"}, pc' \in {"poll", "stdin"} => isRunning
  PROVE  LabelInv' /\ ByeInv'
<1>1. ReplTypeOK'
  BY ReplFate DEF ServeInv, LabelInv, ReplInv
<1>2. LabelInv'
  BY <1>1, UnchangedLabels
  DEF ServeInv, LabelInv, ReplInv, OneReplyPerCommand, RepliesFit, ReplyFits, Pending
<1>3. ByeInv'
  BY DEF ServeInv, ByeInv, ByeTaken
<1> QED  BY <1>2, <1>3

(* The REPL starts with its promises kept.                                 *)
LEMMA ReplStarts == Init => LabelInv /\ ByeInv
BY InitLabels DEF Init, ReplInit, ByeInv, ByeTaken

(* A line is the last command of the log, if it is answered.               *)
LEMMA LastCommand ==
  ASSUME log \in Seq(LogEntry), NEW c \in Command, NEW reply \in ReplyKind, Logged(c, reply)
  PROVE  /\ log' = Append(log, Entry(c, reply)) /\ Len(log') = Len(log) + 1 /\ Len(log) \in Nat
         /\ log'[Len(log')] = Entry(c, reply) /\ Entry(c, reply).cmd = c /\ Entry(c, reply).reply = reply
<1>1. Entry(c, reply) \in LogEntry
  BY EntryType
<1> QED  BY <1>1 DEF Logged, Entry

(* The line whose newline is read keeps the REPL's promises.               *)
LEMMA ReplTakesLine ==
  ASSUME ServeInv, StdinStep
  PROVE  LabelInv' /\ ByeInv'
<1>1. StdinMoves /\ ModesInv /\ isRunning /\ ~ByeTaken /\ log \in Seq(LogEntry)
  BY StdinCases DEF ServeInv, KeysInv, ByeInv, StdinMoves, LabelInv, ReplInv, ReplTypeOK
<1>2. CASE UNCHANGED <<replVars, feVars>>
  BY <1>1, <1>2, ReplUntouched DEF replVars, StdinMoves
<1>3. ASSUME rd' = rd + 1, rd' % 2 = 0, DispatchLine(sent[rd' \div 2])  PROVE  LabelInv' /\ ByeInv'
  <2> DEFINE c == sent[rd' \div 2]
  <2>1. c \in Command
    BY <1>1, <1>3, LineRead
  <2> HIDE DEF c
  <2>2. NoFrontend(c) \/ OpenPrompt(c) \/ ((SetupCommand(c) \/ DropLine(c)) /\ UNCHANGED feVars)
    BY <1>3 DEF DispatchLine, c
  <2>3. CASE NoFrontend(c)
    BY <1>1, <2>3, ReplUntouched DEF NoFrontend, StdinMoves
  <2>4. CASE DropLine(c)
    BY <1>1, <2>4, ReplUntouched DEF DropLine, replVars, StdinMoves
  <2>5. ASSUME NEW reply \in ReplyKind, Logged(c, reply), UNCHANGED isRunning, c.op # "BYE"  PROVE  ByeInv'
    BY <1>1, <2>1, <2>5, LastCommand DEF ByeInv, ByeTaken, StdinMoves
  <2>6. ASSUME log' = log, UNCHANGED isRunning  PROVE  ByeInv'
    BY <1>1, <2>6 DEF ByeInv, ByeTaken, StdinMoves
  <2>7. CASE SetupCommand(c)
    <3>1. LabelInv'
      BY <2>1, <2>7, SetupLabels DEF ServeInv
    <3>2. "OK" \in ReplyKind /\ "NOT_IMPLEMENTED" \in ReplyKind /\ "UNKNOWN" \in ReplyKind
      BY DEF ReplyKind, PromptReply
    <3>3. ASSUME Bye(c)  PROVE  ByeInv'
      <4>1. ByeTaken' /\ ~isRunning'
        BY <1>1, <2>1, <3>2, <3>3, LastCommand DEF Bye, ByeTaken
      <4> QED  BY <1>1, <4>1 DEF ByeInv, StdinMoves
    <3>4. ASSUME Stateless(c)  PROVE  ByeInv'
      <4>1. StatelessReply(c.op) \in ReplyKind
        BY <3>2, <3>4 DEF Stateless, StatelessReply
      <4> QED  BY <2>5, <3>4, <4>1 DEF Stateless
    <3>5. ASSUME SetLabel(c) \/ SetOption(c) \/ Reset(c) \/ EmptyMessage(c)  PROVE  ByeInv'
      BY <2>5, <3>2, <3>5 DEF SetLabel, SetOption, Reset, EmptyMessage
    <3>6. ASSUME BadArgument(c) \/ Blank(c)  PROVE  ByeInv'
      BY <2>6, <3>6 DEF BadArgument, DecodeFails, Blank, replVars
    <3> QED  BY <2>7, <3>1, <3>3, <3>4, <3>5, <3>6 DEF SetupCommand
  <2>8. CASE OpenPrompt(c)
    <3> DEFINE m == IF c.op = "GETPIN" THEN "GetPin" ELSE "Message"
    <3>1. StartPrompt(c) /\ EnterMode(FrontendFor, m) /\ FrontendFor # "none" /\ mode = "None"
      BY <2>8 DEF OpenPrompt, StartPrompt, RequiresFrontend
    <3>2. m \in {"GetPin", "Message"}
      OBVIOUS
    <3> HIDE DEF m
    <3>3. fate' \in {"running", "failed"}
      BY <1>1, <3>1, <3>2, EnterEffect
    <3>4. LabelInv'
      BY <2>1, <3>1, <3>3, StartLabels DEF ServeInv
    <3>5. Logged(c, "PENDING") /\ UNCHANGED isRunning /\ c.op # "BYE" /\ "PENDING" \in ReplyKind
      BY <3>1 DEF StartPrompt, RequiresFrontend, ReplyKind
    <3> QED  BY <2>5, <3>4, <3>5
  <2> QED  BY <2>2, <2>3, <2>4, <2>7, <2>8
<1> QED  BY <1>1, <1>2, <1>3, StdinCases

(* So does the event that ends a prompt; there is a prompt to end.         *)
LEMMA ReplTakesEvent ==
  ASSUME ServeInv, EndPromptOnTerminal \/ EndPromptOnWayland
  PROVE  /\ LabelInv' /\ ByeInv' /\ mode # "None"
         /\ HandleFrontendEvent(reason, secret) /\ reason \in UserEvent /\ secret \in Secret
         /\ fate = "running" /\ fate' \in {"running", "failed"} /\ UNCHANGED stdinVars
<1>1. /\ HandleFrontendEvent(reason, secret) /\ reason \in UserEvent /\ fate = "running"
      /\ fate' \in {"running", "failed"} /\ UNCHANGED stdinVars /\ pc' = "head"
  BY DEF EndPromptOnTerminal, EndPromptOnWayland, EndPromptOf, At
<1>2. mode # "None" /\ secret \in Secret
  BY EndsAPrompt, TypeParts DEF ServeInv, KeysInv, ModesInv, FrontendTypes
<1>3. LabelInv'
  BY <1>1, <1>2, AnswerLabels DEF ServeInv
<1>4. ByeInv'
  <2>1. Len(log') = Len(log) /\ log'[Len(log)].cmd = log[Len(log)].cmd /\ isRunning' = isRunning
    BY <1>1, <1>2, AnswerEffect DEF ServeInv, LabelInv, HandleFrontendEvent
  <2> QED  BY <1>1, <2>1 DEF ServeInv, ByeInv, ByeTaken
<1> QED  BY <1>1, <1>2, <1>3, <1>4

(* Every step keeps ServeInv.                                              *)
LEMMA StepServes ==
  ASSUME NoTypeAhead, ServeInv, [Next]_vars
  PROVE  ServeInv'
<1>1. KeysInv'
  BY StepKeys DEF ServeInv
<1>2. fate \in {"running", "ok", "failed"} /\ (pc \in {"poll", "stdin"} => isRunning)
  BY DEF ServeInv, LabelInv, ReplInv, ReplTypeOK, ByeInv
<1> SUFFICES LabelInv' /\ ByeInv'
  BY <1>1 DEF ServeInv
<1>3. CASE Client
  BY <1>2, <1>3, ReplUntouched DEF Client, WriteCommand, WriteNewline, CloseStdin, replVars
<1>4. CASE Environment
  BY <1>2, <1>4, ReplUntouched DEF Environment, Press, AnswerSync, ShowPrompt, HidePrompt, CloseSurface,
    LoseLink, replVars
<1>5. CASE Loop
  <2>1. CASE LoopHead
    BY <1>2, <2>1, ReplUntouched DEF LoopHead, At
  <2>2. CASE FrontendFails \/ IdleTerminalFails
    BY <1>2, <2>2, ReplUntouched DEF FrontendFails, IdleTerminalFails, At
  <2>3. CASE Poll \/ NoEvent \/ ReadHungUpTerminal \/ NoDecision
    BY <1>2, <2>3, ReplUntouched DEF Poll, NoEvent, ReadHungUpTerminal, NoDecision, replVars, At
  <2>4. CASE (\E n \in 1..Len(keys) : ReadTerminal(n)) \/ ReadWayland
    BY <1>2, <2>4, ReplUntouched DEF ReadTerminal, ReadWayland, replVars
  <2>5. CASE DispatchKey \/ ClearFails \/ DispatchSync \/ DispatchClosed
    BY <1>2, <2>5, ReplUntouched DEF DispatchKey, ClearFails, DispatchSync, DispatchClosed, replVars
  <2> QED  BY <1>5, <2>1, <2>2, <2>3, <2>4, <2>5, ReplTakesLine, ReplTakesEvent DEF Loop
<1>6. CASE UNCHANGED vars
  BY <1>2, <1>6, ReplUntouched DEF vars, replVars
<1> QED  BY <1>3, <1>4, <1>5, <1>6 DEF Next, Returned

(* ServeInv is an invariant.                                               *)
LEMMA ServeInvariance ==
  ASSUME NoTypeAhead
  PROVE  Spec => []ServeInv
<1>1. Init => ServeInv
  BY InitModes, InitKeys, ReplStarts DEF ServeInv, KeysInv
<1>2. ServeInv /\ [Next]_vars => ServeInv'
  BY StepServes
<1> QED  BY <1>1, <1>2, PTL DEF Spec

-----------------------------------------------------------------------------
(* The service.                                                            *)

Lines == SubSeq(sent, 1, avail \div 2)
Taken == rd \div 2

(* Half a line read completes none.                                        *)
LEMMA Halves ==
  ASSUME NEW n \in Nat, (n + 1) % 2 # 0
  PROVE  (n + 1) \div 2 = n \div 2
OBVIOUS

(* A beginning of a sequence and the element after it.                     *)
LEMMA OneLineMore ==
  ASSUME NEW s \in Seq(Vocabulary), NEW n \in 1..Len(s)
  PROVE  SubSeq(s, 1, n) = Append(SubSeq(s, 1, n - 1), s[n]) /\ s[n] \in Vocabulary
<1> DEFINE whole == SubSeq(s, 1, n)
           front == SubSeq(s, 1, n - 1)
           grown == Append(front, s[n])
<1>1. n \in Nat /\ n >= 1 /\ n <= Len(s) /\ n - 1 \in Nat /\ s[n] \in Vocabulary
  OBVIOUS
<1>2. whole \in Seq(Vocabulary) /\ Len(whole) = n /\ \A i \in 1..n : whole[i] = s[i]
  BY <1>1
<1>3. front \in Seq(Vocabulary) /\ Len(front) = n - 1 /\ \A i \in 1..n - 1 : front[i] = s[i]
  BY <1>1
<1> HIDE DEF front, whole
<1>4. grown \in Seq(Vocabulary) /\ Len(grown) = n /\ grown[n] = s[n]
      /\ \A i \in 1..n - 1 : grown[i] = front[i]
  BY <1>1, <1>3
<1> HIDE DEF grown
<1>5. \A i \in 1..n : i = n \/ i \in 1..n - 1
  BY <1>1
<1>6. \A i \in 1..n : whole[i] = grown[i]
  BY <1>2, <1>3, <1>4, <1>5
<1>7. whole = grown
  BY <1>2, <1>4, <1>6, SeqEqual
<1> QED  BY <1>1, <1>7 DEF grown, whole, front

(* The complete lines are what was sent, as far as it was written.         *)
LEMMA LinesAre ==
  ASSUME StdinTypes
  PROVE  /\ avail \div 2 \in Nat /\ avail \div 2 <= Len(sent) /\ rd \div 2 \in Nat /\ rd \div 2 <= avail \div 2
         /\ Lines \in Seq(Vocabulary) /\ Len(Lines) = avail \div 2
         /\ \A i \in 1..avail \div 2 : Lines[i] = sent[i]
<1>1. avail \in Nat /\ rd \in Nat /\ rd <= avail /\ Len(sent) \in Nat /\ avail <= 2 * Len(sent)
      /\ sent \in Seq(Vocabulary)
  BY DEF StdinTypes
<1>2. avail \div 2 \in Nat /\ avail \div 2 <= Len(sent) /\ rd \div 2 \in Nat /\ rd \div 2 <= avail \div 2
  BY <1>1
<1> DEFINE n == avail \div 2
<1>3. n \in Nat /\ n <= Len(sent)
  BY <1>2
<1> HIDE DEF n
<1>4. SubSeq(sent, 1, n) \in Seq(Vocabulary) /\ Len(SubSeq(sent, 1, n)) = n
      /\ \A i \in 1..n : SubSeq(sent, 1, n)[i] = sent[i]
  BY <1>1, <1>3
<1> QED  BY <1>2, <1>4 DEF Lines, n

(* What the client writes is a command, then its newline.                  *)
LEMMA ClientServes ==
  ASSUME ServeInv, Client
  PROVE  \/ UNCHANGED <<Lines, writing, Taken, log, fate>>
         \/ \E c \in Vocabulary : Service!Write(c)
         \/ Service!Close
<1>1. StdinTypes /\ LinesInv /\ fate = "running" /\ UNCHANGED <<replVars, rd, Taken>>
  BY TypeParts DEF ServeInv, KeysInv, ModesInv, Client, WriteCommand, WriteNewline, CloseStdin, At, Taken
<1>2. sent \in Seq(Vocabulary) /\ Len(sent) \in Nat /\ avail \in Nat
  BY <1>1 DEF StdinTypes
<1>3. ASSUME NEW c \in Vocabulary, WriteCommand(c)  PROVE  Lines' = Lines /\ writing' = writing
  <2>1. avail = 2 * Len(sent) /\ avail' = avail + 1 /\ sent' = Append(sent, c) /\ writing' = writing
    BY <1>3 DEF WriteCommand
  <2>2. avail \div 2 = Len(sent) /\ avail' \div 2 = Len(sent)
    BY <1>2, <2>1
  <2>3. SubSeq(Append(sent, c), 1, Len(sent)) = sent /\ SubSeq(sent, 1, Len(sent)) = sent
    BY <1>2
  <2> QED  BY <2>1, <2>2, <2>3 DEF Lines
<1>4. ASSUME WriteNewline  PROVE  \E c \in Vocabulary : Service!Write(c)
  <2> DEFINE n == Len(sent)
  <2>1. avail < 2 * n /\ avail' = avail + 1 /\ sent' = sent /\ writing /\ writing' = writing
    BY <1>4 DEF WriteNewline
  <2>2. avail = 2 * n - 1 /\ n >= 1
    BY <1>1, <1>2, <2>1 DEF LinesInv
  <2>3. avail \div 2 = n - 1 /\ avail' \div 2 = n
    BY <1>2, <2>1, <2>2
  <2>4. SubSeq(sent, 1, n) = Append(SubSeq(sent, 1, n - 1), sent[n]) /\ sent[n] \in Vocabulary
    <3>1. n \in Nat /\ n \in 1..Len(sent)
      BY <1>2, <2>2
    <3> HIDE DEF n
    <3> QED  BY <1>2, <3>1, OneLineMore
  <2>5. Lines' = Append(Lines, sent[n])
    BY <2>1, <2>3, <2>4 DEF Lines
  <2>6. Service!Write(sent[n])
    BY <1>1, <2>1, <2>5 DEF Service!Write, Lines, Taken, replVars
  <2> QED  BY <2>4, <2>6
<1>5. ASSUME CloseStdin  PROVE  Service!Close
  BY <1>1, <1>5 DEF CloseStdin, Service!Close, replVars, Taken
<1> QED
  BY <1>1, <1>3, <1>4, <1>5 DEF Client, replVars

(* The byte that completes a line takes it.                                *)
LEMMA LineServes ==
  ASSUME ServeInv, StdinStep
  PROVE  \/ UNCHANGED <<Lines, writing, Taken, log, fate>>
         \/ Service!Accept \/ Service!Drop
<1>1. StdinMoves /\ ModesInv /\ isRunning /\ ~ByeTaken /\ log \in Seq(LogEntry) /\ StdinTypes /\ ReplInv
  BY StdinCases, TypeParts
  DEF ServeInv, KeysInv, ByeInv, StdinMoves, LabelInv, ReplInv, ReplTypeOK, ModesInv
<1>2. fate = "running" /\ UNCHANGED <<Lines, writing>> /\ rd \in Nat
  BY <1>1 DEF StdinMoves, Lines, StdinTypes
<1>3. CASE UNCHANGED <<replVars, feVars>> /\ (rd' # rd => rd' % 2 # 0)
  <2>1. rd' \div 2 = rd \div 2
    BY <1>1, <1>2, <1>3, Halves DEF StdinMoves
  <2> QED  BY <1>2, <1>3, <2>1 DEF Taken, replVars
<1>4. ASSUME rd' = rd + 1, rd' % 2 = 0, DispatchLine(sent[rd' \div 2])
      PROVE  Service!Accept \/ Service!Drop
  <2> DEFINE c == sent[rd' \div 2]
  <2>1. c \in Command /\ Taken' = Taken + 1
    BY <1>1, <1>4, LineRead DEF Taken
  <2>2. Taken \in Nat /\ Taken < Len(Lines) /\ Lines[Taken + 1] = c
    <3>1. rd' \div 2 = Taken + 1 /\ rd' \div 2 <= avail \div 2
      BY <1>1, <1>2, <1>4, LineRead DEF Taken, StdinMoves, StdinTypes
    <3>2. Taken \in Nat /\ avail \div 2 \in Nat /\ Len(Lines) = avail \div 2
          /\ \A i \in 1..avail \div 2 : Lines[i] = sent[i]
      BY <1>1, LinesAre DEF Taken
    <3>3. Taken + 1 \in 1..avail \div 2
      BY <3>1, <3>2
    <3> QED  BY <3>1, <3>2, <3>3
  <2>3. ~Service!ByeTaken
    BY <1>1 DEF Service!ByeTaken, ByeTaken
  <2>4. (mode # "None" <=> Service!Waiting) /\ mode \in AssuanMode
    <3>1. mode # "None" => Service!Waiting
      BY <1>1 DEF Service!Waiting, ReplInv, OneReplyPerCommand, Pending
    <3>2. ASSUME mode = "None"  PROVE  ~Service!Waiting
      <4>1. Len(log) > 0 => Len(log) \in 1..Len(log)
        BY <1>1
      <4> QED  BY <1>1, <3>2, <4>1, NothingWaits DEF Service!Waiting, Pending
    <3> QED  BY <1>1, <3>1, <3>2 DEF ReplInv, ReplTypeOK
  <2>5. ASSUME NEW reply \in Service!FirstReply(c.op), Logged(c, reply), mode = "None",
               fate' \in {"running", "failed"}, c.op # "BLANK"
        PROVE  Service!Accept
    <3>1. log' = Append(log, [cmd |-> c, reply |-> reply, pin |-> <<>>])
      BY <2>5 DEF Logged, Entry
    <3> QED  BY <1>2, <2>1, <2>2, <2>3, <2>4, <2>5, <3>1 DEF Service!Accept, Lines, Taken
  <2>6. ASSUME log' = log,
               \/ mode = "None" /\ fate' = "failed"
               \/ fate' = "running" /\ (mode # "None" \/ c.op = "BLANK")
        PROVE  Service!Drop
    BY <1>2, <2>1, <2>2, <2>3, <2>4, <2>6 DEF Service!Drop, Lines, Taken
  <2> HIDE DEF c
  <2>7. NoFrontend(c) \/ OpenPrompt(c) \/ ((SetupCommand(c) \/ DropLine(c)) /\ UNCHANGED feVars)
    BY <1>4 DEF DispatchLine, c
  <2>8. CASE NoFrontend(c)
    BY <2>6, <2>8 DEF NoFrontend, RequiresFrontend
  <2>9. CASE DropLine(c)
    BY <1>2, <2>6, <2>9 DEF DropLine, replVars
  <2>10. CASE OpenPrompt(c)
    <3> DEFINE m == IF c.op = "GETPIN" THEN "GetPin" ELSE "Message"
    <3>1. StartPrompt(c) /\ EnterMode(FrontendFor, m) /\ FrontendFor # "none" /\ mode = "None"
          /\ Logged(c, "PENDING") /\ c.op \in {"GETPIN", "CONFIRM", "MESSAGE"}
      BY <2>10 DEF OpenPrompt, StartPrompt, RequiresFrontend
    <3>2. m \in {"GetPin", "Message"}
      OBVIOUS
    <3> HIDE DEF m
    <3>3. fate' \in {"running", "failed"}
      BY <1>1, <3>1, <3>2, EnterEffect
    <3>4. "PENDING" \in Service!FirstReply(c.op)
      BY <3>1 DEF Service!FirstReply
    <3> QED  BY <2>5, <3>1, <3>3, <3>4
  <2>11. CASE SetupCommand(c)
    <3>1. mode = "None"
      BY <2>11 DEF SetupCommand
    <3>2. CASE SetLabel(c) \/ SetOption(c) \/ Reset(c) \/ Bye(c) \/ EmptyMessage(c)
      <4>1. Logged(c, "OK") /\ fate' = fate /\ c.op \in {"SET", "OPTION", "RESET", "BYE", "MESSAGE"}
        BY <3>2 DEF SetLabel, SetOption, Reset, Bye, EmptyMessage
      <4>2. "OK" \in Service!FirstReply(c.op)
        BY <4>1 DEF Service!FirstReply
      <4> QED  BY <1>2, <2>5, <3>1, <4>1, <4>2
    <3>3. CASE Stateless(c)
      <4>1. Logged(c, StatelessReply(c.op)) /\ fate' = fate /\ c.op \in {"QUERY", "NOT_IMPLEMENTED", "UNKNOWN"}
        BY <3>3 DEF Stateless
      <4>2. StatelessReply(c.op) \in Service!FirstReply(c.op)
        BY <4>1 DEF Service!FirstReply, StatelessReply
      <4> QED  BY <1>2, <2>5, <3>1, <4>1, <4>2
    <3>4. CASE BadArgument(c)
      BY <2>6, <3>1, <3>4 DEF BadArgument, DecodeFails
    <3>5. CASE Blank(c)
      BY <1>2, <2>6, <3>1, <3>5 DEF Blank, replVars
    <3> QED  BY <2>11, <3>2, <3>3, <3>4, <3>5 DEF SetupCommand
  <2> QED  BY <2>7, <2>8, <2>9, <2>10, <2>11
<1> QED  BY <1>1, <1>3, <1>4, StdinCases

(* The user's answer is the reply to the command that waits.               *)
LEMMA AnswerServes ==
  ASSUME ServeInv, EndPromptOnTerminal \/ EndPromptOnWayland
  PROVE  Service!Answer
<1> DEFINE n == Len(log)
           pin == IF AnswersWithPin(reason, secret) THEN secret ELSE <<>>
           answer == [cmd |-> log[n].cmd, reply |-> ReplyTo(reason, secret), pin |-> pin]
<1>1. /\ mode # "None" /\ HandleFrontendEvent(reason, secret) /\ reason \in UserEvent
      /\ secret \in Secret /\ fate = "running" /\ fate' \in {"running", "failed"} /\ UNCHANGED stdinVars
  BY ReplTakesEvent
<1>2. ReplInv /\ log \in Seq(LogEntry)
  BY DEF ServeInv, LabelInv, ReplInv, ReplTypeOK
<1>3. /\ n \in 1..n /\ Len(log') = n /\ log[n].cmd.op \in PromptOp /\ mode = ModeOf(log[n].cmd.op)
  BY <1>1, <1>2, AnswerEffect
<1>4. n > 0 /\ log[n].reply = "PENDING"
  BY <1>1, <1>2, <1>3 DEF ReplInv, OneReplyPerCommand, Pending
<1>5. log' = [log EXCEPT ![n] = answer]
  BY <1>1 DEF HandleFrontendEvent, Answered
<1>6. log'[n] = answer
  BY <1>2, <1>3, <1>5
<1>7. answer.cmd = log[n].cmd /\ answer.reply = ReplyTo(reason, secret) /\ answer.pin = pin
  OBVIOUS
<1> HIDE DEF answer
<1>8. answer.reply \in {"OK", "PIN", "CANCELLED", "NOT_CONFIRMED"}
      /\ (answer.reply = "PIN" <=> AnswersWithPin(reason, secret))
  BY <1>7 DEF ReplyTo, AnswersWithPin
<1>9. answer.pin # <<>> <=> AnswersWithPin(reason, secret)
  BY <1>7 DEF AnswersWithPin
<1>10. answer.pin \in Secret
  <2>1. <<>> \in Secret
    BY DEF Secret
  <2> QED  BY <1>1, <1>7, <2>1
<1>11. answer.reply = "PIN" => answer.cmd.op = "GETPIN"
  BY <1>3, <1>7, <1>8 DEF AnswersWithPin, ModeOf, PromptOp
<1>12. UNCHANGED <<Lines, writing, Taken>>
  BY <1>1 DEF stdinVars, Lines, Taken
<1> HIDE DEF pin
<1> QED
  BY <1>1, <1>3, <1>4, <1>5, <1>6, <1>7, <1>8, <1>9, <1>10, <1>11, <1>12
  DEF Service!Answer, Service!Waiting, Lines, Taken

(* Nothing of the service happens in a step of the loop that reads neither *)
(* a line nor a decision.                                                  *)
LEMMA QuietServes ==
  ASSUME UNCHANGED <<stdinVars, log, fate>>
  PROVE  UNCHANGED <<Lines, writing, Taken, log, fate>>
BY DEF stdinVars, Lines, Taken

(* The process may fail at any time.                                       *)
LEMMA FailureServes ==
  ASSUME UNCHANGED <<stdinVars, log>>, fate = "running", fate' = "failed"
  PROVE  Service!Fail
BY DEF Service!Fail, stdinVars, Lines, Taken

(* A head that returns normally does so with nobody waiting.               *)
LEMMA HeadServes ==
  ASSUME ServeInv, LoopHead
  PROVE  UNCHANGED <<Lines, writing, Taken, log, fate>> \/ Service!Fail \/ Service!Return
<1>1. fate = "running" /\ UNCHANGED <<log, stdinVars>>
  BY DEF LoopHead, At
<1>2. UNCHANGED <<Lines, writing, Taken>>
  BY <1>1 DEF stdinVars, Lines, Taken
<1>3. ReplInv /\ (isRunning <=> ~ByeTaken) /\ ModesInv /\ log \in Seq(LogEntry)
  BY DEF ServeInv, KeysInv, LabelInv, ByeInv, ReplInv, ReplTypeOK
<1>4. Len(log) > 0 => Len(log) \in 1..Len(log)
  BY <1>3
<1>5. ASSUME ~isRunning, fate' = "ok"  PROVE  Service!Return
  <2>1. Len(log) > 0 /\ log[Len(log)].cmd.op = "BYE"
    BY <1>3, <1>5 DEF ByeTaken
  <2>2. log[Len(log)].reply # "PENDING"
    BY <1>3, <1>4, <2>1 DEF ReplInv, RepliesFit, ReplyFits, PromptOp
  <2> QED  BY <1>1, <1>2, <1>5, <2>1, <2>2 DEF Service!Return, Service!Waiting, Service!ByeTaken, Lines, Taken
<1>6. ASSUME NothingLeft, fate' = "ok"  PROVE  Service!Return
  <2>1. ~writing
    BY <1>3, <1>6 DEF NothingLeft, ModesInv, LinesInv
  <2>2. mode = "None"
    BY <1>1, <1>3, <1>6 DEF NothingLeft, ModesInv, FrontendInv, Unselected
  <2>3. ~Service!Waiting
    BY <1>3, <1>4, <2>2, NothingWaits DEF Service!Waiting, Pending
  <2> QED  BY <1>1, <1>2, <1>6, <2>1, <2>3 DEF Service!Return, Lines, Taken
<1> QED  BY <1>1, <1>5, <1>6, FailureServes, QuietServes DEF LoopHead

(* Every step of the loop is a step of the service, or none.               *)
LEMMA StepIsServed ==
  ASSUME ServeInv, [Next]_vars
  PROVE  Service!Next \/ UNCHANGED <<Lines, writing, Taken, log, fate>>
<1>1. CASE Client
  BY <1>1, ClientServes DEF Service!Next
<1>2. CASE Environment
  BY <1>2, QuietServes DEF Environment, Press, AnswerSync, ShowPrompt, HidePrompt, CloseSurface, LoseLink, replVars
<1>3. CASE Loop
  <2>1. CASE LoopHead
    BY <2>1, HeadServes DEF Service!Next
  <2>2. CASE FrontendFails \/ IdleTerminalFails
    BY <2>2, FailureServes DEF FrontendFails, IdleTerminalFails, At, Service!Next
  <2>3. CASE Poll \/ NoEvent \/ ReadHungUpTerminal \/ NoDecision
    BY <2>3, QuietServes DEF Poll, NoEvent, ReadHungUpTerminal, NoDecision, replVars
  <2>4. CASE (\E n \in 1..Len(keys) : ReadTerminal(n)) \/ ReadWayland
    BY <2>4, QuietServes DEF ReadTerminal, ReadWayland, replVars
  <2>5. CASE DispatchKey \/ ClearFails \/ DispatchSync \/ DispatchClosed
    BY <2>5, QuietServes DEF DispatchKey, ClearFails, DispatchSync, DispatchClosed, replVars
  <2>6. CASE StdinStep
    BY <2>6, LineServes DEF Service!Next
  <2>7. CASE EndPromptOnTerminal \/ EndPromptOnWayland
    BY <2>7, AnswerServes DEF Service!Next
  <2> QED  BY <1>3, <2>1, <2>2, <2>3, <2>4, <2>5, <2>6, <2>7 DEF Loop
<1>4. CASE UNCHANGED vars
  BY <1>4, QuietServes DEF vars, replVars
<1> QED  BY <1>1, <1>2, <1>3, <1>4 DEF Next, Returned

(* The loop implements AssuanService: the complete lines of the client are *)
(* taken in order and each once, each accepted one is answered once, none  *)
(* is accepted while a prompt waits, and run_pinentry returns normally     *)
(* only with nobody waiting, after BYE or once the client closed stdin.    *)
THEOREM TheClientIsServed ==
  ASSUME NoTypeAhead
  PROVE  Spec => ServiceSpec
<1>1. Init => Service!Init
  <2>1. SubSeq(<<>>, 1, 0) = <<>> /\ 0 \div 2 = 0
    OBVIOUS
  <2> QED  BY <2>1 DEF Init, ReplInit, Service!Init
<1>2. ServeInv /\ [Next]_vars => [Service!Next]_(Service!vars)
  BY StepIsServed DEF Service!vars, Lines, Taken
<1> QED  BY <1>1, <1>2, ServeInvariance, PTL DEF Spec, ServiceSpec, Service!Spec

(* Inside the loop the reply stream keeps the REPL's promises: each        *)
(* accepted command is answered once and in order.                         *)
THEOREM EveryCommandIsAnsweredOnce ==
  ASSUME NoTypeAhead
  PROVE  Spec => []OneReplyPerCommand
<1>1. ServeInv => OneReplyPerCommand
  BY DEF ServeInv, LabelInv, ReplInv
<1> QED  BY <1>1, ServeInvariance, PTL

(* Inside the loop a passphrase answers only a GETPIN, and only a prompt   *)
(* is cancelled or refused.                                                *)
THEOREM OnlyGetPinIsToldThePin ==
  ASSUME NoTypeAhead
  PROVE  Spec => []RepliesFit
<1>1. ServeInv => RepliesFit
  BY DEF ServeInv, LabelInv, ReplInv
<1> QED  BY <1>1, ServeInvariance, PTL

(* Inside the loop an error message the user can be shown is the client's  *)
(* latest, whichever frontend shows it.                                    *)
THEOREM NoStaleErrorIsShown ==
  ASSUME NoTypeAhead
  PROVE  Spec => []ErrorIsFresh
<1>1. ServeInv => ErrorIsFresh
  BY DEF ServeInv, LabelInv
<1> QED  BY <1>1, ServeInvariance, PTL

-----------------------------------------------------------------------------
(* What the loop gets to in time.  A round of the loop is finite; how many *)
(* of its steps are left is said by the place the loop is at and, at one   *)
(* place, by what it has still to dispatch.                                *)

Sooner(after, before) == after < before \/ (after = before /\ Len(batch') < Len(batch))

(* stdin: the steps up to the one that reads a byte.                       *)
Waits == rd < avail /\ ~stdinClosed

ReadStage ==
  CASE pc = "stdin" -> 1 [] pc = "poll" -> 2 [] pc = "head" -> 3 [] pc = "dispatch" -> 4
    [] OTHER -> 5

BytesAreRead ==
  [][Waits /\ fate = "running" =>
       IF Loop THEN \/ rd' = rd + 1 \/ fate' # "running"
                    \/ UNCHANGED rd /\ Sooner(ReadStage', ReadStage)
       ELSE UNCHANGED <<rd, ReadStage, batch>>]_vars

(* The compositor: the steps up to the head that finds it gone.            *)
Lost == fe = "wayland" /\ link # "up"

LostStage ==
  CASE pc = "head" -> IF link = "broken" THEN 1 ELSE 6
    [] pc = "dispatch" -> IF link = "broken" THEN 2 ELSE 7
    [] pc = "frontend" -> IF "fe" \in ready THEN 3 ELSE 7
    [] pc = "stdin" -> IF "fe" \in ready THEN 4 ELSE 8
    [] OTHER -> 5

LossIsNoticed ==
  [][Lost /\ fate = "running" =>
       /\ Lost'
       /\ IF Loop THEN fate' # "running" \/ Sooner(LostStage', LostStage)
          ELSE UNCHANGED <<LostStage, batch>>]_vars

(* What a poll finds of stdin holds when stdin is read; only the hangup of *)
(* a pipe gives up what is left; a read that fails is followed by a flush. *)
RoundInv ==
  /\ pc = "stdin" /\ Waits => "in" \in ready
  /\ stdinKind = "stream" => "hup" \notin ready
  /\ stdinKind = "stream" /\ stdinClosed => rd = avail /\ ~writing
  /\ stdinKind = "stream" /\ fate = "ok" /\ isRunning => rd = avail
  /\ link = "broken" => fe = "wayland" /\ pc \in {"dispatch", "head"}

(* What the loop reads of stdin, and closes.                               *)
LEMMA StdinRound ==
  ASSUME ModesInv, RoundInv, StdinStep
  PROVE  /\ pc = "stdin" /\ pc' = "frontend" /\ UNCHANGED <<stdinKind, writing, avail, ready>>
         /\ Waits => rd' = rd + 1
         /\ stdinKind = "stream" /\ stdinClosed' => rd' = avail /\ ~writing
         /\ fate' \in {"running", "failed"} /\ link' = link
         /\ fe # "none" => fe' = fe
<1>1. StdinMoves
  BY StdinCases
<1>2. /\ pc = "stdin" /\ pc' = "frontend" /\ UNCHANGED <<stdinKind, writing, avail, ready>>
      /\ rd \in Nat /\ avail \in Nat /\ ("in" \in ready => rd < avail \/ ~writing)
      /\ stdinKind = "stream" => "hup" \notin ready
  BY TypeParts DEF StdinStep, At, clientVars, ModesInv, StdinTypes, LinesInv, RoundInv
<1>3. Waits => rd' = rd + 1
  BY <1>2 DEF StdinStep, Waits, RoundInv
<1>4. stdinKind = "stream" /\ stdinClosed' => rd' = avail /\ ~writing
  <2> SUFFICES ASSUME stdinKind = "stream", stdinClosed'  PROVE  rd' = avail /\ ~writing
    OBVIOUS
  <2>1. ClosedAfter => rd = avail /\ ~writing
    BY <1>2 DEF ClosedAfter, RoundInv
  <2>2. stdinClosed' = ClosedAfter => rd = avail /\ ~writing
    BY <2>1
  <2>3. \/ stdinClosed' = ClosedAfter /\ rd' = rd
        \/ rd = avail /\ rd' = rd /\ "in" \in ready
        \/ stdinClosed' = ClosedAfter /\ rd < avail
    BY DEF StdinStep
  <2>4. ~(rd = avail /\ rd < avail) /\ avail' = avail
    BY <1>2
  <2>5. CASE stdinClosed' = ClosedAfter /\ rd' = rd
    BY <2>2, <2>4, <2>5
  <2>6. CASE rd = avail /\ rd' = rd /\ "in" \in ready
    BY <1>2, <2>4, <2>6
  <2>7. CASE stdinClosed' = ClosedAfter /\ rd < avail
    BY <2>2, <2>4, <2>7
  <2> QED  BY <2>3, <2>5, <2>6, <2>7
<1>5. fate' \in {"running", "failed"} /\ link' = link /\ (fe # "none" => fe' = fe)
  <2>1. CASE UNCHANGED <<replVars, feVars>>
    BY <2>1 DEF StdinStep, At, replVars, feVars
  <2>2. ASSUME rd' = rd + 1, rd' % 2 = 0, DispatchLine(sent[rd' \div 2])
        PROVE  fate' \in {"running", "failed"} /\ link' = link /\ (fe # "none" => fe' = fe)
    <3> DEFINE c == sent[rd' \div 2]
    <3>1. fate = "running"
      BY DEF StdinStep, At
    <3>2. CASE NoFrontend(c)
      BY <3>2 DEF NoFrontend, feVars
    <3>3. CASE OpenPrompt(c)
      BY <3>1, <3>3 DEF OpenPrompt, FrontendFor, EnterMode, TtyEnterMode, WaylandEnterMode, CreateSurface
    <3>4. CASE (SetupCommand(c) \/ DropLine(c)) /\ UNCHANGED feVars
      BY <3>1, <3>4 DEF feVars, SetupCommand, SetLabel, SetOption, BadArgument, DecodeFails, Reset, Bye,
        Stateless, Blank, EmptyMessage, DropLine, replVars
    <3> QED  BY <2>2, <3>2, <3>3, <3>4 DEF DispatchLine
  <2> QED  BY <2>1, <2>2, StdinCases
<1> QED  BY <1>2, <1>3, <1>4, <1>5

(* The other steps leave stdin alone.                                      *)
LEMMA LoopRound ==
  ASSUME ModesInv, RoundInv, Loop, ~StdinStep
  PROVE  /\ UNCHANGED <<stdinKind, writing, avail, rd, stdinClosed>> /\ fate = "running"
         /\ \/ LoopHead \/ Poll
            \/ /\ pc = "frontend" /\ pc' \in {"head", "dispatch"} /\ fate' = "running" /\ ready' = {}
               /\ "fe" \notin ready => pc' = "head" /\ link' = link
               /\ pc' = "head" => "fe" \notin ready \/ fe = "tty"
               /\ link' = link \/ (fe = "wayland" /\ link' = "broken")
               /\ fe = "wayland" /\ link # "up" /\ pc' = "dispatch" => link' = "broken"
               /\ UNCHANGED <<fe, isRunning>>
            \/ /\ pc = "dispatch" /\ pc' = pc /\ fate' = "running" /\ batch # <<>>
               /\ batch' \in {Tail(batch), <<>>} /\ UNCHANGED <<fe, link, ready, isRunning>>
            \/ /\ pc = "dispatch" /\ UNCHANGED <<fe, link, ready, isRunning>>
               /\ \/ fate' = "failed" /\ pc' \in {pc, "head"}
                  \/ fate' = "running" /\ pc' = "head"
<1>1. CASE LoopHead \/ Poll
  BY <1>1 DEF LoopHead, Poll, At, stdinVars
<1>2. CASE NoEvent \/ (\E n \in 1..Len(keys) : ReadTerminal(n)) \/ ReadHungUpTerminal \/ ReadWayland
  BY <1>2 DEF NoEvent, ReadTerminal, ReadHungUpTerminal, ReadWayland, At, stdinVars, replVars, feVars
<1>3. CASE DispatchKey \/ ClearFails \/ DispatchSync \/ DispatchClosed
  <2>1. batch # <<>> /\ batch' \in {Tail(batch), <<>>}
    BY <1>3 DEF DispatchKey, ClearFails, DispatchSync, DispatchClosed, TtyDecision, WaylandDecision, EditSecret
  <2>2. /\ pc = "dispatch" /\ pc' = pc /\ fate' = "running" /\ UNCHANGED <<stdinVars, fe, link, ready, isRunning>>
        /\ fate = "running"
    BY <1>3 DEF DispatchKey, ClearFails, DispatchSync, DispatchClosed, At, replVars
  <2> QED  BY <2>1, <2>2 DEF stdinVars
<1>4. CASE FrontendFails \/ NoDecision \/ IdleTerminalFails
  BY <1>4 DEF FrontendFails, NoDecision, IdleTerminalFails, At, stdinVars, replVars, feVars
<1>5. CASE EndPromptOnTerminal \/ EndPromptOnWayland
  <2>1. \E leave \in BOOLEAN : EndPromptOf(leave)
    BY <1>5 DEF EndPromptOnTerminal, EndPromptOnWayland, EndPromptOf
  <2> QED  BY <2>1 DEF EndPromptOf, HandleFrontendEvent, At, stdinVars
<1> QED  BY <1>1, <1>2, <1>3, <1>4, <1>5 DEF Loop

(* A poll finds the byte that waits, and the compositor that is gone.      *)
LEMMA PollRound ==
  ASSUME ModesInv, RoundInv, Poll
  PROVE  /\ pc = "poll" /\ pc' = "stdin" /\ fate' = "running" /\ UNCHANGED <<fe, link, isRunning>>
         /\ Waits => "in" \in ready'
         /\ stdinKind = "stream" => "hup" \notin ready'
         /\ Lost => "fe" \in ready'
<1>1. /\ pc = "poll" /\ pc' = "stdin" /\ fate' = "running" /\ UNCHANGED <<fe, link, isRunning>>
      /\ ready' = Revents
  BY DEF Poll, At, replVars, feVars
<1>2. Waits => "in" \in Revents
  BY DEF Waits, Revents, StdinReadable
<1>3. stdinKind = "stream" => "hup" \notin Revents
  BY DEF Revents, StdinHungUp
<1>4. Lost => "fe" \in Revents
  BY DEF Lost, Revents, FrontendReadable
<1> QED  BY <1>1, <1>2, <1>3, <1>4

(* The head of the loop, where the process may return.                     *)
LEMMA HeadRound ==
  ASSUME ModesInv, RoundInv, LoopHead
  PROVE  /\ pc = "head" /\ UNCHANGED <<fe, link, ready, batch, isRunning>>
         /\ \/ fate' = "running" /\ pc' = "poll" /\ (fe = "wayland" => link # "broken")
            \/ fate' \in {"ok", "failed"} /\ pc' = pc
         /\ stdinKind = "stream" /\ fate' = "ok" /\ isRunning => rd = avail
<1>1. /\ pc = "head" /\ fate = "running" /\ UNCHANGED <<fe, link, ready, batch, isRunning>>
      /\ \/ fate' = "running" /\ pc' = "poll" /\ (fe = "wayland" => link # "broken")
         \/ fate' \in {"ok", "failed"} /\ pc' = pc
  BY DEF LoopHead, At, feVars, FlushWorks
<1>2. fate' = "ok" /\ isRunning => stdinClosed
  BY DEF LoopHead, NothingLeft, At
<1> QED  BY <1>1, <1>2 DEF RoundInv

(* What happens beside the loop.                                           *)
LEMMA BesideTheLoop ==
  ASSUME Client \/ Environment \/ UNCHANGED vars
  PROVE  /\ UNCHANGED <<stdinKind, rd, stdinClosed, pc, ready, fe, batch, isRunning, fate>>
         /\ link' = link \/ (fate = "running" /\ fe # "none" /\ link = "up" /\ link' = "down")
         /\ UNCHANGED <<writing, avail>> \/ (writing /\ pc = "poll" /\ fate = "running")
         /\ writing' => writing
<1>1. CASE Client
  BY <1>1 DEF Client, WriteCommand, WriteNewline, CloseStdin, At, feVars, replVars
<1>2. CASE \E k \in UserKeys : Press(k)
  BY <1>2 DEF Press, stdinVars, replVars
<1>4. CASE AnswerSync \/ ShowPrompt \/ HidePrompt \/ CloseSurface
  BY <1>4 DEF AnswerSync, ShowPrompt, HidePrompt, CloseSurface, stdinVars, replVars
<1>5. CASE LoseLink
  BY <1>5 DEF LoseLink, stdinVars, replVars
<1>3. CASE UNCHANGED vars
  BY <1>3 DEF vars, stdinVars, replVars, feVars
<1> QED  BY <1>1, <1>2, <1>3, <1>4, <1>5 DEF Environment

(* A step takes the state of a round to the next one.                      *)
LEMMA StepRound ==
  ASSUME ModesInv, RoundInv, [Next]_vars
  PROVE  RoundInv'
<1>1. ASSUME Client \/ Environment \/ UNCHANGED vars  PROVE  RoundInv'
  <2>1. Waits' /\ pc' = "stdin" => Waits /\ pc = "stdin"
    BY <1>1, BesideTheLoop DEF Waits
  <2> QED  BY <1>1, <2>1, BesideTheLoop DEF RoundInv
<1>2. ASSUME StdinStep  PROVE  RoundInv'
  <2>1. fate' # "ok" /\ pc' = "frontend" /\ link # "broken" /\ ready' = ready
    BY <1>2, StdinRound DEF RoundInv
  <2> QED  BY <1>2, <2>1, StdinRound DEF RoundInv
<1>3. ASSUME Poll  PROVE  RoundInv'
  <2>1. UNCHANGED <<stdinKind, writing, avail, rd, stdinClosed>> /\ link # "broken" /\ (Waits' => Waits)
    BY <1>3, PollRound DEF Poll, stdinVars, Waits, RoundInv
  <2> QED  BY <1>3, <2>1, PollRound DEF RoundInv
<1>4. ASSUME LoopHead  PROVE  RoundInv'
  <2>1. UNCHANGED <<stdinKind, writing, avail, rd, stdinClosed>>
    BY <1>4 DEF LoopHead, stdinVars
  <2> QED  BY <1>4, <2>1, HeadRound DEF RoundInv
<1>5. ASSUME Loop, ~StdinStep, ~Poll, ~LoopHead  PROVE  RoundInv'
  <2>1. /\ UNCHANGED <<stdinKind, writing, avail, rd, stdinClosed>> /\ fate' # "ok" /\ pc' # "stdin"
        /\ ready' \in {ready, {}}
    BY <1>5, LoopRound
  <2>2. link' = "broken" => fe' = "wayland" /\ pc' \in {"dispatch", "head"}
    BY <1>5, LoopRound DEF RoundInv
  <2> QED  BY <2>1, <2>2 DEF RoundInv
<1> QED  BY <1>1, <1>2, <1>3, <1>4, <1>5 DEF Next, Returned

LEMMA RoundInvariance == Spec => [](ModesInv /\ RoundInv)
<1>1. Init => RoundInv
  BY DEF Init, ReplInit, RoundInv
<1> QED  BY <1>1, StepRound, ModesInvariance, PTL DEF Spec

(* What was read leaves less to dispatch.                                  *)
LEMMA BatchIsShorter ==
  ASSUME ModesInv, batch # <<>>, batch' \in {Tail(batch), <<>>}
  PROVE  Len(batch') < Len(batch)
<1>1. batch \in Seq(KeyPress)
  BY TypeParts DEF ModesInv, FrontendTypes
<1> QED  BY <1>1

(* A byte that waits on stdin is read within one round of the loop: every  *)
(* step of run_pinentry brings the read nearer and nothing the user, the   *)
(* client or the compositor does puts it off, unless the process ends.     *)
THEOREM NoByteIsPassedOver == Spec => BytesAreRead
<1>1. ASSUME ModesInv, RoundInv, Waits, fate = "running", Loop
      PROVE  rd' = rd + 1 \/ fate' # "running" \/ (UNCHANGED rd /\ Sooner(ReadStage', ReadStage))
  <2>1. CASE StdinStep
    BY <1>1, <2>1, StdinRound
  <2>2. CASE Poll
    BY <1>1, <2>2, PollRound DEF Poll, stdinVars, Sooner, ReadStage
  <2>3. CASE LoopHead
    BY <1>1, <2>3, HeadRound DEF LoopHead, stdinVars, Sooner, ReadStage
  <2>4. ASSUME ~StdinStep, ~Poll, ~LoopHead
        PROVE  fate' # "running" \/ (UNCHANGED rd /\ Sooner(ReadStage', ReadStage))
    <3>1. CASE pc = "frontend"
      BY <1>1, <2>4, <3>1, LoopRound DEF Sooner, ReadStage
    <3>2. CASE pc = "dispatch" /\ pc' = pc /\ batch # <<>> /\ batch' \in {Tail(batch), <<>>}
      BY <1>1, <2>4, <3>2, LoopRound, BatchIsShorter DEF Sooner, ReadStage
    <3>3. CASE pc = "dispatch" /\ fate' = "running" /\ pc' = "head"
      BY <1>1, <2>4, <3>3, LoopRound DEF Sooner, ReadStage
    <3>4. CASE fate' # "running"
      BY <3>4
    <3> QED  BY <1>1, <2>4, <3>1, <3>2, <3>3, <3>4, LoopRound
  <2> QED  BY <2>1, <2>2, <2>3, <2>4
<1>2. ASSUME [Next]_vars, fate = "running", ~Loop  PROVE  UNCHANGED <<rd, ReadStage, batch>>
  BY <1>2, BesideTheLoop DEF Next, Returned, ReadStage
<1>3. ModesInv /\ RoundInv /\ [Next]_vars =>
        [Waits /\ fate = "running" =>
           IF Loop THEN \/ rd' = rd + 1 \/ fate' # "running"
                        \/ UNCHANGED rd /\ Sooner(ReadStage', ReadStage)
           ELSE UNCHANGED <<rd, ReadStage, batch>>]_vars
  BY <1>1, <1>2
<1> QED  BY <1>3, RoundInvariance, PTL DEF Spec, BytesAreRead

(* A compositor that is gone is noticed and ends the process: poll reports *)
(* its socket, the read that follows breaks the connection, and the flush  *)
(* at the head of the loop fails.  Every step of the loop brings that      *)
(* nearer, whatever else happens, and the compositor does not come back.   *)
THEOREM TheLossIsNoticed == Spec => LossIsNoticed
<1>1. ASSUME ModesInv, RoundInv, Lost, fate = "running", Loop
      PROVE  Lost' /\ (fate' # "running" \/ Sooner(LostStage', LostStage))
  <2>1. CASE StdinStep
    BY <1>1, <2>1, StdinRound DEF Lost, Sooner, LostStage
  <2>2. CASE Poll
    BY <1>1, <2>2, PollRound DEF Lost, Sooner, LostStage
  <2>3. CASE LoopHead
    BY <1>1, <2>3, HeadRound DEF Lost, Sooner, LostStage
  <2>4. ASSUME ~StdinStep, ~Poll, ~LoopHead
        PROVE  Lost' /\ (fate' # "running" \/ Sooner(LostStage', LostStage))
    <3>1. CASE pc = "frontend"
      BY <1>1, <2>4, <3>1, LoopRound DEF Lost, Sooner, LostStage, RoundInv
    <3>2. CASE pc = "dispatch" /\ pc' = pc /\ batch # <<>> /\ batch' \in {Tail(batch), <<>>}
      BY <1>1, <2>4, <3>2, LoopRound, BatchIsShorter DEF Lost, Sooner, LostStage
    <3>3. CASE pc = "dispatch" /\ pc' = "head"
      BY <1>1, <2>4, <3>3, LoopRound DEF Lost, Sooner, LostStage
    <3>4. CASE pc = "dispatch" /\ fate' # "running"
      BY <1>1, <2>4, <3>4, LoopRound DEF Lost
    <3> QED  BY <1>1, <2>4, <3>1, <3>2, <3>3, <3>4, LoopRound
  <2> QED  BY <2>1, <2>2, <2>3, <2>4
<1>2. ASSUME [Next]_vars, Lost, fate = "running", ~Loop, RoundInv
      PROVE  Lost' /\ UNCHANGED <<LostStage, batch>>
  BY <1>2, BesideTheLoop DEF Next, Returned, Lost, LostStage
<1>3. ModesInv /\ RoundInv /\ [Next]_vars =>
        [Lost /\ fate = "running" =>
           /\ Lost'
           /\ IF Loop THEN fate' # "running" \/ Sooner(LostStage', LostStage)
              ELSE UNCHANGED <<LostStage, batch>>]_vars
  BY <1>1, <1>2
<1> QED  BY <1>3, RoundInvariance, PTL DEF Spec, LossIsNoticed

(* A stream gives up nothing: its end is a read that yields no byte, and   *)
(* comes behind the last one.  A pipe's hangup is why NoLineLost itself    *)
(* does not hold (command.rs, POLLHUP behind the read).                    *)
THEOREM StreamsAreReadToTheEnd == Spec => [](stdinKind = "stream" => NoLineLost)
<1>1. RoundInv => (stdinKind = "stream" => NoLineLost)
  BY DEF RoundInv, NoLineLost
<1> QED  BY <1>1, RoundInvariance, PTL

-----------------------------------------------------------------------------
(* An answer that is on its way: a key that decides the prompt was pressed *)
(* and is in the queue, in the batch, or has become the reason to return.  *)

Counts(k) ==
  \/ k \in {"Enter", "Escape"}
  \/ k = "NotOk" /\ (fe = "tty" \/ (synced /\ labels["not_ok"] # Unset))

Settling(ks) == \E i \in 1..Len(ks) : Counts(ks[i].key)

Settled ==
  /\ fate = "running" /\ mode # "None" /\ link = "up"
  /\ reason # "None" \/ Settling(batch) \/ Settling(keys)

AnswerStage ==
  CASE pc = "dispatch" -> IF reason # "None" \/ Settling(batch) THEN 1 ELSE 6
    [] pc = "frontend" -> IF "fe" \in ready THEN 2 ELSE 7
    [] pc = "stdin" -> IF "fe" \in ready THEN 3 ELSE 8
    [] pc = "poll" -> 4
    [] OTHER -> 5

AnsweredInTime ==
  [][Settled =>
       IF Loop THEN \/ fate' # "running" \/ mode' = "None"
                    \/ Settled' /\ Sooner(AnswerStage', AnswerStage)
       ELSE link' # "up" \/ (Settled' /\ UNCHANGED <<AnswerStage, batch>>)]_vars

(* A prompt is asked by a frontend; until its keys are read, they wait.    *)
LEMMA WhereItWaits ==
  ASSUME ModesInv, Settled
  PROVE  /\ fe \in {"tty", "wayland"} /\ keys \in Seq(KeyPress) /\ batch \in Seq(KeyPress)
         /\ fe = "tty" \/ synced => feMode # "None"
         /\ pc # "dispatch" => reason = "None" /\ batch = <<>> /\ Settling(keys) /\ keys # <<>>
<1>1. /\ fe \in {"none", "tty", "wayland"} /\ keys \in Seq(KeyPress) /\ batch \in Seq(KeyPress)
      /\ fate = "running" /\ mode # "None" /\ mode \in AssuanMode
      /\ reason # "None" \/ Settling(batch) \/ Settling(keys)
  BY TypeParts DEF Settled, ModesInv, FrontendTypes, ReplTypeOK
<1>2. InterfaceFor(mode) # "None"
  BY <1>1 DEF InterfaceFor, AssuanMode
<1>3. EffectiveMode # "None"
  BY <1>1, <1>2 DEF ModesInv, ModesAgree
<1>4. fe # "none"
  BY <1>1 DEF ModesInv, FrontendInv, Unselected
<1>5. ~Settling(<<>>)
  BY DEF Settling
<1>6. pc # "dispatch" => reason = "None" /\ batch = <<>>
  BY DEF ModesInv, FrontendInv
<1>7. fe = "tty" \/ synced => feMode # "None"
  BY <1>3 DEF EffectiveMode
<1> QED  BY <1>1, <1>4, <1>5, <1>6, <1>7

(* A key that counts goes on to count while the prompt is asked.           *)
LEMMA StillCounts ==
  ASSUME UNCHANGED <<fe, labels>>, synced => synced', NEW k, Counts(k)
  PROVE  Counts(k)'
BY DEF Counts

LEMMA StillSettling ==
  ASSUME UNCHANGED <<fe, labels>>, synced => synced'
  PROVE  /\ keys' = keys /\ Settling(keys) => Settling(keys)'
         /\ batch' = batch /\ Settling(batch) => Settling(batch)'
         /\ batch' = keys /\ Settling(keys) => Settling(batch)'
BY StillCounts DEF Settling

(* Nobody else takes the answer away.                                      *)
LEMMA AnswerStays ==
  ASSUME ModesInv, Settled, Client \/ Environment \/ UNCHANGED vars
  PROVE  link' # "up" \/ (Settled' /\ UNCHANGED <<AnswerStage, batch>>)
<1>1. ASSUME UNCHANGED <<fate, mode, labels, pc, ready, fe, synced, batch, reason, link>>,
             Settling(keys) => Settling(keys)'
      PROVE  Settled' /\ UNCHANGED <<AnswerStage, batch>>
  <2>1. Settling(batch)' <=> Settling(batch)
    BY <1>1 DEF Settling, Counts
  <2> QED  BY <1>1, <2>1 DEF Settled, AnswerStage
<1>2. CASE Client \/ UNCHANGED vars \/ ShowPrompt \/ HidePrompt
  <2>1. UNCHANGED <<fate, mode, labels, pc, ready, fe, synced, batch, reason, link, keys>>
    BY <1>2 DEF Client, WriteCommand, WriteNewline, CloseStdin, ShowPrompt, HidePrompt, vars, replVars, feVars
  <2> QED  BY <1>1, <2>1, StillSettling
<1>3. CASE (\E k \in UserKeys : Press(k)) \/ CloseSurface
  <2>1. UNCHANGED <<fate, mode, labels, pc, ready, fe, synced, batch, reason, link>>
        /\ \E e : keys' = Append(keys, e)
    BY <1>3 DEF Press, CloseSurface, replVars
  <2>2. ASSUME Settling(keys)  PROVE  Settling(keys)'
    <3>1. PICK i \in 1..Len(keys) : Counts(keys[i].key)
      BY <2>2 DEF Settling
    <3>2. PICK e : keys' = Append(keys, e)
      BY <2>1
    <3>3. i \in 1..Len(keys') /\ keys'[i] = keys[i]
      BY <3>1, <3>2, WhereItWaits
    <3>4. Counts(keys[i].key)'
      BY <2>1, <3>1, <3>3 DEF Counts
    <3> QED  BY <3>3, <3>4 DEF Settling
  <2> QED  BY <1>1, <2>1, <2>2
<1>4. CASE AnswerSync
  <2>1. UNCHANGED <<fate, mode, labels, pc, ready, fe, synced, batch, reason, link>> /\ keys = <<>>
    BY <1>4 DEF AnswerSync, replVars
  <2>2. ~Settling(keys)
    BY <2>1 DEF Settling
  <2> QED  BY <1>1, <2>1, <2>2
<1>5. CASE LoseLink
  BY <1>5 DEF LoseLink
<1> QED  BY <1>2, <1>3, <1>4, <1>5 DEF Environment

(* Stdin: a line is dropped while the user is asked.                       *)
LEMMA AnswerAtStdin ==
  ASSUME ModesInv, Settled, StdinStep
  PROVE  Settled' /\ Sooner(AnswerStage', AnswerStage)
<1>1. pc = "stdin" /\ pc' = "frontend" /\ ready' = ready
  BY StdinCases DEF StdinMoves
<1>2. UNCHANGED <<replVars, feVars>>
  <2>1. ASSUME NEW c, DispatchLine(c)
        PROVE  UNCHANGED <<replVars, feVars>>
    BY <2>1 DEF DispatchLine, NoFrontend, OpenPrompt, StartPrompt, RequiresFrontend, SetupCommand, DropLine, Settled
  <2> QED  BY <2>1, StdinCases
<1>3. Settled'
  BY <1>2, StillSettling DEF Settled, replVars, feVars
<1> QED  BY <1>1, <1>3 DEF AnswerStage, Sooner

(* Poll: a key that waits at a prompt makes its frontend readable.         *)
LEMMA AnswerAtPoll ==
  ASSUME ModesInv, Settled, Poll
  PROVE  Settled' /\ Sooner(AnswerStage', AnswerStage)
<1>1. pc = "poll" /\ pc' = "stdin" /\ ready' = Revents /\ UNCHANGED <<replVars, feVars>>
  BY DEF Poll, At
<1>2. FrontendReadable
  BY <1>1, WhereItWaits DEF FrontendReadable, TerminalReadable
<1>3. "fe" \in ready'
  BY <1>1, <1>2 DEF Revents
<1>4. Settled'
  BY <1>1, StillSettling DEF Settled, replVars, feVars
<1> QED  BY <1>1, <1>3, <1>4 DEF AnswerStage, Sooner

(* The frontend: what is read has the key in it.                           *)
LEMMA AnswerAtFrontend ==
  ASSUME ModesInv, Settled,
         NoEvent \/ (\E n \in 1..Len(keys) : ReadTerminal(n)) \/ ReadHungUpTerminal \/ ReadWayland
  PROVE  Settled' /\ Sooner(AnswerStage', AnswerStage)
<1>1. pc = "frontend" /\ UNCHANGED <<fate, mode, labels, fe, synced, reason>>
  BY DEF NoEvent, ReadTerminal, ReadHungUpTerminal, ReadWayland, At, replVars, feVars
<1>2. CASE NoEvent
  <2>1. "fe" \notin ready /\ pc' = "head" /\ UNCHANGED <<keys, batch, link>>
    BY <1>2 DEF NoEvent, feVars
  <2> QED  BY <1>1, <2>1, StillSettling DEF Settled, AnswerStage, Sooner
<1>3. ASSUME pc' = "dispatch", "fe" \in ready, batch' = keys, link' = "up"
      PROVE  Settled' /\ Sooner(AnswerStage', AnswerStage)
  <2>1. Settling(batch)'
    BY <1>1, <1>3, StillSettling, WhereItWaits
  <2> QED  BY <1>1, <1>3, <2>1 DEF Settled, AnswerStage, Sooner
<1>4. ASSUME NEW n \in 1..Len(keys), ReadTerminal(n)
      PROVE  Settled' /\ Sooner(AnswerStage', AnswerStage)
  <2>1. n = Len(keys)
    BY <1>1, <1>4, WhereItWaits DEF ReadTerminal, TerminalYields
  <2>2. batch' = keys
    <3>1. keys \in Seq(KeyPress)
      BY WhereItWaits
    <3> QED  BY <1>4, <2>1, <3>1 DEF ReadTerminal
  <2> QED  BY <1>3, <1>4, <2>2 DEF ReadTerminal, Settled
<1>5. CASE ReadHungUpTerminal
  BY <1>5 DEF ReadHungUpTerminal, Settled
<1>6. CASE ReadWayland
  BY <1>3, <1>6 DEF ReadWayland, Settled
<1> QED  BY <1>2, <1>4, <1>5, <1>6

(* Dispatch: a key that counts gives a reason, and a reason remains one.   *)
LEMMA AnswerDispatched ==
  ASSUME ModesInv, Settled, DispatchKey \/ ClearFails \/ DispatchSync \/ DispatchClosed
  PROVE  Settled' /\ Sooner(AnswerStage', AnswerStage)
<1>1. /\ batch # <<>> /\ UNCHANGED <<fate, mode, labels, fe, keys, link, pc>> /\ pc = "dispatch"
      /\ synced => synced'
  BY DEF DispatchKey, ClearFails, DispatchSync, DispatchClosed, At, replVars
<1>2. /\ Tail(batch) \in Seq(KeyPress) /\ Head(batch) = batch[1] /\ Len(Tail(batch)) = Len(batch) - 1
      /\ \A i \in 1..Len(Tail(batch)) : Tail(batch)[i] = batch[i + 1]
  BY <1>1, WhereItWaits, OneKeyLess
<1>3. reason' # "None" \/ batch' = Tail(batch)
  BY DEF DispatchKey, ClearFails, DispatchSync, DispatchClosed, TtyDecision, WaylandDecision, EditSecret,
    EventOf, DecisionKey
<1>4. reason # "None" => reason' # "None"
  BY DEF DispatchKey, ClearFails, DispatchSync, DispatchClosed, TtyDecision, WaylandDecision, EditSecret,
    EventOf, DecisionKey
<1>5. Counts(Head(batch).key) => reason' # "None"
  <2> DEFINE k == Head(batch).key
  <2> SUFFICES ASSUME Counts(k)  PROVE  reason' # "None"
    OBVIOUS
  <2>1. k \in DecisionKey /\ k \notin EditKey /\ k # "Clear" /\ k # "Sync" /\ k # "Closed"
    <3>1. k \in {"Enter", "Escape", "NotOk"}
      BY DEF Counts
    <3>2. k \in DecisionKey
      BY <3>1 DEF DecisionKey
    <3> HIDE DEF k
    <3> QED  BY <3>1, <3>2, KeysApart
  <2>2. TtyDecision(k) \/ WaylandDecision(k)
    BY <2>1 DEF DispatchKey, ClearFails, DispatchSync, DispatchClosed
  <2>3. EventOf(k) # "None"
    BY <2>1 DEF EventOf, DecisionKey
  <2>4. CASE TtyDecision(k)
    BY <2>3, <2>4 DEF TtyDecision
  <2>5. CASE WaylandDecision(k)
    <3>1. k = "NotOk" => synced /\ labels["not_ok"] # Unset
      BY <2>5 DEF Counts, WaylandDecision
    <3>2. k = "NotOk" => feMode # "None" /\ labels["not_ok"] # Unset
      BY <3>1, WhereItWaits
    <3>3. reason' = EventOf(k)
      BY <2>5, <3>2 DEF WaylandDecision
    <3> QED  BY <2>3, <3>3
  <2> QED  BY <2>2, <2>4, <2>5
<1>6. ASSUME Settling(batch)  PROVE  reason' # "None" \/ Settling(batch)'
  <2> SUFFICES ASSUME reason' = "None"  PROVE  Settling(batch)'
    OBVIOUS
  <2>1. PICK i \in 1..Len(batch) : Counts(batch[i].key)
    BY <1>6 DEF Settling
  <2>2. i # 1
    BY <1>2, <1>5, <2>1
  <2>3. i - 1 \in 1..Len(Tail(batch)) /\ (i - 1) + 1 = i
    BY <1>2, <2>1, <2>2, WhereItWaits
  <2>4. batch' = Tail(batch) /\ Tail(batch)[i - 1] = batch[i]
    BY <1>2, <1>3, <2>3
  <2>5. Counts(batch[i - 1].key)'
    BY <1>1, <2>1, <2>4 DEF Counts
  <2> QED  BY <2>3, <2>4, <2>5 DEF Settling
<1>7. Settled'
  <2>1. Settling(keys) => Settling(keys)'
    BY <1>1, StillSettling
  <2> QED  BY <1>1, <1>4, <1>6, <2>1 DEF Settled
<1>8. Len(batch') < Len(batch)
  <2>1. batch' \in {Tail(batch), <<>>}
    BY DEF DispatchKey, ClearFails, DispatchSync, DispatchClosed, TtyDecision, WaylandDecision, EditSecret
  <2> QED  BY <1>1, <2>1, BatchIsShorter
<1>9. AnswerStage' <= AnswerStage /\ AnswerStage' \in Nat /\ AnswerStage \in Nat
  BY <1>1, <1>4, <1>6 DEF AnswerStage
<1> QED  BY <1>7, <1>8, <1>9 DEF Sooner

(* The end of the batch.                                                   *)
LEMMA AnswerReturned ==
  ASSUME ModesInv, Settled,
         FrontendFails \/ NoDecision \/ IdleTerminalFails \/ EndPromptOnTerminal \/ EndPromptOnWayland
  PROVE  fate' # "running" \/ mode' = "None" \/ (Settled' /\ Sooner(AnswerStage', AnswerStage))
<1>1. CASE FrontendFails \/ IdleTerminalFails
  BY <1>1 DEF FrontendFails, IdleTerminalFails
<1>2. CASE EndPromptOnTerminal \/ EndPromptOnWayland
  BY <1>2 DEF EndPromptOnTerminal, EndPromptOnWayland, EndPromptOf, HandleFrontendEvent
<1>3. CASE NoDecision
  <2>1. /\ pc = "dispatch" /\ pc' = "head" /\ reason = "None" /\ batch = <<>>
        /\ UNCHANGED <<replVars, feVars>>
    BY <1>3 DEF NoDecision, At
  <2>2. ~Settling(batch)
    BY <2>1 DEF Settling
  <2>3. Settled'
    BY <2>1, StillSettling DEF Settled, replVars, feVars
  <2> QED  BY <2>1, <2>2, <2>3 DEF AnswerStage, Sooner
<1> QED  BY <1>1, <1>2, <1>3

(* A prompt whose deciding key was pressed ends within two rounds of the   *)
(* loop, whatever lines the client writes and whatever else the user does: *)
(* every step brings the key nearer to handle_assuan_event and nothing     *)
(* takes it away, unless the process ends or the link is lost.  On Wayland *)
(* the key counts for the prompt that is open when it arrives.             *)
THEOREM DecisionsArriveInTime == Spec => AnsweredInTime
<1>1. ASSUME ModesInv, Settled, Loop
      PROVE  fate' # "running" \/ mode' = "None" \/ (Settled' /\ Sooner(AnswerStage', AnswerStage))
  <2>1. CASE LoopHead
    <3>1. pc = "head" /\ UNCHANGED <<mode, labels, feVars>> /\ (fate' = "running" => pc' = "poll")
      BY <2>1 DEF LoopHead, At
    <3>2. fate' = "running" => Settled'
      BY <1>1, <3>1, StillSettling DEF Settled, feVars
    <3> QED  BY <3>1, <3>2 DEF AnswerStage, Sooner
  <2> QED  BY <1>1, <2>1, AnswerAtStdin, AnswerAtPoll, AnswerAtFrontend, AnswerDispatched, AnswerReturned DEF Loop
<1>2. ASSUME ModesInv, Settled, [Next]_vars, ~Loop
      PROVE  link' # "up" \/ (Settled' /\ UNCHANGED <<AnswerStage, batch>>)
  BY <1>2, AnswerStays DEF Next, Returned
<1>3. ModesInv /\ [Next]_vars =>
        [Settled =>
           IF Loop THEN \/ fate' # "running" \/ mode' = "None"
                        \/ Settled' /\ Sooner(AnswerStage', AnswerStage)
           ELSE link' # "up" \/ (Settled' /\ UNCHANGED <<AnswerStage, batch>>)]_vars
  BY <1>1, <1>2
<1> QED  BY <1>3, ModesInvariance, PTL DEF Spec, AnsweredInTime
=============================================================================
