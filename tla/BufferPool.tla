----------------------------- MODULE BufferPool -----------------------------
(***************************************************************************)
(* The shared-memory buffers of the Wayland dialog                         *)
(* (src/frontend/wayland/shm.rs): the slots, next_buffer with its cull,    *)
(* the frame render draws, and the release events of a compositor that     *)
(* gives buffers back when it likes.                                       *)
(*                                                                         *)
(* A buffer is the wl_buffer object it is known by.  An object that was    *)
(* destroyed is used again only when no event about it is on its way, and  *)
(* until then the client library drops its events.                         *)
(***************************************************************************)
EXTENDS Naturals, Sequences, FiniteSets

CONSTANTS
  Objects,                \* wl_buffer objects; bound: how many exist at a time
  Sizes,                  \* the physical sizes frames have
  MaxBufferMultiplicity   \* MAX_BUFFER_MULTIPLICITY

ASSUME MultiplicityAssumption == MaxBufferMultiplicity \in Nat
ASSUME SizesAssumption == Sizes # {}

VARIABLES
  slots,     \* BufferPool::slots
  slotOf,    \* the user data of each wl_buffer: its slot
  held,      \* the buffers the compositor may read
  released,  \* release events on their way, oldest first
  phase      \* "open", "failed" (no memory for a buffer), "closed"

vars == <<slots, slotOf, held, released, phase>>

None == [object |-> "none"]
Buffer == [object: Objects, size: Sizes, busy: BOOLEAN]

Slot == 1..Len(slots)
Live == {i \in Slot : slots[i] # None}
Busy == {i \in Live : slots[i].busy}
Idle == Live \ Busy
Existing == {slots[i].object : i \in Live}
InFlight == {released[i] : i \in 1..Len(released)}
Fresh == Objects \ (Existing \cup held \cup InFlight)

TypeOK ==
  /\ slots \in Seq(Buffer \cup {None})
  /\ slotOf \in [Objects -> Nat]
  /\ held \subseteq Objects
  /\ released \in Seq(Objects)
  /\ phase \in {"open", "failed", "closed"}

Init ==
  /\ slots = <<>>
  /\ slotOf = [o \in Objects |-> 0]
  /\ held = {}
  /\ released = <<>>
  /\ phase = "open"

-----------------------------------------------------------------------------
(* next_buffer.                                                            *)

Smallest(S) == CHOOSE i \in S : \A j \in S : i <= j

(* Mutant: one buffer is culled per frame.                                 *)
OverheadOne == IF Cardinality(Live) > MaxBufferMultiplicity THEN 1 ELSE 0

Overhead ==
  IF Cardinality(Live) > MaxBufferMultiplicity
  THEN Cardinality(Live) - MaxBufferMultiplicity ELSE 0

(* Mutant: buffers go whether they are busy or not.                        *)
CulledBusyToo == {i \in Live : Cardinality({j \in Live : j < i}) < Overhead}

(* The first idle buffers, as many as there are too many.                  *)
Culled == {i \in Idle : Cardinality({j \in Idle : j < i}) < Overhead}

(* The slots after the cull.                                               *)
Kept == [i \in Slot |-> IF i \in Culled THEN None ELSE slots[i]]

(* Mutant: a buffer of the right size is used even if it is busy.          *)
BusyFits(size) == {i \in Live \ Culled : slots[i].size = size}

Matching(size) == {i \in Idle \ Culled : slots[i].size = size}
Mismatched(size) == {i \in Idle \ Culled : slots[i].size # size}
Free == {i \in Slot : Kept[i] = None}

(* Where a buffer is made when none of this size is idle: in the place of  *)
(* an idle one, in an empty slot, or in a new one.                         *)
Replaced(size) ==
  IF Mismatched(size) # {} THEN Smallest(Mismatched(size))
  ELSE IF Free # {} THEN Smallest(Free)
  ELSE Len(slots) + 1

(* Mutant: the last slot is taken to be beyond the end.                    *)
PlacedLate(i, b) ==
  IF i >= Len(slots) THEN Append(Kept, b) ELSE [Kept EXCEPT ![i] = b]

(* Kept with buffer b in slot i, at the end when i is a new slot.          *)
Placed(i, b) ==
  IF i > Len(slots) THEN Append(Kept, b) ELSE [Kept EXCEPT ![i] = b]

-----------------------------------------------------------------------------
(* Surface::render from next_buffer to the commit: after it the buffer is  *)
(* busy and the compositor may read it.                                    *)

DrawAgain(size) ==
  /\ phase = "open"
  /\ Matching(size) # {}
  /\ LET i == Smallest(Matching(size)) IN
       /\ slots' = Placed(i, [slots[i] EXCEPT !.busy = TRUE])
       /\ held' = held \cup {slots[i].object}
  /\ UNCHANGED <<slotOf, released, phase>>

DrawNew(size, o) ==
  /\ phase = "open"
  /\ Matching(size) = {}
  /\ o \in Fresh
  /\ slots' = Placed(Replaced(size), [object |-> o, size |-> size, busy |-> TRUE])
  /\ slotOf' = [slotOf EXCEPT ![o] = Replaced(size)]
  /\ held' = held \cup {o}
  /\ UNCHANGED <<released, phase>>

(* Buffer::new fails: the cull has happened, an idle buffer that was to be *)
(* replaced is still there, and the error ends the dialog.                 *)
NoMemory(size) ==
  /\ phase = "open"
  /\ Matching(size) = {}
  /\ slots' = Kept
  /\ phase' = "failed"
  /\ UNCHANGED <<slotOf, held, released>>

(* BufferPool::deinit, or the drop of the slots after a failure.           *)
Deinit ==
  /\ phase # "closed"
  /\ slots' = <<>>
  /\ phase' = "closed"
  /\ UNCHANGED <<slotOf, held, released>>

-----------------------------------------------------------------------------
(* The compositor is done with a buffer: it drew a copy, a newer frame     *)
(* took its place, or the surface is gone.                                 *)
Release(o) ==
  /\ phase = "open"
  /\ o \in held
  /\ held' = held \ {o}
  /\ released' = Append(released, o)
  /\ UNCHANGED <<slots, slotOf, phase>>

(* The release event reaches the slot its buffer was made for.             *)
DispatchRelease ==
  /\ phase = "open"
  /\ released # <<>>
  /\ released' = Tail(released)
  /\ LET o == Head(released) IN
       slots' = IF o \in Existing /\ slotOf[o] \in Live
                THEN [slots EXCEPT ![slotOf[o]].busy = FALSE]
                ELSE slots
  /\ UNCHANGED <<slotOf, held, phase>>

Next ==
  \/ \E size \in Sizes : DrawAgain(size) \/ NoMemory(size)
  \/ \E size \in Sizes, o \in Objects : DrawNew(size, o)
  \/ \E o \in Objects : Release(o)
  \/ DispatchRelease \/ Deinit

Spec == Init /\ [][Next]_vars

-----------------------------------------------------------------------------
(* A slot is busy exactly while the compositor may read its buffer or its  *)
(* release is on its way, whatever was culled, replaced and made since:    *)
(* no frame is drawn into a buffer on the screen and none is lost for good. *)
BusyIsHeld ==
  phase = "open" =>
    /\ held \cup InFlight = {slots[i].object : i \in Busy}
    /\ held \cap InFlight = {}
    /\ \A i, j \in 1..Len(released) : released[i] = released[j] => i = j

(* The slot a buffer knows is the slot it is in: a cull never moves one.   *)
SlotsAreStable == \A i \in Live : slotOf[slots[i].object] = i

(* A frame leaves no more buffers than MaxBufferMultiplicity, or than the  *)
(* compositor has when it has more: what a burst of frames allocated goes  *)
(* as soon as it is idle.                                                  *)
PoolShrinks ==
  [][phase' = "open" /\ held' \ held # {} =>
       \/ Cardinality(Live') <= MaxBufferMultiplicity
       \/ Live' = Busy']_vars

(* The compositor's view of every buffer.                                  *)
Ownership == INSTANCE BufferOwnership
               WITH owner <- [o \in Objects |->
                                IF o \in held \cup InFlight THEN "compositor"
                                ELSE IF o \in Existing THEN "client" ELSE "nobody"]

(* The pool draws into, and destroys, only buffers that are its own.       *)
OwnershipSpec == Ownership!Spec
=============================================================================
