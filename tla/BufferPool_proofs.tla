------------------------- MODULE BufferPool_proofs -------------------------
(***************************************************************************)
(* Proofs about BufferPool: the pool draws only into buffers that are its  *)
(* own, and what it does is what BufferOwnership promises.                 *)
(***************************************************************************)
EXTENDS BufferPool, NatInduction, FiniteSetTheorems, TLAPS

(* What the pool keeps true.  BusyIsHeld and SlotsAreStable need each      *)
(* other: a release event finds its buffer by the slot the buffer knows,   *)
(* and two slots never hold one buffer because each buffer knows one slot. *)
PoolInv == TypeOK /\ SlotsAreStable /\ BusyIsHeld

(* The objects on their way in a sequence of release events.               *)
Elements(s) == {s[i] : i \in 1..Len(s)}
Once(s) == \A i, j \in 1..Len(s) : s[i] = s[j] => i = j

(* An empty slot is no buffer.                                             *)
LEMMA NoneIsNoBuffer == None \notin Buffer
BY DEF None, Buffer

(* What next_buffer's search from the first slot finds is one of the slots *)
(* it searched for.                                                        *)
LEMMA SmallestIsIn ==
  ASSUME NEW S \in SUBSET Nat, S # {}
  PROVE  Smallest(S) \in S
BY LeastMember DEF Smallest

-----------------------------------------------------------------------------
(* Sequences of release events.                                            *)

(* A release sent is one more object on its way, the last.                 *)
LEMMA AppendElements ==
  ASSUME NEW s \in Seq(Objects), NEW o \in Objects
  PROVE  /\ Elements(Append(s, o)) = Elements(s) \cup {o}
         /\ Once(s) /\ o \notin Elements(s) => Once(Append(s, o))
<1> DEFINE t == Append(s, o)
<1>1. /\ Len(t) = Len(s) + 1 /\ Len(s) \in Nat
      /\ \A i \in 1..Len(s) : t[i] = s[i]
      /\ t[Len(s) + 1] = o
  OBVIOUS
<1> QED  BY <1>1 DEF Elements, Once

(* A release that arrived is one fewer on its way, the first; if no object *)
(* is on its way twice it is then not on its way any more.                 *)
LEMMA TailElements ==
  ASSUME NEW s \in Seq(Objects), s # <<>>, Once(s)
  PROVE  /\ Head(s) \in Elements(s)
         /\ Elements(Tail(s)) = Elements(s) \ {Head(s)}
         /\ Once(Tail(s))
<1> DEFINE t == Tail(s)
<1>1. /\ Len(s) \in Nat \ {0} /\ Len(t) = Len(s) - 1
      /\ \A i \in 1..Len(t) : t[i] = s[i + 1]
      /\ Head(s) = s[1]
  OBVIOUS
<1>2. \A i \in 2..Len(s) : i - 1 \in 1..Len(t) /\ t[i - 1] = s[i]
  BY <1>1
<1>3. \A i \in 1..Len(t) : i + 1 \in 2..Len(s) /\ t[i] = s[i + 1]
  BY <1>1
<1>4. Head(s) \in Elements(s)
  BY <1>1 DEF Elements
<1>5. Elements(t) = Elements(s) \ {Head(s)}
  <2>1. ASSUME NEW o \in Elements(t)  PROVE  o \in Elements(s) \ {Head(s)}
    BY <1>1, <1>3 DEF Elements, Once
  <2>2. ASSUME NEW o \in Elements(s) \ {Head(s)}  PROVE  o \in Elements(t)
    <3>1. PICK i \in 1..Len(s) : o = s[i]
      BY DEF Elements
    <3>2. i \in 2..Len(s)
      BY <3>1, <1>1
    <3> QED  BY <3>1, <3>2, <1>2 DEF Elements
  <2> QED  BY <2>1, <2>2
<1>6. Once(t)
  BY <1>1, <1>3 DEF Once
<1> QED  BY <1>4, <1>5, <1>6

-----------------------------------------------------------------------------
(* Slots.                                                                  *)

(* Only idle buffers are culled.                                           *)
LEMMA CullTypes ==
  ASSUME TypeOK
  PROVE  /\ Len(slots) \in Nat
         /\ \A i \in Live : i \in Slot /\ slots[i] \in Buffer
         /\ Culled \subseteq Idle /\ Idle \subseteq Live
         /\ Kept \in Seq(Buffer \cup {None}) /\ Len(Kept) = Len(slots)
BY DEF TypeOK, Live, Slot, Culled, Idle, Kept

(* The slot a new buffer goes to is no busy one's: it is an idle buffer's  *)
(* that was not culled, an empty one, or a new one at the end.             *)
LEMMA ReplacedIsNotBusy ==
  ASSUME TypeOK, NEW size
  PROVE  /\ Replaced(size) \in 1..(Len(slots) + 1)
         /\ Replaced(size) \notin Busy
<1> USE CullTypes
<1>1. CASE Mismatched(size) # {}
  <2>1. Mismatched(size) \subseteq Slot \ Busy
    BY DEF Mismatched, Idle
  <2>2. Mismatched(size) \in SUBSET Nat
    BY <2>1 DEF Slot
  <2>3. Replaced(size) \in Slot \ Busy
    BY <1>1, <2>1, <2>2, SmallestIsIn DEF Replaced
  <2> QED  BY <2>3 DEF Slot
<1>2. CASE Mismatched(size) = {} /\ Free # {}
  <2>1. Free \subseteq Slot \ Busy
    BY NoneIsNoBuffer DEF Free, Kept, Busy, Live, Idle
  <2>2. Free \in SUBSET Nat
    BY <2>1 DEF Slot
  <2>3. Replaced(size) \in Slot \ Busy
    BY <1>2, <2>1, <2>2, SmallestIsIn DEF Replaced
  <2> QED  BY <2>3 DEF Slot
<1>3. CASE Mismatched(size) = {} /\ Free = {}
  BY <1>3 DEF Replaced, Busy, Live, Slot
<1> QED  BY <1>1, <1>2, <1>3

(* What a frame does to the slots: slot i holds the buffer drawn into and  *)
(* the other slots are what the cull left of them.                         *)
LEMMA PlacedSlots ==
  ASSUME TypeOK, NEW i \in 1..(Len(slots) + 1), NEW b \in Buffer
  PROVE  /\ Placed(i, b) \in Seq(Buffer \cup {None})
         /\ 1..Len(Placed(i, b)) = Slot \cup {i}
         /\ Placed(i, b)[i] = b
         /\ \A j \in Slot \ {i} :
              Placed(i, b)[j] = IF j \in Culled THEN None ELSE slots[j]
<1> USE CullTypes
<1>1. CASE i > Len(slots)
  <2>1. i = Len(Kept) + 1
    BY <1>1
  <2>2. Placed(i, b) = Append(Kept, b)
    BY <1>1 DEF Placed
  <2> QED  BY <2>1, <2>2 DEF Slot, Kept
<1>2. CASE ~(i > Len(slots))
  <2>1. i \in 1..Len(Kept)
    BY <1>2
  <2>2. Placed(i, b) = [Kept EXCEPT ![i] = b]
    BY <1>2 DEF Placed
  <2> QED  BY <2>1, <2>2 DEF Slot, Kept
<1> QED  BY <1>1, <1>2

(* Both ways to draw a frame: buffer b goes to slot i, which is no busy    *)
(* one's, and neither the compositor nor another slot has its object.      *)
Draws(i, b) ==
  /\ phase = "open"
  /\ i \in 1..(Len(slots) + 1) /\ i \notin Busy
  /\ b \in Buffer /\ b.busy
  /\ b.object \notin held \cup InFlight
  /\ \A j \in Live \ {i} : slots[j].object # b.object
  /\ slots' = Placed(i, b)
  /\ slotOf' \in [Objects -> Nat]
  /\ slotOf'[b.object] = i
  /\ \A o \in Objects \ {b.object} : slotOf'[o] = slotOf[o]
  /\ held' = held \cup {b.object}
  /\ released' = released /\ phase' = phase

(* What a frame leaves: the busy slots and the one drawn into are busy.    *)
LEMMA DrawnSlots ==
  ASSUME PoolInv, NEW i, NEW b, Draws(i, b)
  PROVE  /\ slots' \in Seq(Buffer \cup {None})
         /\ Live' = (Live \ Culled) \cup {i}
         /\ Busy' = Busy \cup {i}
         /\ slots'[i] = b
         /\ \A j \in Live' \ {i} : j \in Live \ Culled /\ slots'[j] = slots[j]
<1> USE CullTypes DEF PoolInv
<1>1. /\ slots' \in Seq(Buffer \cup {None})
      /\ Slot' = Slot \cup {i}
      /\ slots'[i] = b
      /\ \A j \in Slot \ {i} : slots'[j] = IF j \in Culled THEN None ELSE slots[j]
  BY PlacedSlots DEF Draws, Slot
<1>2. Live' = (Live \ Culled) \cup {i}
  BY <1>1, NoneIsNoBuffer DEF Live, Draws
<1>3. \A j \in Live' \ {i} : j \in Live \ Culled /\ slots'[j] = slots[j]
  BY <1>1, <1>2
<1>4. Busy' = Busy \cup {i}
  BY <1>1, <1>2, <1>3 DEF Busy, Idle, Draws
<1> QED  BY <1>1, <1>2, <1>3, <1>4

LEMMA DrawsKeepInv ==
  ASSUME PoolInv, NEW i, NEW b, Draws(i, b)
  PROVE  PoolInv'
<1> USE CullTypes, DrawnSlots
<1>1. TypeOK'
  BY DEF PoolInv, TypeOK, Draws, Buffer
<1>2. SlotsAreStable'
  <2> SUFFICES ASSUME NEW j \in Live'  PROVE  slotOf'[slots'[j].object] = j
    BY DEF SlotsAreStable
  <2>1. CASE j = i
    BY <2>1 DEF Draws
  <2>2. CASE j # i
    <3>1. j \in Live /\ slots'[j] = slots[j] /\ slots[j] \in Buffer
      BY <2>2 DEF PoolInv
    <3>2. slots[j].object \in Objects \ {b.object}
      BY <2>2, <3>1 DEF Draws, Buffer
    <3> QED  BY <3>1, <3>2 DEF Draws, PoolInv, SlotsAreStable
  <2> QED  BY <2>1, <2>2
<1>3. BusyIsHeld'
  <2>1. {slots'[j].object : j \in Busy'} = {slots[j].object : j \in Busy} \cup {b.object}
    <3>1. \A j \in Busy : j \in Live' \ {i}
      BY DEF Draws, Busy
    <3> QED  BY <3>1
  <2>2. InFlight' = InFlight /\ Once(released')
    BY DEF InFlight, Once, Draws, PoolInv, BusyIsHeld
  <2>3. held' \cup InFlight' = {slots'[j].object : j \in Busy'}
    BY <2>1, <2>2 DEF Draws, PoolInv, BusyIsHeld
  <2>4. held' \cap InFlight' = {}
    BY <2>2 DEF Draws, PoolInv, BusyIsHeld
  <2> QED  BY <2>2, <2>3, <2>4 DEF BusyIsHeld, Once
<1> QED  BY <1>1, <1>2, <1>3 DEF PoolInv

(* Two slots never hold one buffer, and an idle slot's buffer is not the   *)
(* compositor's.                                                           *)
LEMMA IdleIsOurs ==
  ASSUME PoolInv
  PROVE  /\ \A i, j \in Live : slots[i].object = slots[j].object => i = j
         /\ phase = "open" => \A i \in Idle : slots[i].object \notin held \cup InFlight
<1>1. \A i, j \in Live : slots[i].object = slots[j].object => i = j
  BY DEF PoolInv, SlotsAreStable
<1> QED  BY <1>1 DEF PoolInv, BusyIsHeld, Idle, Busy

(* A frame drawn into an idle buffer of its size, or into a new buffer.    *)
LEMMA AgainDraws ==
  ASSUME PoolInv, NEW size, DrawAgain(size)
  PROVE  \E i, b : Draws(i, b) /\ i \in Idle \ Culled
<1> USE CullTypes DEF PoolInv
<1> DEFINE i == Smallest(Matching(size))
           b == [slots[i] EXCEPT !.busy = TRUE]
<1>1. i \in Matching(size)
  <2>1. Matching(size) \in SUBSET Nat
    BY DEF Matching, Idle, Live, Slot
  <2> QED  BY <2>1, SmallestIsIn DEF DrawAgain
<1>2. i \in Idle /\ i \in Live /\ i \notin Busy /\ i \in 1..(Len(slots) + 1)
  BY <1>1 DEF Matching, Idle, Live, Slot
<1> HIDE DEF i
<1>3. b \in Buffer /\ b.busy /\ b.object = slots[i].object
  BY <1>2 DEF Buffer
<1>4. /\ phase = "open" /\ phase' = phase /\ released' = released
      /\ slots' = Placed(i, b) /\ slotOf' = slotOf /\ held' = held \cup {b.object}
  BY <1>3 DEF DrawAgain, i
<1> HIDE DEF b
<1>5. /\ b.object \notin held \cup InFlight
      /\ \A j \in Live \ {i} : slots[j].object # b.object
  BY <1>2, <1>3, <1>4, IdleIsOurs
<1>6. slotOf' \in [Objects -> Nat] /\ slotOf'[b.object] = i
  BY <1>2, <1>3, <1>4 DEF TypeOK, SlotsAreStable
<1>7. Draws(i, b)
  BY <1>2, <1>3, <1>4, <1>5, <1>6 DEF Draws
<1>8. i \in Idle \ Culled
  BY <1>1 DEF Matching
<1> QED  BY <1>7, <1>8

LEMMA NewDraws ==
  ASSUME PoolInv, NEW size \in Sizes, NEW o \in Objects, DrawNew(size, o)
  PROVE  \E i, b : Draws(i, b) /\ (Idle \ Culled # {} => i \in Idle \ Culled)
<1> USE CullTypes DEF PoolInv
<1> DEFINE i == Replaced(size)
           b == [object |-> o, size |-> size, busy |-> TRUE]
<1>1. i \in 1..(Len(slots) + 1) /\ i \notin Busy
  BY ReplacedIsNotBusy
<1>2. b \in Buffer /\ b.busy /\ b.object = o
  BY DEF Buffer
<1>3. /\ o \notin held \cup InFlight
      /\ \A j \in Live \ {i} : slots[j].object # o
  BY DEF DrawNew, Fresh, Existing
<1>4. /\ phase = "open" /\ phase' = phase /\ released' = released
      /\ slots' = Placed(i, b) /\ held' = held \cup {o}
      /\ slotOf' = [slotOf EXCEPT ![o] = i]
  BY DEF DrawNew
<1>5. Idle \ Culled # {} => i \in Idle \ Culled
  <2>1. Idle \ Culled = Mismatched(size)
    BY DEF DrawNew, Matching, Mismatched
  <2>2. Mismatched(size) \in SUBSET Nat
    BY DEF Mismatched, Idle, Live, Slot
  <2> QED  BY <2>1, <2>2, SmallestIsIn DEF Replaced
<1> HIDE DEF i, b
<1>6. /\ slotOf' \in [Objects -> Nat] /\ slotOf'[o] = i
      /\ \A p \in Objects \ {o} : slotOf'[p] = slotOf[p]
  BY <1>1, <1>4 DEF TypeOK
<1>7. Draws(i, b)
  BY <1>1, <1>2, <1>3, <1>4, <1>6 DEF Draws
<1> QED  BY <1>5, <1>7

(* A buffer that cannot be made: the cull has happened.                    *)
LEMMA CulledSlots ==
  ASSUME TypeOK, slots' = Kept
  PROVE  /\ slots' \in Seq(Buffer \cup {None})
         /\ Live' = Live \ Culled /\ Busy' = Busy
         /\ \A j \in Live' : slots'[j] = slots[j]
<1> USE CullTypes
<1>1. Slot' = Slot /\ \A j \in Slot : slots'[j] = IF j \in Culled THEN None ELSE slots[j]
  BY DEF Slot, Kept
<1>2. Live' = Live \ Culled /\ \A j \in Live' : slots'[j] = slots[j]
  BY <1>1 DEF Live
<1>3. Busy' = Busy
  BY <1>2 DEF Busy, Idle
<1> QED  BY <1>2, <1>3

(* What the release of a buffer does when the event arrives: it was still  *)
(* the compositor's, in the slot it knows, and that slot is idle now.      *)
LEMMA DispatchedSlots ==
  ASSUME PoolInv, DispatchRelease
  PROVE  LET o == Head(released) IN
           /\ o \in InFlight /\ InFlight' = InFlight \ {o} /\ Once(released')
           /\ slotOf[o] \in Busy /\ slots[slotOf[o]].object = o
           /\ slots' \in Seq(Buffer \cup {None})
           /\ Live' = Live /\ Busy' = Busy \ {slotOf[o]}
           /\ \A j \in Live : slots'[j].object = slots[j].object
<1> USE CullTypes DEF PoolInv
<1> DEFINE o == Head(released)
           k == slotOf[o]
<1>1. /\ o \in InFlight /\ InFlight' = InFlight \ {o} /\ Once(released')
  <2>1. InFlight = Elements(released) /\ InFlight' = Elements(released')
    BY DEF InFlight, Elements
  <2>2. /\ released \in Seq(Objects) /\ released # <<>> /\ Once(released)
        /\ released' = Tail(released)
    BY DEF DispatchRelease, TypeOK, BusyIsHeld, Once
  <2> QED  BY <2>1, <2>2, TailElements
<1>2. PICK i \in Busy : slots[i].object = o
  BY <1>1 DEF BusyIsHeld, DispatchRelease
<1>3. k = i /\ k \in Live /\ k \in Slot
  BY <1>2 DEF SlotsAreStable, Busy
<1>4. o \in Existing
  BY <1>2, <1>3 DEF Existing
<1> DEFINE b == [slots[k] EXCEPT !.busy = FALSE]
<1>5. slots' = [slots EXCEPT ![k] = b]
  BY <1>3, <1>4 DEF DispatchRelease
<1>6. b \in Buffer /\ ~b.busy /\ b.object = slots[k].object
  BY <1>3 DEF Buffer
<1> HIDE DEF k, o, b
<1>7. /\ Slot' = Slot /\ slots'[k] = b
      /\ \A j \in Slot \ {k} : slots'[j] = slots[j]
      /\ slots' \in Seq(Buffer \cup {None})
  BY <1>3, <1>5, <1>6 DEF TypeOK, Slot
<1>8. Live' = Live /\ \A j \in Live : slots'[j].object = slots[j].object
  BY <1>3, <1>6, <1>7, NoneIsNoBuffer DEF Live
<1>9. Busy' = Busy \ {k}
  BY <1>3, <1>6, <1>7, <1>8 DEF Busy
<1> QED  BY <1>1, <1>2, <1>3, <1>7, <1>8, <1>9 DEF o, k

-----------------------------------------------------------------------------
(* The invariant.                                                          *)

LEMMA InitPool == Init => PoolInv
<1> SUFFICES ASSUME Init  PROVE  PoolInv
  OBVIOUS
<1>1. slots = <<>> /\ released = <<>> /\ held = {} /\ Live = {} /\ Busy = {}
  BY DEF Init, Live, Slot, Busy
<1>2. TypeOK /\ SlotsAreStable
  BY <1>1 DEF Init, TypeOK, SlotsAreStable
<1>3. BusyIsHeld
  BY <1>1 DEF BusyIsHeld, InFlight
<1> QED  BY <1>2, <1>3 DEF PoolInv

LEMMA NextPool == PoolInv /\ [Next]_vars => PoolInv'
<1> SUFFICES ASSUME PoolInv, [Next]_vars  PROVE  PoolInv'
  OBVIOUS
<1>1. ASSUME NEW size \in Sizes, DrawAgain(size)  PROVE  PoolInv'
  BY <1>1, AgainDraws, DrawsKeepInv
<1>2. ASSUME NEW size \in Sizes, NEW o \in Objects, DrawNew(size, o)
      PROVE  PoolInv'
  BY <1>2, NewDraws, DrawsKeepInv
<1>3. ASSUME NEW size \in Sizes, NoMemory(size)  PROVE  PoolInv'
  <2>1. TypeOK /\ slots' = Kept
    BY <1>3 DEF NoMemory, PoolInv
  <2>2. TypeOK' /\ SlotsAreStable'
    BY <1>3, <2>1, CulledSlots DEF NoMemory, PoolInv, TypeOK, SlotsAreStable
  <2>3. BusyIsHeld'
    BY <1>3 DEF NoMemory, BusyIsHeld
  <2> QED  BY <2>2, <2>3 DEF PoolInv
<1>4. ASSUME NEW o \in Objects, Release(o)  PROVE  PoolInv'
  <2>1. /\ phase = "open" /\ o \in held /\ held' = held \ {o}
        /\ released \in Seq(Objects) /\ released' = Append(released, o)
    BY <1>4 DEF Release, PoolInv, TypeOK
  <2>2. TypeOK' /\ SlotsAreStable' /\ Busy' = Busy
    BY <1>4, <2>1 DEF Release, PoolInv, TypeOK, SlotsAreStable, Live, Slot, Busy
  <2>3. InFlight = Elements(released) /\ InFlight' = Elements(released')
    BY DEF InFlight, Elements
  <2>4. Once(released) /\ o \notin Elements(released)
    BY <2>1, <2>3 DEF PoolInv, BusyIsHeld, Once
  <2>5. InFlight' = InFlight \cup {o} /\ Once(released')
    BY <2>1, <2>3, <2>4, AppendElements
  <2>6. {slots'[i].object : i \in Busy'} = {slots[i].object : i \in Busy}
    BY <1>4, <2>2 DEF Release
  <2>7. held' \cup InFlight' = {slots'[i].object : i \in Busy'}
    BY <2>1, <2>5, <2>6 DEF PoolInv, BusyIsHeld
  <2>8. held' \cap InFlight' = {}
    BY <2>1, <2>5 DEF PoolInv, BusyIsHeld
  <2>9. BusyIsHeld'
    BY <2>5, <2>7, <2>8 DEF BusyIsHeld, Once
  <2> QED  BY <2>2, <2>9 DEF PoolInv
<1>5. CASE DispatchRelease
  <2> DEFINE o == Head(released)
             k == slotOf[o]
  <2> USE CullTypes
  <2>1. /\ o \in InFlight /\ InFlight' = InFlight \ {o} /\ Once(released')
        /\ k \in Busy /\ slots[k].object = o
        /\ slots' \in Seq(Buffer \cup {None})
        /\ Live' = Live /\ Busy' = Busy \ {k}
        /\ \A j \in Live : slots'[j].object = slots[j].object
    BY <1>5, DispatchedSlots
  <2>2. /\ phase = "open" /\ slotOf' = slotOf /\ held' = held /\ phase' = phase
        /\ released' \in Seq(Objects)
    BY <1>5 DEF DispatchRelease, PoolInv, TypeOK
  <2> HIDE DEF o, k
  <2>3. TypeOK' /\ SlotsAreStable'
    BY <2>1, <2>2 DEF PoolInv, TypeOK, SlotsAreStable
  <2>4. {slots'[j].object : j \in Busy'} = {slots[j].object : j \in Busy} \ {o}
    <3>1. \A j \in Busy : j \in Live
      BY DEF Busy
    <3>2. \A j \in Busy : slots[j].object = o => j = k
      BY <2>1, <3>1, IdleIsOurs
    <3> QED  BY <2>1, <3>1, <3>2
  <2>5. held' \cup InFlight' = {slots'[j].object : j \in Busy'}
    BY <2>1, <2>2, <2>4 DEF PoolInv, BusyIsHeld
  <2>6. held' \cap InFlight' = {}
    BY <2>1, <2>2 DEF PoolInv, BusyIsHeld
  <2>7. BusyIsHeld'
    BY <2>1, <2>5, <2>6 DEF BusyIsHeld, Once
  <2> QED  BY <2>3, <2>7 DEF PoolInv
<1>6. CASE Deinit
  BY <1>6 DEF Deinit, PoolInv, TypeOK, SlotsAreStable, BusyIsHeld, Live, Slot
<1>7. CASE UNCHANGED vars
  <2>1. Live' = Live /\ Busy' = Busy /\ InFlight' = InFlight
    BY <1>7 DEF vars, Live, Slot, Busy, InFlight
  <2> QED  BY <1>7, <2>1 DEF vars, PoolInv, TypeOK, SlotsAreStable, BusyIsHeld
<1> QED  BY <1>1, <1>2, <1>3, <1>4, <1>5, <1>6, <1>7 DEF Next

LEMMA PoolInvariant == Spec => []PoolInv
BY InitPool, NextPool, PTL DEF Spec

(* A slot is busy exactly while the compositor may read its buffer or its  *)
(* release is on its way: next_buffer never gives render a buffer on the   *)
(* screen, and none is lost for good.                                      *)
THEOREM BusyBuffersAreHeld == Spec => []BusyIsHeld
<1>1. PoolInv => BusyIsHeld
  BY DEF PoolInv
<1> QED  BY <1>1, PoolInvariant, PTL

(* The slot in the user data of a wl_buffer is the slot it is in.          *)
THEOREM SlotsStayPut == Spec => []SlotsAreStable
<1>1. PoolInv => SlotsAreStable
  BY DEF PoolInv
<1> QED  BY <1>1, PoolInvariant, PTL

-----------------------------------------------------------------------------
(* The refinement of BufferOwnership.                                      *)

(* The owner the compositor sees of each wl_buffer.                        *)
Theirs == held \cup InFlight
Owner == [o \in Objects |-> IF o \in Theirs THEN "compositor"
                            ELSE IF o \in Existing THEN "client" ELSE "nobody"]

LEMMA Owners ==
  ASSUME PoolInv
  PROVE  /\ Theirs \subseteq Objects /\ Existing \subseteq Objects
         /\ Ownership!Owned("client") = Existing \ Theirs
         /\ Ownership!Owned("compositor") = Theirs
<1>1. Theirs \subseteq Objects /\ Existing \subseteq Objects
  BY CullTypes DEF PoolInv, TypeOK, Theirs, InFlight, Existing, Buffer
<1> QED  BY <1>1 DEF Ownership!Owned, Theirs

(* A buffer handed over while others of the pool's own go.                *)
LEMMA SubmitsOwn ==
  ASSUME PoolInv, NEW gone \in SUBSET (Existing \ Theirs),
         NEW o \in Objects, o \notin Theirs \cup gone,
         Theirs' = Theirs \cup {o}, Existing' = (Existing \ gone) \cup {o}
  PROVE  \E destroyed \in SUBSET Ownership!Owned("client") :
           Ownership!Submit(o, destroyed)
<1>1. o \notin Ownership!Owned("compositor") \cup gone
  BY Owners
<1>2. Owner' = [p \in Objects |-> IF p = o THEN "compositor"
                                  ELSE IF p \in gone THEN "nobody" ELSE Owner[p]]
  BY Owners DEF Owner
<1>3. Ownership!Submit(o, gone)
  BY <1>1, <1>2 DEF Ownership!Submit, Owner, Theirs
<1> QED  BY <1>3, Owners, Zenon

(* A frame hands its buffer to the compositor, and what it destroys, culled *)
(* or replaced, was the pool's own.                                        *)
LEMMA DrawsSubmit ==
  ASSUME PoolInv, NEW i, NEW b, Draws(i, b)
  PROVE  \E destroyed \in SUBSET Ownership!Owned("client") :
           Ownership!Submit(b.object, destroyed)
<1> TypeOK
  BY DEF PoolInv
<1> USE CullTypes, DrawnSlots
<1> DEFINE gone == {slots[j].object : j \in Culled \cup ({i} \cap Live)} \ {b.object}
<1>1. \A j \in Live : slots[j].object \in Objects
  BY DEF PoolInv, Buffer
<1>2. \A j \in Culled \cup ({i} \cap Live) : j \in Idle
  BY DEF Draws, Idle
<1>3. gone \in SUBSET Objects /\ gone \subseteq Existing /\ gone \cap Theirs = {}
  BY <1>1, <1>2, IdleIsOurs DEF Existing, Draws, Theirs
<1>4. b.object \in Objects /\ b.object \notin Theirs \cup gone
  BY DEF Draws, Theirs, Buffer
<1>5. Theirs' = Theirs \cup {b.object}
  BY DEF Draws, Theirs, InFlight
<1>6. Existing' = (Existing \ gone) \cup {b.object}
  <2>1. ASSUME NEW j \in Live'  PROVE  slots'[j].object \in (Existing \ gone) \cup {b.object}
    <3>1. CASE j = i
      BY <3>1
    <3>2. CASE j # i
      <4>1. j \in Live \ Culled /\ slots'[j] = slots[j]
        BY <3>2
      <4>2. slots[j].object \notin gone
        BY <4>1, <3>2, IdleIsOurs, <1>2
      <4> QED  BY <4>1, <4>2 DEF Existing
    <3> QED  BY <3>1, <3>2
  <2>2. ASSUME NEW o \in Existing \ gone  PROVE  o \in Existing'
    <3>1. PICK j \in Live : o = slots[j].object
      BY DEF Existing
    <3>2. CASE o = b.object
      BY <3>2 DEF Existing
    <3>3. CASE o # b.object
      <4>1. j \notin Culled /\ j # i
        BY <3>1, <3>3, <2>2
      <4>2. j \in Live' /\ slots'[j] = slots[j]
        BY <3>1, <4>1
      <4> QED  BY <3>1, <4>2 DEF Existing
    <3> QED  BY <3>2, <3>3
  <2>3. b.object \in Existing'
    BY DEF Existing
  <2> QED  BY <2>1, <2>2, <2>3 DEF Existing
<1> HIDE DEF gone
<1> QED  BY <1>3, <1>4, <1>5, <1>6, SubmitsOwn

(* Buffers that go without a frame: those the cull took before the pool    *)
(* ran out of memory, or all of them at the end, except that a buffer the  *)
(* compositor still reads stays its own.                                   *)
LEMMA DiscardsOwn ==
  ASSUME PoolInv, NEW gone \in SUBSET (Existing \ Theirs),
         Existing' \cup Theirs = (Existing \ gone) \cup Theirs, Theirs' = Theirs
  PROVE  \E destroyed \in SUBSET Ownership!Owned("client") :
           Ownership!Discard(destroyed)
<1>1. Owner' = [p \in Objects |-> IF p \in gone THEN "nobody" ELSE Owner[p]]
  BY Owners DEF Owner
<1>2. Ownership!Discard(gone)
  BY <1>1 DEF Ownership!Discard, Owner, Theirs
<1> QED  BY <1>2, Owners, Zenon

(* A buffer of a slot whose release arrived is the pool's again.           *)
LEMMA ReturnsOwn ==
  ASSUME PoolInv, NEW o \in Theirs, o \in Existing,
         Theirs' = Theirs \ {o}, Existing' = Existing
  PROVE  \E p \in Objects : Ownership!Return(p)
<1>1. o \in Objects
  BY Owners
<1>2. Owner[o] = "compositor" /\ Owner' = [Owner EXCEPT ![o] = "client"]
  BY <1>1 DEF Owner
<1>3. Ownership!Return(o)
  BY <1>2 DEF Ownership!Return, Owner, Theirs
<1> QED  BY <1>1, <1>3, Zenon

LEMMA OwnershipStep ==
  PoolInv /\ PoolInv' /\ [Next]_vars => Ownership!Next \/ UNCHANGED Owner
<1> SUFFICES ASSUME PoolInv, PoolInv', [Next]_vars
             PROVE  Ownership!Next \/ UNCHANGED Owner
  OBVIOUS
<1> USE CullTypes
<1>0. TypeOK
  BY DEF PoolInv
<1>1. ASSUME NEW i, NEW b, Draws(i, b)  PROVE  Ownership!Next
  <2>1. b.object \in Objects
    BY <1>1 DEF Draws, Buffer
  <2> QED  BY <1>1, <2>1, DrawsSubmit DEF Ownership!Next
<1>2. ASSUME NEW size \in Sizes, DrawAgain(size)  PROVE  Ownership!Next
  BY <1>1, <1>2, AgainDraws
<1>3. ASSUME NEW size \in Sizes, NEW o \in Objects, DrawNew(size, o)
      PROVE  Ownership!Next
  BY <1>1, <1>3, NewDraws
<1>4. ASSUME NEW size \in Sizes, NoMemory(size)  PROVE  Ownership!Next
  <2> DEFINE gone == {slots[j].object : j \in Culled}
  <2>1. phase = "open" /\ slots' = Kept /\ Theirs' = Theirs
    BY <1>4 DEF NoMemory, Theirs, InFlight
  <2>2. gone \in SUBSET (Existing \ Theirs)
    BY <1>0, <2>1, IdleIsOurs DEF Existing, Theirs
  <2>3. Existing' = Existing \ gone
    <3>1. Existing' = {slots[j].object : j \in Live \ Culled}
      BY <1>0, <2>1, CulledSlots DEF Existing
    <3> QED  BY <1>0, <3>1, IdleIsOurs DEF Existing
  <2> QED  BY <2>1, <2>2, <2>3, DiscardsOwn DEF Ownership!Next
<1>5. CASE Deinit
  <2>1. Existing' = {} /\ Theirs' = Theirs
    BY <1>5 DEF Deinit, Existing, Live, Slot, Theirs, InFlight
  <2> QED  BY <2>1, DiscardsOwn DEF Ownership!Next
<1>6. ASSUME NEW o \in Objects, Release(o)  PROVE  UNCHANGED Owner
  <2>1. /\ o \in held /\ held' = held \ {o} /\ Existing' = Existing
        /\ released \in Seq(Objects) /\ released' = Append(released, o)
    BY <1>6 DEF Release, PoolInv, TypeOK, Existing, Live, Slot
  <2>2. InFlight' = InFlight \cup {o}
    BY <2>1, AppendElements DEF InFlight, Elements
  <2> QED  BY <2>1, <2>2 DEF Owner, Theirs
<1>7. CASE DispatchRelease
  <2> DEFINE o == Head(released)
             k == slotOf[o]
  <2>1. /\ o \in InFlight /\ InFlight' = InFlight \ {o}
        /\ k \in Busy /\ slots[k].object = o /\ Live' = Live
        /\ \A j \in Live : slots'[j].object = slots[j].object
    BY <1>7, DispatchedSlots
  <2>2. held' = held /\ phase = "open"
    BY <1>7 DEF DispatchRelease
  <2> HIDE DEF o, k
  <2>3. Existing' = Existing /\ o \in Existing
    BY <2>1 DEF Existing, Busy
  <2>4. o \in Theirs /\ Theirs' = Theirs \ {o}
    BY <2>1, <2>2 DEF PoolInv, BusyIsHeld, Theirs
  <2> QED  BY <2>3, <2>4, ReturnsOwn DEF Ownership!Next
<1>8. CASE UNCHANGED vars
  BY <1>8 DEF vars, Owner, Theirs, InFlight, Existing, Live, Slot
<1> QED  BY <1>2, <1>3, <1>4, <1>5, <1>6, <1>7, <1>8 DEF Next

(* The pool implements BufferOwnership: whatever is drawn, culled,         *)
(* replaced, released and freed, a buffer the compositor was given is      *)
(* neither drawn into nor destroyed before its release event arrived.      *)
THEOREM PoolKeepsOwnership == Spec => OwnershipSpec
<1>1. Init => Ownership!Init
  BY DEF Init, Ownership!Init, InFlight, Existing, Live, Slot
<1>2. PoolInv /\ PoolInv' /\ [Next]_vars
        => [Ownership!Next]_[o \in Objects |->
                               IF o \in held \cup InFlight THEN "compositor"
                               ELSE IF o \in Existing THEN "client" ELSE "nobody"]
  BY OwnershipStep DEF Owner, Theirs
<1> QED  BY <1>1, <1>2, PoolInvariant, PTL DEF Spec, OwnershipSpec, Ownership!Spec

-----------------------------------------------------------------------------
(* How many buffers a frame leaves.                                        *)

(* Of a finite set of slots, the members with fewer than n before them are *)
(* n, or all of them if there are no more.                                 *)
LEMMA FirstFew ==
  ASSUME NEW S \in SUBSET Nat, IsFiniteSet(S), NEW n \in Nat
  PROVE  LET F == {i \in S : Cardinality({j \in S : j < i}) < n}
         IN  F = S \/ Cardinality(F) = n
<1> DEFINE Before(i) == {j \in S : j < i}
           F == {i \in S : Cardinality(Before(i)) < n}
           c == Cardinality(S)
           rank == [i \in S |-> Cardinality(Before(i))]
<1>1. c \in Nat
  BY FS_CardinalityType
<1>2. ASSUME NEW i \in S
      PROVE  IsFiniteSet(Before(i)) /\ Cardinality(Before(i)) \in 0..(c - 1)
  <2>1. Before(i) \in SUBSET S /\ i \notin Before(i)
    OBVIOUS
  <2> HIDE DEF Before
  <2>2. /\ IsFiniteSet(Before(i)) /\ Cardinality(Before(i)) <= c
        /\ Cardinality(Before(i)) # c
    BY <2>1, FS_Subset
  <2>3. Cardinality(Before(i)) \in Nat
    BY <2>2, FS_CardinalityType
  <2> QED  BY <1>1, <2>2, <2>3
<1>3. ASSUME NEW i \in S, NEW k \in S, i < k
      PROVE  Cardinality(Before(i)) # Cardinality(Before(k))
  <2>0. i \in Nat /\ k \in Nat /\ \A j \in S : j \in Nat /\ (j < i => j < k)
    BY <1>3
  <2>1. Before(i) \in SUBSET Before(k) /\ i \in Before(k) /\ i \notin Before(i)
    <3>1. \A j \in Before(i) : j \in Before(k)
      BY <2>0
    <3>2. i \in Before(k)
      BY <1>3
    <3>3. i \notin Before(i)
      BY <2>0
    <3> HIDE DEF Before
    <3> QED  BY <3>1, <3>2, <3>3
  <2>2. IsFiniteSet(Before(k))
    BY <1>2
  <2> HIDE DEF Before
  <2> QED  BY <2>1, <2>2, FS_Subset
<1>4. \A i, k \in S : rank[i] = rank[k] => i = k
  <2> SUFFICES ASSUME NEW i \in S, NEW k \in S, i # k  PROVE  rank[i] # rank[k]
    OBVIOUS
  <2>1. i < k \/ k < i
    OBVIOUS
  <2> QED  BY <2>1, <1>3
<1>5. \A i \in S : rank[i] = Cardinality(Before(i))
  OBVIOUS
<1>6. rank \in [S -> 0..(c - 1)]
  BY <1>2
<1>7. F = {i \in S : rank[i] < n}
  OBVIOUS
<1> HIDE DEF rank, Before, F
<1>8. rank \in Surjection(S, 0..(c - 1))
  <2>1. rank \in Injection(S, 0..(c - 1))
    BY <1>4, <1>6 DEF Injection, IsInjective
  <2>2. IsFiniteSet(0..(c - 1)) /\ Cardinality(0..(c - 1)) = c
    <3> HIDE DEF c
    <3>1. c - 1 \in Int /\ (0 > c - 1 => c = 0) /\ (c - 1) - 0 + 1 = c
      BY <1>1
    <3> QED  BY <3>1, FS_Interval
  <2> HIDE DEF c
  <2> QED  BY <2>1, <2>2, FS_Injection DEF c
<1>9. CASE c <= n
  <2>1. \A i \in S : rank[i] < n
    BY <1>1, <1>6, <1>9
  <2> QED  BY <1>7, <2>1 DEF F, Before
<1>10. CASE n < c
  <2> DEFINE f == [i \in F |-> rank[i]]
  <2>1. F \subseteq S /\ f \in [F -> 0..(n - 1)]
    BY <1>6, <1>7
  <2>2. f \in Injection(F, 0..(n - 1))
    BY <1>4, <2>1 DEF Injection, IsInjective
  <2>3. \A m \in 0..(n - 1) : \E i \in F : f[i] = m
    <3> SUFFICES ASSUME NEW m \in 0..(n - 1)  PROVE  \E i \in F : f[i] = m
      OBVIOUS
    <3>1. m \in 0..(c - 1) /\ m < n
      BY <1>1, <1>10
    <3>2. PICK i \in S : rank[i] = m
      BY <1>8, <3>1 DEF Surjection
    <3>3. i \in F
      BY <1>7, <3>1, <3>2
    <3> QED  BY <3>2, <3>3
  <2>4. f \in Surjection(F, 0..(n - 1))
    BY <2>1, <2>3 DEF Surjection
  <2>5. IsFiniteSet(0..(n - 1)) /\ Cardinality(0..(n - 1)) = n
    BY FS_Interval
  <2> HIDE DEF f
  <2>6. Cardinality(F) = n
    BY <2>2, <2>4, <2>5, FS_Injection
  <2> QED  BY <2>6 DEF F, Before
<1> QED  BY <1>1, <1>9, <1>10

(* If the cull left an idle buffer it left no more than allowed.           *)
LEMMA CullIsEnough ==
  ASSUME TypeOK, Idle \ Culled # {}
  PROVE  Cardinality(Live \ Culled) <= MaxBufferMultiplicity
<1> USE CullTypes, MultiplicityAssumption
<1>1. IsFiniteSet(Live) /\ Live \in SUBSET Nat /\ Cardinality(Live) \in Nat
  <2>1. IsFiniteSet(Slot) /\ Live \in SUBSET Slot
    BY FS_Interval DEF Slot, Live
  <2>2. IsFiniteSet(Live)
    BY <2>1, FS_Subset
  <2> QED  BY <2>1, <2>2, FS_CardinalityType DEF Slot
<1>2. IsFiniteSet(Idle) /\ Idle \in SUBSET Nat
  BY <1>1, FS_Subset
<1>3. Overhead \in Nat
  BY <1>1 DEF Overhead
<1>4. Cardinality(Culled) = Overhead
  <2>1. Culled = Idle \/ Cardinality(Culled) = Overhead
    BY <1>2, <1>3, FirstFew DEF Culled
  <2> QED  BY <2>1
<1>5. Cardinality(Live \ Culled) = Cardinality(Live) - Overhead
  <2>1. Live \cap Culled = Culled
    OBVIOUS
  <2>2. Cardinality(Live \ Culled) = Cardinality(Live) - Cardinality(Live \cap Culled)
    BY <1>1, FS_Difference
  <2> QED  BY <1>4, <2>1, <2>2
<1> QED  BY <1>1, <1>5 DEF Overhead

(* A frame leaves no more buffers than MAX_BUFFER_MULTIPLICITY, or none    *)
(* but those the compositor has: next_buffer's cull takes enough.          *)
THEOREM PoolShrinksBack == Spec => PoolShrinks
<1>1. ASSUME PoolInv, NEW i, NEW b, Draws(i, b),
             Idle \ Culled # {} => i \in Idle \ Culled
      PROVE  Cardinality(Live') <= MaxBufferMultiplicity \/ Live' = Busy'
  <2>0. TypeOK
    BY <1>1 DEF PoolInv
  <2>1. Live' = (Live \ Culled) \cup {i} /\ Busy' = Busy \cup {i}
    BY <1>1, DrawnSlots
  <2>2. CASE Idle \ Culled = {}
    BY <2>0, <2>1, <2>2, CullTypes DEF Idle, Busy
  <2>3. CASE Idle \ Culled # {}
    <3>1. Live' = Live \ Culled
      BY <1>1, <2>1, <2>3 DEF Idle
    <3> QED  BY <2>0, <2>3, <3>1, CullIsEnough
  <2> QED  BY <2>2, <2>3
<1>2. ASSUME PoolInv, [Next]_vars, phase' = "open", held' \ held # {}
      PROVE  Cardinality(Live') <= MaxBufferMultiplicity \/ Live' = Busy'
  <2>1. \/ \E size \in Sizes : DrawAgain(size)
        \/ \E size \in Sizes, o \in Objects : DrawNew(size, o)
    BY <1>2 DEF Next, NoMemory, Deinit, Release, DispatchRelease, vars
  <2>2. \E i, b : Draws(i, b) /\ (Idle \ Culled # {} => i \in Idle \ Culled)
    BY <1>2, <2>1, AgainDraws, NewDraws
  <2> QED  BY <1>1, <1>2, <2>2
<1>3. PoolInv /\ [Next]_vars
        => [phase' = "open" /\ held' \ held # {} =>
              Cardinality(Live') <= MaxBufferMultiplicity \/ Live' = Busy']_vars
  BY <1>2
<1> QED  BY <1>3, PoolInvariant, PTL DEF Spec, PoolShrinks
=============================================================================
