-------------------------- MODULE BufferOwnership --------------------------
(***************************************************************************)
(* What a pool of shared-memory buffers promises the compositor: a buffer  *)
(* it was given belongs to it until it gave the buffer back, and until     *)
(* then the client neither draws into the buffer nor destroys it.          *)
(***************************************************************************)
CONSTANT Objects

VARIABLE owner   \* of each wl_buffer: "nobody", "client" or "compositor"

Owned(who) == {o \in Objects : owner[o] = who}

Init == owner = [o \in Objects |-> "nobody"]

(* The client draws into o, made for this frame or idle before, and hands  *)
(* it over; it may destroy buffers of its own first.                       *)
Submit(o, destroyed) ==
  /\ o \notin Owned("compositor") \cup destroyed
  /\ owner' = [p \in Objects |-> IF p = o THEN "compositor"
                                 ELSE IF p \in destroyed THEN "nobody" ELSE owner[p]]

Discard(destroyed) ==
  owner' = [p \in Objects |-> IF p \in destroyed THEN "nobody" ELSE owner[p]]

(* The client learns that the compositor is done with o.                   *)
Return(o) ==
  /\ owner[o] = "compositor"
  /\ owner' = [owner EXCEPT ![o] = "client"]

Next ==
  \/ \E destroyed \in SUBSET Owned("client") :
       Discard(destroyed) \/ \E o \in Objects : Submit(o, destroyed)
  \/ \E o \in Objects : Return(o)

Spec == Init /\ [][Next]_owner
=============================================================================
