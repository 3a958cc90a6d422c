---------------------------- MODULE SecretBuffer ----------------------------
(***************************************************************************)
(* The page that holds the passphrase (src/secret.rs): mmap, mlock and     *)
(* madvise, append and delete by codepoint, reset and drop, each system    *)
(* call free to fail.                                                      *)
(*                                                                         *)
(* A byte is the codepoint it belongs to and its place in it, so that only *)
(* place 0 is a lead byte.  What an unmapped page held stays in `mem': it  *)
(* is still in the machine.  The retries on EAGAIN are part of the outcome *)
(* of a call; the best-effort MADV_WIPEONFORK is left out.                 *)
(***************************************************************************)
EXTENDS Naturals, Sequences, FiniteSets

CONSTANTS
  Chars,      \* codepoints
  NUL,        \* the codepoint of a zero byte
  Width,      \* the UTF-8 length of each codepoint
  Slices,     \* the texts the callers append
  Capacity,   \* the bytes one page holds
  Pages,      \* page addresses
  Ignores     \* the caller goes on after reset failed, as the terminal does on Ctrl-U

ASSUME WidthAssumption == NUL \in Chars /\ Width \in [Chars -> 1..4] /\ Width[NUL] = 1
ASSUME SlicesAssumption == Slices \subseteq Seq(Chars)
ASSUME PageAssumption == Capacity \in Nat \ {0} /\ Pages # {}
ASSUME IgnoresAssumption == Ignores \in BOOLEAN

VARIABLES
  phase,     \* "none", "live", "failed" (an error was returned), "gone", "crashed"
  ptr,       \* SecretBuffer::ptr
  byteLen,   \* SecretBuffer::byte_len
  len,       \* SecretBuffer::len
  mem,       \* the bytes of every page
  mapped,    \* the pages that are mapped
  locked,    \* those that are never swapped out
  undumped   \* those no core dump contains

vars == <<phase, ptr, byteLen, len, mem, mapped, locked, undumped>>

Offset == 0..Capacity-1
Byte == [of: Chars, place: 0..3]
Zero == [of |-> NUL, place |-> 0]
Blank == [o \in Offset |-> Zero]

TypeOK ==
  /\ phase \in {"none", "live", "failed", "gone", "crashed"}
  /\ ptr \in Pages
  /\ byteLen \in 0..Capacity
  /\ len \in 0..byteLen
  /\ mem \in [Pages -> [Offset -> Byte]]
  /\ mapped \subseteq Pages
  /\ locked \subseteq mapped /\ undumped \subseteq mapped

Init ==
  /\ phase = "none"
  /\ ptr \in Pages
  /\ byteLen = 0
  /\ len = 0
  /\ mem = [p \in Pages |-> Blank]
  /\ mapped = {} /\ locked = {} /\ undumped = {}

Dangling == ptr \notin mapped

GivenBack == mapped \ {ptr}

Munmap ==
  /\ mapped' = GivenBack
  /\ locked' = locked \cap GivenBack
  /\ undumped' = undumped \cap GivenBack

-----------------------------------------------------------------------------
(* mmap of a fresh page, then lock_and_protect.                            *)

(* What mlock and madvise(MADV_DONTDUMP) did: nothing, the first, or both. *)
Protection == {{}, {"locked"}, {"locked", "undumped"}}

(* `others' are the pages that stay mapped, `memory' what they hold.       *)
MapFresh(p, done, others, memory) ==
  /\ p \in Pages \ others
  /\ ptr' = p
  /\ mapped' = others \cup {p}
  /\ mem' = [memory EXCEPT ![p] = Blank]
  /\ locked' = (locked \cap others) \cup {q \in {p} : "locked" \in done}
  /\ undumped' = (undumped \cap others) \cup {q \in {p} : "undumped" \in done}
  /\ byteLen' = 0
  /\ len' = 0

(* SecretBuffer::new: the value is dropped when it cannot be protected.    *)
NewFails ==
  /\ phase = "none"
  /\ phase' = "gone"
  /\ UNCHANGED <<ptr, byteLen, len, mem, mapped, locked, undumped>>

New(p) ==
  /\ phase = "none"
  /\ phase' = "live"
  /\ MapFresh(p, {"locked", "undumped"}, mapped, mem)

-----------------------------------------------------------------------------
(* append_slice and delete_backwards.                                      *)

Encode(text) ==
  LET bytes[i \in 0..Len(text)] ==
        IF i = 0 THEN <<>>
        ELSE bytes[i-1] \o [k \in 1..Width[text[i]] |-> [of |-> text[i], place |-> k - 1]]
  IN bytes[Len(text)]

(* Mutant: a slice that does not fit is cut at the end of the page.        *)
AppendCut(slice) ==
  LET bytes == Encode(slice)
      room == IF byteLen + Len(bytes) > Capacity THEN Capacity - byteLen ELSE Len(bytes) IN
  /\ phase = "live" /\ ~Dangling
  /\ mem' = [mem EXCEPT ![ptr] = [o \in Offset |->
               IF o \in byteLen .. byteLen + room - 1 THEN bytes[o - byteLen + 1] ELSE @[o]]]
  /\ byteLen' = byteLen + room
  /\ len' = len + Len(slice)
  /\ UNCHANGED <<phase, ptr, mapped, locked, undumped>>

(* All of the slice or, when it does not fit, nothing.                     *)
AppendSlice(slice) ==
  LET bytes == Encode(slice) IN
  /\ phase = "live" /\ ~Dangling
  /\ byteLen + Len(bytes) <= Capacity
  /\ mem' = [mem EXCEPT ![ptr] = [o \in Offset |->
               IF o \in byteLen .. byteLen + Len(bytes) - 1 THEN bytes[o - byteLen + 1] ELSE @[o]]]
  /\ byteLen' = byteLen + Len(bytes)
  /\ len' = len + Len(slice)
  /\ UNCHANGED <<phase, ptr, mapped, locked, undumped>>

Continuation(o) == mem[ptr][o].place # 0

(* Mutant: one byte is removed, whatever it is.                            *)
LastByte == byteLen - 1

(* Where the last codepoint starts: back over its continuation bytes.      *)
LastStart ==
  CHOOSE i \in 0..byteLen-1 :
    /\ i = 0 \/ ~Continuation(i)
    /\ \A o \in i+1..byteLen-1 : Continuation(o)

DeleteBackwards ==
  /\ phase = "live" /\ ~Dangling
  /\ byteLen > 0
  /\ mem' = [mem EXCEPT ![ptr] =
               [o \in Offset |-> IF o \in LastStart..byteLen-1 THEN Zero ELSE @[o]]]
  /\ byteLen' = LastStart
  /\ len' = IF len = 0 THEN 0 ELSE len - 1
  /\ UNCHANGED <<phase, ptr, mapped, locked, undumped>>

-----------------------------------------------------------------------------
(* reset and drop.                                                         *)

(* Mutant: one byte too few is overwritten.                                *)
ZeroizedShort ==
  [mem EXCEPT ![ptr] = [o \in Offset |-> IF o + 1 < byteLen THEN Zero ELSE @[o]]]

Zeroized == [mem EXCEPT ![ptr] = [o \in Offset |-> IF o < byteLen THEN Zero ELSE @[o]]]

(* zeroize_and_unmap writes to a page that is not mapped: it does not when *)
(* there is nothing to overwrite.                                          *)
ZeroizesUnmapped == byteLen > 0 /\ Dangling

Failed == IF Ignores THEN "live" ELSE "failed"

MunmapFails ==
  /\ phase = "live" /\ ~ZeroizesUnmapped
  /\ phase' = Failed
  /\ mem' = Zeroized
  /\ UNCHANGED <<ptr, byteLen, len, mapped, locked, undumped>>

(* The old page is gone and ptr still names it, with the old lengths.      *)
MmapFails ==
  /\ phase = "live" /\ ~ZeroizesUnmapped
  /\ phase' = Failed
  /\ mem' = Zeroized
  /\ Munmap
  /\ UNCHANGED <<ptr, byteLen, len>>

(* Mutant: reset does not look at what lock_and_protect returns.           *)
ForgetsProtection(done) == "live"

AfterReset(done) == IF done = {"locked", "undumped"} THEN "live" ELSE Failed

ResetTo(p, done) ==
  /\ phase = "live" /\ ~ZeroizesUnmapped
  /\ phase' = AfterReset(done)
  /\ MapFresh(p, done, GivenBack, Zeroized)

(* Drop ignores what munmap returns.                                       *)
Drop ==
  /\ phase \in {"live", "failed"} /\ ~ZeroizesUnmapped
  /\ phase' = "gone"
  /\ mem' = Zeroized
  /\ \/ Munmap
     \/ UNCHANGED <<mapped, locked, undumped>>
  /\ UNCHANGED <<ptr, byteLen, len>>

(* Whatever a page that is not mapped is touched by: an edit after a reset *)
(* that failed and was ignored, another reset, or drop.                    *)
TouchUnmapped ==
  /\ phase \in {"live", "failed"} /\ Dangling
  /\ phase = "live" \/ ZeroizesUnmapped
  /\ phase' = "crashed"
  /\ UNCHANGED <<ptr, byteLen, len, mem, mapped, locked, undumped>>

-----------------------------------------------------------------------------
Next ==
  \/ NewFails
  \/ \E p \in Pages : New(p) \/ (\E done \in Protection : ResetTo(p, done))
  \/ \E slice \in Slices : AppendSlice(slice)
  \/ DeleteBackwards
  \/ MunmapFails \/ MmapFails
  \/ Drop \/ TouchUnmapped

Spec == Init /\ [][Next]_vars

-----------------------------------------------------------------------------
(* A passphrase that can be read, edited or sent is in a page that is      *)
(* mapped, locked and kept out of core dumps, whatever system call failed  *)
(* before.                                                                 *)
SecretIsProtected ==
  phase = "live" /\ byteLen > 0 => ptr \in mapped \cap locked \cap undumped

(* No byte of a passphrase is left in a page that was given back, nor      *)
(* beyond the end of the text in the page that is in use, and no reset     *)
(* forgets a page that is still mapped.                                    *)
NoResidue ==
  /\ mapped \subseteq {ptr}
  /\ \A p \in Pages \ mapped : mem[p] = Blank
  /\ \A o \in Offset : o >= byteLen => mem[ptr][o] = Zero

(* The number of characters the prompt shows is the number of codepoints   *)
(* in the page: no edit splits one.                                        *)
LenCountsCodepoints ==
  phase = "live" => len = Cardinality({o \in 0..byteLen-1 : ~Continuation(o)})

(* The codepoints in the page, each at its lead byte.                      *)
Content ==
  LET chars[o \in 0..byteLen] ==
        IF o = 0 THEN <<>>
        ELSE IF Continuation(o-1) THEN chars[o-1] ELSE Append(chars[o-1], mem[ptr][o-1].of)
  IN chars[byteLen]

Text == INSTANCE SecretText
          WITH text <- IF phase = "live" THEN Content ELSE <<>>,
               status <- CASE phase = "none" -> "closed" [] phase = "live" -> "open" [] OTHER -> "over"

(* Edits are whole, and a buffer that cannot be trusted is not used.       *)
TextSpec == Text!Spec
=============================================================================
