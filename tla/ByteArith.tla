----------------------------- MODULE ByteArith ------------------------------
(***************************************************************************)
(* The byte arithmetic of the ramdisk at full width, where RamDisk scales  *)
(* byte counts down:                                                       *)
(*                                                                         *)
(*   - st_blocks of ramdisk_stat and ramdisk_fstat:                        *)
(*         st->st_blocks = f->datasize >> 10;                              *)
(*         if(f->datasize & 0x3ff) ++st->st_blocks;                        *)
(*   - the new position of ramdisk_seek, where fh[fd].ptr and the size are *)
(*     uint32, offset is a 32-bit off_t, "(uint32)-offset" negates in      *)
(*     32 bits and "ptr += offset" wraps modulo 2^32.  TLC's integers are  *)
(*     32-bit, so the width is the constant Width and the run takes 16:    *)
(*     the arithmetic is the same at every width, with sizes below         *)
(*     2^(Width-1) as the machine's memory keeps them below 2^31.          *)
(*                                                                         *)
(* The variable sweeps a file's datasize over 0..MaxSize, one size per     *)
(* step; for each size the invariants range over the positions and offsets *)
(* at the edges of the arithmetic (0, size, -size, INT_MIN, INT_MAX).      *)
(***************************************************************************)
EXTENDS Integers, Bitwise

CONSTANTS
    MaxSize,    \* the largest datasize checked
    Width       \* the bits of off_t and of uint32 (32 in the build)

ASSUME MaxSize < 2^(Width - 1)

VARIABLE datasize

\* A seeded fault: the "++st->st_blocks" for a partial block is dropped.
StBlocksNoRoundUp(d) == shiftR(d, 10)

\* st_blocks for a node whose datasize is d.
StBlocks(d) == shiftR(d, 10) + (IF (d & 1023) # 0 THEN 1 ELSE 0)

IntMin == -(2^(Width - 1))
IntMax == 2^(Width - 1) - 1

\* A value converted to uint32 (reduced modulo 2^Width).
U32(x) == x % 2^Width

\* "-offset" on a 32-bit int.  For INT_MIN it overflows (undefined); the
\* SH4 build negates in two's complement, which gives INT_MIN back.
Neg32(off) == IF off = IntMin THEN IntMin ELSE -off

\* A seeded fault: the refusal tests ">=" and so refuses seeking back to
\* exactly 0.
RefusedAtEqual(off, base) == off < 0 /\ U32(Neg32(off)) >= base

\* "offset < 0 && ((uint32)-offset) > base": SEEK_CUR and SEEK_END refuse a
\* negative offset that would go back past byte 0.
Refused(off, base) == off < 0 /\ U32(Neg32(off)) > base

Whences == {"SEEK_SET", "SEEK_CUR", "SEEK_END", "other"}

\* ramdisk_seek on an open file at position ptr of size sz: the new
\* position, clamped to the size, or -1 with errno = EINVAL (the handle
\* checks and the update of fh are the Seek action of RamDisk).
SeekWord(ptr, sz, whence, off) ==
    LET moved ==
          CASE whence = "SEEK_SET" -> IF off < 0 THEN -1 ELSE off
            [] whence = "SEEK_CUR" ->
                 IF Refused(off, ptr) THEN -1 ELSE U32(ptr + off)
            [] whence = "SEEK_END" ->
                 IF Refused(off, sz) THEN -1 ELSE U32(sz + off)
            [] OTHER -> -1
    IN  IF moved = -1 THEN -1 ELSE IF moved > sz THEN sz ELSE moved

\* What a seek means in whole numbers: the target is base + offset; one
\* before byte 0 is an error, one past the end stops at the end.
SeekReference(ptr, sz, whence, off) ==
    LET base == CASE whence = "SEEK_SET" -> 0
                  [] whence = "SEEK_CUR" -> ptr
                  [] OTHER -> sz
        target == base + off
    IN  CASE whence = "other" -> -1
          [] target < 0 -> -1
          [] target > sz -> sz
          [] OTHER -> target

\* The positions and offsets at the edges for a file of size sz.
Positions(sz) == {0, 1, sz - 1, sz} \cap 0..sz
Offsets(sz) == {IntMin, IntMin + 1, -sz - 1, -sz, -sz + 1, -1, 0, 1,
                sz, IntMax}

Init == datasize = 0

\* The next datasize of the sweep; it wraps around after MaxSize.
Next == datasize' = (datasize + 1) % (MaxSize + 1)

Spec == Init /\ [][Next]_datasize

TypeOK == datasize \in 0..MaxSize

\* stat and fstat report st_blocks = the number of 1024-byte blocks that
\* hold datasize bytes, rounded up (spec "stat(path) / fstat(handle)"):
\* the shift and the 0x3ff mask must agree at every block boundary.
StBlocksIsCeiling ==
    StBlocks(datasize) = (datasize + 1023) \div 1024

\* ramdisk_seek in uint32 arithmetic gives what the whole-number seek
\* gives: no negative offset (INT_MIN, whose negation overflows, included)
\* wraps the position around, seeking back to exactly byte 0 is allowed,
\* and a position past the end is clamped to the size.
SeekMatchesReference ==
    \A ptr \in Positions(datasize), w \in Whences,
       off \in Offsets(datasize) :
        SeekWord(ptr, datasize, w, off) = SeekReference(ptr, datasize, w, off)

=============================================================================
