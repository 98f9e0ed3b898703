------------------------------ MODULE FileData ------------------------------
(***************************************************************************)
(* The contents of a file: the strings that read(), write() and setattr()  *)
(* of yfs_client.cc build, against a file as an array of bytes.  A byte    *)
(* that nothing was written to is zero, also where a write or setattr left *)
(* a gap or a truncated file grows again.  The offset of a write keeps its *)
(* low Width bits ((unsigned)off, 32 in the code).                         *)
(***************************************************************************)
EXTENDS Naturals, Sequences

CONSTANTS Byte, Zero, MaxOff, MaxLen, Width

VARIABLES data,     \* the string in the extent
          size,     \* the size of the file that it stands for
          bytes     \* its bytes, of which all from size on are zero

vars == <<data, size, bytes>>

Pos == 0..(MaxOff + MaxLen - 1)

Init == data = <<>> /\ size = 0 /\ bytes = [p \in Pos |-> Zero]

Zeros(n) == [k \in 1..n |-> Zero]

\* std::string::substr(pos, n) for pos <= s.size().
substr(s, pos, n) == SubSeq(s, pos + 1, IF pos + n < Len(s) THEN pos + n ELSE Len(s))

\* The string that write() puts.
Written(ori, buf, off) ==
    LET uoff == off % (2 ^ Width)  end == uoff + Len(buf) IN
    IF uoff <= Len(ori)
    THEN substr(ori, 0, uoff) \o buf
         \o (IF end < Len(ori) THEN substr(ori, end, Len(ori) - end) ELSE <<>>)
    ELSE ori \o Zeros(uoff - Len(ori)) \o buf

\* The string that setattr() puts.
Resized(buf, n) == IF Len(buf) < n THEN buf \o Zeros(n - Len(buf)) ELSE substr(buf, 0, n)

\* Mutant of Read: the fill is one byte short.
Read_short(buf, n, off) ==
    IF off + n > Len(buf) THEN substr(buf, off, Len(buf) - off) \o Zeros(off + n - Len(buf) - 1)
    ELSE substr(buf, off, n)

\* What read() returns; for off > Len(buf), substr() throws.
Read(buf, n, off) ==
    IF off + n > Len(buf) THEN substr(buf, off, Len(buf) - off) \o Zeros(off + n - Len(buf))
    ELSE substr(buf, off, n)

write(buf, off) ==
    LET end == off + Len(buf) IN
    /\ data' = Written(data, buf, off)
    /\ bytes' = [p \in Pos |-> IF p \in off..(end - 1) THEN buf[p - off + 1] ELSE bytes[p]]
    /\ size' = IF end > size THEN end ELSE size

setattr(n) ==
    /\ data' = Resized(data, n)
    /\ bytes' = [p \in Pos |-> IF p < n THEN bytes[p] ELSE Zero]
    /\ size' = n

Next ==
    \/ \E off \in 0..MaxOff, n \in 0..MaxLen : \E buf \in [1..n -> Byte] : write(buf, off)
    \/ \E n \in 0..MaxOff : setattr(n)

Spec == Init /\ [][Next]_vars

\* The string has the size of the file, and read() returns as many bytes as it was
\* asked for: those of the file, and zeros from its end on, whatever was written,
\* skipped and cut off before.
ReadsFile ==
    /\ Len(data) = size
    /\ \A off \in 0..size, n \in 0..MaxLen :
        off + n <= MaxOff + MaxLen =>
            Read(data, n, off) = [k \in 1..n |-> bytes[off + k - 1]]
=============================================================================
