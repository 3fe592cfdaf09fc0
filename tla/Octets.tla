------------------------------- MODULE Octets -------------------------------
(***************************************************************************)
(* Octet strings and the two halves of a codec.  A codec of the library is *)
(* written here as a layout: the cells to_knx packs one after the other,   *)
(* and, for every field, the place from_knx reads it from.  The two halves *)
(* are written down separately from the two functions of the source, so    *)
(* that they may disagree, as the code's may.  Offsets are those of the    *)
(* source, counted from 0.                                                 *)
(***************************************************************************)
EXTENDS Integers, SequencesExt

\* int.to_bytes(w, "big") and int.from_bytes(s, "big").
ToBytes(n, w) == [i \in 1..w |-> (n \div 256^(w - i)) % 256]
FromBytes(s) == FoldLeft(LAMBDA acc, octet : acc * 256 + octet, 0, s)

\* raw[i:j] and raw[i:]; as in Python the end is cut to the length.
Slice(raw, i, j) == SubSeq(raw, i + 1, IF j < Len(raw) THEN j ELSE Len(raw))
From(raw, i) == Slice(raw, i, Len(raw))
Zeros(n) == [i \in 1..n |-> 0]

\* What a parser does with the result r of another: an exception passes through.
Then(r, Parse(_)) == IF r.kind = "ok" THEN Parse(r.message) ELSE r

---------------------------------------------------------------------------
(* Packing: struct.pack and bytes((...)).  A number cell holds w octets and *)
(* adds up its parts; a part is a field of the message, shifted and masked. *)
(* lo..hi is the range the code checks (or the format character implies).   *)

Part(f, shr, mod, shl, lo, hi) ==
    [f |-> f, shr |-> shr, mod |-> mod, shl |-> shl, lo |-> lo, hi |-> hi]
Cell(w, parts) == [kind |-> "number", w |-> w, parts |-> parts]
Octs(f, sizes) == [kind |-> "octets", f |-> f, sizes |-> sizes]
Fixed(s) == [kind |-> "fixed", s |-> s]
\* One octet that counts the octets of field f.
Count(f) == [kind |-> "count", f |-> f]

Whole == 2^30                      \* modulus that masks nothing
AnySize == 0..255                  \* sizes of a field without a length check
Uint(w, f, lo, hi) == Cell(w, <<Part(f, 0, Whole, 0, lo, hi)>>)
U8(f) == Uint(1, f, 0, 255)
U16(f) == Uint(2, f, 0, 65535)
U24(f) == Uint(3, f, 0, 16777215)
Rest(f) == Octs(f, AnySize)
\* hi << shl | lo in w octets, lo checked to fit below hi.
Pair(w, hi, shl, lo) ==
    Cell(w, << Part(hi, 0, Whole, shl, 0, 2^(8 * w - shl) - 1),
               Part(lo, 0, Whole, 0, 0, 2^shl - 1) >>)

CellValue(m, c) ==
    FoldLeft(LAMBDA acc, p : acc + ((m[p.f] \div 2^p.shr) % p.mod) * 2^p.shl,
             0, c.parts)

\* The range checks of to_knx and of struct.pack all hold.
Packable(m, cells) ==
    \A i \in 1..Len(cells) : LET c == cells[i] IN
        CASE c.kind = "number" ->
                /\ \A j \in 1..Len(c.parts) :
                        m[c.parts[j].f] \in c.parts[j].lo .. c.parts[j].hi
                /\ CellValue(m, c) < 256^c.w
          [] c.kind = "octets" -> Len(m[c.f]) \in c.sizes
          [] c.kind = "count" -> Len(m[c.f]) \in 0..255
          [] c.kind = "fixed" -> TRUE

Pack(m, cells) ==
    FlattenSeq([i \in 1..Len(cells) |-> LET c == cells[i] IN
        CASE c.kind = "number" -> ToBytes(CellValue(m, c), c.w)
          [] c.kind = "octets" -> m[c.f]
          [] c.kind = "count" -> <<Len(m[c.f])>>
          [] c.kind = "fixed" -> c.s])

---------------------------------------------------------------------------
(* Unpacking: struct.unpack, slices, shifts and masks.                      *)

Bits(at, n, shr, width) ==
    [kind |-> "number", at |-> at, n |-> n, shr |-> shr, width |-> width]
At8(at) == Bits(at, 1, 0, 8)
At16(at) == Bits(at, 2, 0, 16)
At24(at) == Bits(at, 3, 0, 24)
\* A number whose high part stands elsewhere: high * 2^shl + low.
Join(high, shl, low) == [kind |-> "join", high |-> high, shl |-> shl, low |-> low]
\* raw[at:to]; a negative bound counts from the end, 0 as `to` is the end.
Cut(at, to) == [kind |-> "octets", at |-> at, to |-> to]
\* The k-th of equal shares that start at `at`; the octet at n is their size.
Share(at, k, n) == [kind |-> "share", at |-> at, k |-> k, n |-> n]

ReadNumber(raw, r) ==
    (FromBytes(Slice(raw, r.at, r.at + r.n)) \div 2^r.shr) % 2^r.width

Read(raw, r) ==
    LET Bound(k) == IF k < 0 THEN Len(raw) + k ELSE k
    IN  CASE r.kind = "number" -> ReadNumber(raw, r)
          [] r.kind = "join" -> ReadNumber(raw, r.high) * 2^r.shl + ReadNumber(raw, r.low)
          [] r.kind = "octets" ->
                Slice(raw, Bound(r.at), IF r.to = 0 THEN Len(raw) ELSE Bound(r.to))
          [] r.kind = "share" ->
                LET size == raw[r.n + 1]
                IN  Slice(raw, r.at + r.k * size, r.at + (r.k + 1) * size)

Unpack(raw, fields) == [f \in DOMAIN fields |-> Read(raw, fields[f])]

---------------------------------------------------------------------------
(* Bounded inputs of a layout: three base messages, with every field at     *)
(* the low end, in the middle and at the high end of its range, and each of *)
(* them with one field replaced, by a small value and one just outside its  *)
(* range too.                                                               *)

Pattern(n) == [i \in 1..n |-> (37 * i + 11) % 256]

CellFields(c) ==
    CASE c.kind = "number" -> {c.parts[j].f : j \in 1..Len(c.parts)}
      [] c.kind = "octets" -> {c.f}
      [] OTHER -> {}
Fields(cells) == UNION {CellFields(cells[i]) : i \in 1..Len(cells)}

Values(cells, f) ==
    LET c == cells[CHOOSE i \in 1..Len(cells) : f \in CellFields(cells[i])]
        p == c.parts[CHOOSE j \in 1..Len(c.parts) : c.parts[j].f = f]
    IN  CASE c.kind = "number" -> <<p.lo, (p.lo + p.hi) \div 3, p.hi, p.hi + 1, p.lo - 1,
                                  (p.lo + p.hi) \div 20>>
          [] c.sizes = AnySize -> <<Pattern(1), <<>>, Pattern(14), Pattern(13), Pattern(3), Zeros(2)>>
          [] OTHER -> LET low == Min(c.sizes)
                          high == Max(c.sizes)
                      IN  <<Pattern(low), Pattern(high), Zeros(low), Pattern(high + 1), Pattern(high - 1),
                            Zeros(high)>>

Samples(cells) ==
    LET fs == Fields(cells)
        bases == {[f \in fs |-> Values(cells, f)[k]] : k \in 1..3}
    IN  bases \cup UNION {{[b EXCEPT ![f] = Values(cells, f)[k]] : k \in 1..6} :
                             <<b, f>> \in bases \X fs}
=============================================================================
