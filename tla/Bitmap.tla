------------------------------ MODULE Bitmap ------------------------------
(***************************************************************************)
(* Bit arrays (bitmap.c, bitmap.h) and the two parsers that fill them, of  *)
(* a string (string_to_bitmap) and of a sysfs file (sysfs_parse_bitlist).  *)
(* A bitmap is the set of the positions of its set bits, the ones past     *)
(* nbits in its last word included.  A text is a sequence of characters,   *)
(* read from a position on; no position is 0, which stands for NULL.       *)
(***************************************************************************)
EXTENDS Integers, Sequences, FiniteSets, FiniteSetsExt, SequencesExt

BITS_PER_LONG == 4       \* stands for 64
UIntMod == 32            \* stands for 2^32, the range of unsigned int
INT_MAX == 15            \* stands for 2^31 - 1
ULongMod == 64           \* stands for 2^64, the range of unsigned long

BITMAP_LONG_SIZE(nbits) == (nbits + BITS_PER_LONG - 1) \div BITS_PER_LONG

\* The bits of the words that hold nbits bits.
WordBits(nbits) == 0 .. BITS_PER_LONG * BITMAP_LONG_SIZE(nbits) - 1

bitmap_init(nbits, state) == IF state THEN WordBits(nbits) ELSE {}
bitmap_set(bits, pos) == bits \cup {pos}
bitmap_clear(bits, pos) == bits \ {pos}
bitmap_test(bits, pos) == pos \in bits
bitmap_popcount(bits, nbits) == Cardinality(bits \cap WordBits(nbits))

\* Word by word: the bits past nbits in the last word as well.
bitmap_and(src1, src2, nbits) == src1 \cap src2 \cap WordBits(nbits)
bitmap_or(src1, src2, nbits) == (src1 \cup src2) \cap WordBits(nbits)
bitmap_xor(src1, src2, nbits) == {b \in WordBits(nbits) : (b \in src1) # (b \in src2)}

align_down(pos) == pos - (pos % BITS_PER_LONG)

\* Mutant: the bits before pos in its word are not masked.
bitmap_find_next_unmasked(bits, nbits, pos, invert) ==
    LET sought == IF invert THEN WordBits(nbits) \ bits ELSE bits
        first == align_down(pos)
        words == {i \in first .. nbits - 1 : i % BITS_PER_LONG = 0
                     /\ (i .. i + BITS_PER_LONG - 1) \cap sought # {}}
        idx == Min(words)
    IN  IF words = {} THEN nbits
        ELSE Min({Min((idx .. idx + BITS_PER_LONG - 1) \cap sought), nbits})

\* Word by word from the one that holds pos; the first word with a bit that
\* is sought decides.
bitmap_find_next(bits, nbits, pos, invert) ==
    LET sought == {b \in IF invert THEN WordBits(nbits) \ bits ELSE bits : b >= pos}
        first == align_down(pos)
        words == {i \in first .. nbits - 1 : i % BITS_PER_LONG = 0
                     /\ (i .. i + BITS_PER_LONG - 1) \cap sought # {}}
        idx == Min(words)
    IN  IF words = {} THEN nbits
        ELSE Min({Min((idx .. idx + BITS_PER_LONG - 1) \cap sought), nbits})

bitmap_find_next_cleared(bits, nbits, pos) == bitmap_find_next(bits, nbits, pos, TRUE)
bitmap_find_next_set(bits, nbits, pos) == bitmap_find_next(bits, nbits, pos, FALSE)

\* The positions bitmap_for_each_set and bitmap_for_each_cleared stop at.
bitmap_for_each(bits, nbits, invert) ==
    LET From[pos \in 0 .. nbits + 1] ==
            LET p == IF invert THEN bitmap_find_next_cleared(bits, nbits, pos)
                               ELSE bitmap_find_next_set(bits, nbits, pos)
            IN  IF p >= nbits THEN {} ELSE {p} \cup From[p + 1]
    IN  From[0]

---------------------------------------------------------------------------
\* Texts.

\* A character is the value of a digit, in base 16, or one of these.
X == 16
Comma == 17
Dash == 18
Plus == 19
Colon == 20
Blank == 21
Newline == 22
Other == 23
Chars == 0 .. Other
NUL == 24
NULL == 0

At(text, p) == IF p \in DOMAIN text THEN text[p] ELSE NUL

\* The digits from p on, and the number they are.
Run(text, p, base) ==
    LET end == Min({q \in p .. Len(text) + 1 : At(text, q) \notin 0 .. base - 1})
        val[n \in 0 .. end - p] == IF n = 0 THEN 0 ELSE val[n - 1] * base + text[p + n - 1]
    IN  [end |-> end, val |-> val[end - p]]

\* A number that is too large becomes the largest one, and errno ERANGE.
Converted(n, negative) ==
    [end |-> n.end, erange |-> n.val >= ULongMod,
     val |-> IF n.val >= ULongMod THEN ULongMod - 1
             ELSE IF negative THEN (ULongMod - n.val) % ULongMod ELSE n.val]

\* strtoul(.., 10) where a digit is.
strtoul(text, p) == Converted(Run(text, p, 10), FALSE)

\* strtoull(.., 0): blanks, a sign and a prefix that tells the base.
strtoull(text, p) ==
    LET s == Min({q \in p .. Len(text) + 1 : At(text, q) \notin {Blank, Newline}})
        first == IF At(text, s) \in {Dash, Plus} THEN s + 1 ELSE s
        hex == At(text, first) = 0 /\ At(text, first + 1) = X /\ At(text, first + 2) \in 0 .. 15
        n == IF hex THEN Run(text, first + 2, 16)
             ELSE Run(text, first, IF At(text, first) = 0 THEN 8 ELSE 10)
    IN  IF n.end = first THEN [end |-> p, erange |-> FALSE, val |-> 0]
        ELSE Converted(n, At(text, s) = Dash)

---------------------------------------------------------------------------
\* The parsers.

\* A parser's result: whether the text was accepted, and the bits set by then.
Parsed(ok, bits) == [ok |-> ok, bits |-> bits]

nexttoken(text, q, sep) ==
    LET found == {k \in q .. Len(text) : text[k] = sep}
    IN  IF found = {} THEN NULL ELSE Min(found) + 1

nextnumber(text, p) ==
    LET n == strtoul(text, p)
    IN  IF At(text, p) \notin 0 .. 9 THEN [ok |-> FALSE, end |-> p, val |-> 0]
        ELSE [ok |-> ~n.erange, end |-> n.end, val |-> n.val % UIntMod]

\* A range a, a-b or a-b:s.  Whatever is between a number and the next
\* separator is skipped.
next_range(text, p) ==
    LET a == nextnumber(text, p)
        c2 == nexttoken(text, a.end, Comma)
        before(c) == c # NULL /\ (c2 = NULL \/ c < c2)
        c1 == nexttoken(text, a.end, Dash)
        b == IF before(c1) THEN nextnumber(text, c1) ELSE a
        c3 == nexttoken(text, b.end, Colon)
        s == IF before(c1) /\ before(c3) THEN nextnumber(text, c3) ELSE [b EXCEPT !.val = 1]
    IN  [ok |-> a.ok /\ b.ok /\ s.ok, a |-> a.val, b |-> b.val, s |-> s.val, end |-> s.end]

\* `while (a <= b) { if (a >= nbits) return 1; bitmap_set(bits, a); a += s; }`
RangeStep(nbits, bits, r) ==
    LET a(k) == (r.a + k * r.s) % UIntMod
        stops == {k \in 0 .. UIntMod : a(k) > r.b \/ a(k) >= nbits}
        turns == {k \in 0 .. UIntMod : \A j \in stops : k < j}
    IN  IF ~r.ok \/ r.s = 0 \/ r.a > r.b THEN Parsed(FALSE, bits)
        ELSE Parsed(\E k \in stops : a(k) > r.b /\ \A j \in stops : k <= j,
                    bits \cup {a(k) : k \in turns})

\* A turn of the loop over the tokens between commas.
StringStart(nbits) == [q |-> 1, end |-> 1, ok |-> TRUE, bits |-> bitmap_init(nbits, FALSE)]
StringState(q, end, done) == [q |-> q, end |-> end, ok |-> done.ok, bits |-> done.bits]
StringTurn(text, nbits, t) ==
    LET r == next_range(text, t.q)
    IN  IF t.q = NULL \/ ~t.ok THEN t
        ELSE StringState(nexttoken(text, t.q, Comma), r.end, RangeStep(nbits, t.bits, r))

\* Text must not go on after the last number.
StringResult(text, last) == Parsed(last.ok /\ At(text, last.end) = NUL, last.bits)
string_to_bitmap(text, nbits) ==
    LET turn[k \in 0 .. Len(text) + 1] ==
            IF k = 0 THEN StringStart(nbits) ELSE StringTurn(text, nbits, turn[k - 1])
    IN  StringResult(text, turn[Len(text) + 1])

\* What becomes of a number read at p.  `ret = -errno` for the largest value
\* is success when nothing has set errno: `errno` says that something had.
Verdict(n, p, errno) ==
    IF n.val = ULongMod - 1 THEN IF n.erange \/ errno THEN "error" ELSE "ok"
    ELSE IF n.end = p \/ n.val > INT_MAX THEN "error" ELSE "read"

\* A range a or a-b.
read_range(line, p, errno) ==
    LET a == strtoull(line, p)
        dash == At(line, a.end) = Dash
        b == IF dash THEN strtoull(line, a.end + 1) ELSE a
        first == Verdict(a, p, errno)
    IN  [ret |-> IF dash /\ first = "read" THEN Verdict(b, a.end + 1, errno) ELSE first,
         a |-> a.val, b |-> b.val, end |-> b.end]

\* The first line of the file.
fgets(text) == SubSeq(text, 1, Min({k \in DOMAIN text : text[k] = Newline} \cup {Len(text)}))

\* A turn of the loop over ranges, before each of which commas are skipped.
SysfsStart(nbits) == [pos |-> 1, ret |-> "read", bits |-> bitmap_init(nbits, FALSE)]
SysfsRange(t, r, nbits) ==
    IF r.ret # "read" THEN [t EXCEPT !.ret = r.ret]
    ELSE IF r.b < r.a \/ r.b >= nbits THEN [t EXCEPT !.ret = "error"]
    ELSE [t EXCEPT !.pos = r.end, !.bits = @ \cup r.a .. r.b]
SysfsTurn(line, nbits, errno, t) ==
    LET pos == Min({q \in t.pos .. Len(line) + 1 : At(line, q) # Comma})
    IN  IF t.ret # "read" THEN t
        ELSE IF At(line, pos) \in {NUL, Newline} THEN [t EXCEPT !.ret = "ok"]
        ELSE SysfsRange(t, read_range(line, pos, errno), nbits)

\* An empty file is an error; what bits was before stays, and is not looked
\* at.
sysfs_parse_bitlist(text, nbits, errno) ==
    LET line == fgets(text)
        turn[k \in 0 .. Len(line) + 1] ==
            IF k = 0 THEN SysfsStart(nbits) ELSE SysfsTurn(line, nbits, errno, turn[k - 1])
        last == turn[Len(line) + 1]
    IN  Parsed(text # <<>> /\ last.ret = "ok", last.bits)
=============================================================================
