----------------------------- MODULE ToolsProofs -----------------------------
(***************************************************************************)
(* The output reader and the generator over it, for every block length,    *)
(* stream length, request, segment size, buffer size and argument: what a  *)
(* request writes is the stream's, and what leaves the tool is the slice   *)
(* that was asked for.                                                     *)
(***************************************************************************)
EXTENDS Tools, TLAPS

-----------------------------------------------------------------------------
(* Division *)
\* Quotient and remainder.
LEMMA DivMod ==
  ASSUME NEW a \in Nat, NEW b \in Nat \ {0}
  PROVE  /\ a \div b \in Nat /\ a % b \in 0 .. b - 1
         /\ a = b * (a \div b) + (a % b)
OBVIOUS

\* They are the only pair of that kind.
LEMMA DivModUnique ==
  ASSUME NEW a \in Nat, NEW b \in Nat \ {0}, NEW q \in Int, NEW r \in 0 .. b - 1, a = b * q + r
  PROVE  a \div b = q /\ a % b = r
<1>1. PICK p \in Nat : p = a \div b
  BY DivMod
<1>2. PICK s \in 0 .. b - 1 : s = a % b
  BY DivMod
<1>3. a = b * p + s
  BY <1>1, <1>2, DivMod
<1>4. ASSUME p < q PROVE FALSE
  <2>1. b * (q - p) >= b
    BY <1>4
  <2>2. b * (q - p) = b * q - b * p
    OBVIOUS
  <2> QED
    BY <1>3, <2>1, <2>2
<1>5. ASSUME q < p PROVE FALSE
  <2>1. b * (p - q) >= b
    BY <1>5
  <2>2. b * (p - q) = b * p - b * q
    OBVIOUS
  <2> QED
    BY <1>3, <2>1, <2>2
<1>6. p = q
  BY <1>4, <1>5
<1> QED
  BY <1>1, <1>2, <1>3, <1>6

\* A dividend below the divisor.
LEMMA Small ==
  ASSUME NEW a \in Nat, NEW b \in Nat \ {0}, a < b
  PROVE  a % b = a /\ a \div b = 0
<1>1. a = b * 0 + a
  OBVIOUS
<1> QED
  BY <1>1, DivModUnique

LEMMA Multiples ==
  ASSUME NEW a \in Nat, NEW b \in Nat \ {0}, a % b = 0
  PROVE  a = b * (a \div b) /\ a \div b \in Nat
<1>1. a = b * (a \div b) + (a % b) /\ a \div b \in Nat
  BY DivMod
<1>2. b * (a \div b) + 0 = b * (a \div b)
  BY <1>1
<1> QED
  BY <1>1, <1>2

\* Reducing a sum's first part first.
LEMMA ModMod ==
  ASSUME NEW a \in Nat, NEW c \in Nat, NEW b \in Nat \ {0}
  PROVE  ((a % b) + c) % b = (a + c) % b
<1>1. PICK q \in Nat, r \in 0 .. b - 1 : a = b * q + r /\ a % b = r
  BY DivMod
<1>2. PICK p \in Nat, s \in 0 .. b - 1 : r + c = b * p + s /\ (r + c) % b = s
  <2>1. r + c \in Nat
    OBVIOUS
  <2> QED
    BY <2>1, DivMod
<1>3. a + c = b * (q + p) + s
  BY <1>1, <1>2
<1>4. (a + c) % b = s
  <2>1. PICK n \in Nat : n = a + c
    OBVIOUS
  <2>2. PICK t \in Int : t = q + p
    OBVIOUS
  <2>3. n = b * t + s
    BY <1>3, <2>1, <2>2
  <2>4. n % b = s
    BY <2>3, DivModUnique
  <2> QED
    BY <2>1, <2>4
<1> QED
  BY <1>1, <1>2, <1>4

\* The wrap of the position keeps a block boundary one.
LEMMA MultipleWraps ==
  ASSUME NEW a \in Nat, NEW S \in Nat \ {0}, NEW b \in Nat \ {0}, S % b = 0, a % b = 0
  PROVE  (a % S) % b = 0
<1>1. PICK q \in Nat : a = b * q
  BY Multiples
<1>2. PICK s \in Nat : S = b * s
  BY Multiples
<1>3. PICK k \in Nat, r \in 0 .. S - 1 : a = S * k + r /\ a % S = r
  BY DivMod
<1>4. PICK t \in Int : t = q - s * k
  OBVIOUS
<1>5. r = b * t + 0
  <2>1. S * k = b * (s * k)
    BY <1>2
  <2>2. b * (q - s * k) = b * q - b * (s * k)
    OBVIOUS
  <2> QED
    BY <1>1, <1>3, <1>4, <2>1, <2>2
<1>6. r % b = 0
  <2>1. 0 \in 0 .. b - 1 /\ r \in Nat
    OBVIOUS
  <2> QED
    BY <1>5, <2>1, DivModUnique
<1> QED
  BY <1>3, <1>6

-----------------------------------------------------------------------------
(* Sequences *)

LEMMA Concatenation ==
  ASSUME NEW S, NEW a, a \in Seq(S), NEW b, b \in Seq(S), NEW t, t = a \o b,
         NEW d, d = Len(a), NEW m, m = Len(b)
  PROVE  /\ t \in Seq(S) /\ Len(t) = d + m
         /\ \A i \in 1 .. d : t[i] = a[i]
         /\ \A i \in d + 1 .. d + m : t[i] = b[i - d]
OBVIOUS

-----------------------------------------------------------------------------
(* What the reader's invariant says *)

Cells == (Nat \X Nat) \cup {Junk}

\* A valid cache holds the block it names.
Readers ==
  {r \in [position : 0 .. StreamLen - 1, valid : BOOLEAN, cached : Nat, cache : Seq(Cells)] :
     Len(r.cache) = BlockLen /\ (r.valid => r.cache = XofBlock(r.cached))}

ReaderTyped ==
  /\ reader \in Readers
  /\ pc \in {"idle", "segments"} /\ stopped \in BOOLEAN
  /\ out \in Seq(Cells)
  /\ from \in 0 .. StreamLen - 1
  /\ segment \in Nat \ {0}

\* What has been written is the stream's.
Written ==
  \A i \in 1 .. Len(out) : from + i <= StreamLen => out[i] \in {Byte(from + i - 1), Junk}

\* In a parallel fill only the segments that have not run are unwritten.
Parallel ==
  pc = "segments" =>
    /\ ~stopped /\ reader.position = from
    /\ \A i \in todo : i \in Nat /\ i * segment < Len(out)
    /\ \A k \in 1 .. Len(out) : (k - 1) \div segment \notin todo => out[k] # Junk

Returned ==
  pc = "idle" =>
    /\ ~stopped => \A k \in 1 .. Len(out) : out[k] # Junk
    /\ reader.position = IF stopped THEN from ELSE (from + Len(out)) % StreamLen

ReaderInv == ReaderTyped /\ Written /\ Parallel /\ Returned

-----------------------------------------------------------------------------
(* fill() *)

Pairs == Nat \X Nat

LEMMA Sizes ==
  /\ BlockLen \in Nat \ {0} /\ StreamLen \in Nat \ {0} /\ StreamLen % BlockLen = 0
  /\ Junk \notin Pairs /\ Cells = Pairs \cup {Junk}
BY StreamAssumption DEF Junk, Pairs, Cells

LEMMA ByteIs ==
  ASSUME NEW p \in Nat
  PROVE  Byte(p) \in Pairs
<1>1. BlockLen \in Nat \ {0}
  BY Sizes
<1>2. p \div BlockLen \in Nat /\ p % BlockLen \in 0 .. BlockLen - 1
  BY <1>1, DivMod
<1>3. p % BlockLen \in Nat
  BY <1>1, <1>2
<1> QED
  BY <1>2, <1>3 DEF Byte, Pairs

LEMMA BlockIs ==
  ASSUME NEW b \in Nat
  PROVE  /\ XofBlock(b) \in Seq(Pairs) /\ Len(XofBlock(b)) = BlockLen
         /\ \A i \in 1 .. BlockLen : XofBlock(b)[i] = Byte(BlockLen * b + (i - 1))
<1>1. XofBlock(b) \in Seq(Pairs) /\ Len(XofBlock(b)) = BlockLen
  BY Sizes DEF XofBlock, Pairs
<1>2. ASSUME NEW i \in 1 .. BlockLen
      PROVE  XofBlock(b)[i] = Byte(BlockLen * b + (i - 1))
  <2>1. BlockLen \in Nat \ {0}
    BY Sizes
  <2>2. PICK c \in 0 .. BlockLen - 1 : c = i - 1
    BY <2>1
  <2>3. PICK a \in Nat : a = BlockLen * b + c
    BY <2>1
  <2>4. a \div BlockLen = b /\ a % BlockLen = c
    BY <2>1, <2>3, DivModUnique
  <2> QED
    BY <2>2, <2>3, <2>4 DEF XofBlock, Byte
<1> QED
  BY <1>1, <1>2

LEMMA ManyIs ==
  ASSUME NEW b \in Nat, NEW n \in Nat
  PROVE  /\ XofMany(b, n) \in Seq(Pairs) /\ Len(XofMany(b, n)) = n * BlockLen
         /\ \A i \in 1 .. n * BlockLen : XofMany(b, n)[i] = Byte(BlockLen * b + (i - 1))
<1>1. PICK m \in Nat : m = n * BlockLen
  BY Sizes
<1>2. PICK a \in Nat : a = b * BlockLen /\ a = BlockLen * b
  BY Sizes
<1>3. XofMany(b, n) = [i \in 1 .. m |-> Byte(a + i - 1)]
  BY <1>1, <1>2 DEF XofMany
<1>4. \A i \in 1 .. m : a + i - 1 \in Nat /\ a + i - 1 = a + (i - 1)
  OBVIOUS
<1>5. \A i \in 1 .. m : Byte(a + i - 1) \in Pairs
  BY <1>4, ByteIs
<1>6. XofMany(b, n) \in Seq(Pairs) /\ Len(XofMany(b, n)) = m
  BY <1>3, <1>5
<1>7. \A i \in 1 .. m : XofMany(b, n)[i] = Byte(a + (i - 1))
  BY <1>3, <1>4
<1> QED
  BY <1>1, <1>2, <1>6, <1>7

LEMMA CachedIs ==
  ASSUME NEW r \in Readers, NEW b \in Nat
  PROVE  /\ Cached(r, b) \in Readers
         /\ Cached(r, b).cache = XofBlock(b) /\ Cached(r, b).position = r.position
<1>1. CASE r.valid /\ r.cached = b
  BY <1>1 DEF Cached, Readers
<1>2. CASE ~(r.valid /\ r.cached = b)
  <2>1. XofBlock(b) \in Seq(Cells)
    BY BlockIs, Sizes DEF Cells
  <2>2. PICK block \in Seq(Cells) : block = XofBlock(b) /\ Len(block) = BlockLen
    BY <2>1, BlockIs
  <2>3. PICK h : h = [r EXCEPT !.valid = TRUE, !.cached = b, !.cache = block]
    OBVIOUS
  <2>4. Cached(r, b) = h
    BY <1>2, <2>2, <2>3 DEF Cached
  <2>5. h \in [position : 0 .. StreamLen - 1, valid : BOOLEAN, cached : Nat, cache : Seq(Cells)]
    BY <2>2, <2>3 DEF Readers
  <2>6. h.cache = block /\ h.cached = b /\ h.position = r.position
    BY <2>3 DEF Readers
  <2> QED
    BY <2>2, <2>4, <2>5, <2>6 DEF Readers
<1> QED
  BY <1>1, <1>2

LEMMA AdvancedIs ==
  ASSUME NEW r \in Readers, NEW n \in Nat
  PROVE  /\ Advanced(r, n) \in Readers
         /\ Advanced(r, n).position = (r.position + n) % StreamLen
<1>1. r.position \in Nat
  BY DEF Readers
<1>2. PICK p \in 0 .. StreamLen - 1 : p = (r.position + n) % StreamLen
  <2>1. r.position + n \in Nat
    BY <1>1
  <2> QED
    BY <2>1, Sizes, DivMod
<1>3. Advanced(r, n) = [r EXCEPT !.position = p]
  BY <1>2 DEF Advanced
<1> QED
  BY <1>2, <1>3 DEF Readers

\* A request of n bytes after some turns: what is written are the bytes from
\* the reader's position on.
FillGood(r, n, st) ==
  /\ st.r \in Readers /\ st.left \in 0 .. n
  /\ st.out \in Seq(Pairs) /\ Len(st.out) = n - st.left
  /\ st.r.position = (r.position + Len(st.out)) % StreamLen
  /\ \A i \in 1 .. Len(st.out) :
       r.position + i <= StreamLen => st.out[i] = Byte(r.position + (i - 1))

Wide(st) == st.r.position % BlockLen = 0 /\ st.left \div BlockLen > 0
Aligned(st) == st.r.position % BlockLen = 0

\* The m bytes from position p on.
Stretch(s, p, m) ==
  /\ s \in Seq(Pairs) /\ Len(s) = m
  /\ \A j \in 1 .. m : s[j] = Byte(p + (j - 1))

\* A turn that appends the m bytes of its position is a good one.
LEMMA AppendsGood ==
  ASSUME NEW r \in Readers, NEW n \in Nat, NEW st, FillGood(r, n, st),
         NEW m \in 1 .. st.left, NEW more, Stretch(more, st.r.position, m),
         NEW h \in Readers, h.position = st.r.position,
         NEW new, new.r = Advanced(h, m), new.out = st.out \o more, new.left = st.left - m
  PROVE  FillGood(r, n, new)
<1>1. /\ st.left \in 0 .. n /\ st.out \in Seq(Pairs) /\ r.position \in Nat
      /\ st.r.position \in Nat /\ m \in Nat
      /\ BlockLen \in Nat \ {0} /\ StreamLen \in Nat \ {0}
  <2>1. st.left \in 0 .. n /\ st.out \in Seq(Pairs) /\ st.r \in Readers
    BY DEF FillGood
  <2>2. BlockLen \in Nat \ {0} /\ StreamLen \in Nat \ {0}
    BY Sizes
  <2> QED
    BY <2>1, <2>2 DEF Readers
<1>2. PICK d \in Nat : d = Len(st.out) /\ d = n - st.left
  BY <1>1 DEF FillGood
<1>3. PICK p \in Nat : p = r.position
  BY <1>1
<1>4. new.r \in Readers /\ new.r.position = (st.r.position + m) % StreamLen
  BY <1>1, AdvancedIs
<1>5. /\ new.out \in Seq(Pairs) /\ Len(new.out) = d + m
      /\ \A i \in 1 .. d : new.out[i] = st.out[i]
      /\ \A i \in d + 1 .. d + m : new.out[i] = more[i - d]
  <2>1. st.out \in Seq(Pairs) /\ d = Len(st.out) /\ more \in Seq(Pairs) /\ m = Len(more)
    BY <1>1, <1>2 DEF Stretch
  <2> QED
    BY <2>1, Concatenation
<1>6. new.left \in 0 .. n /\ d + m = n - new.left
  BY <1>1, <1>2
<1>7. new.r.position = (p + (d + m)) % StreamLen
  <2>1. st.r.position = (p + d) % StreamLen
    BY <1>2, <1>3 DEF FillGood
  <2>2. PICK a \in Nat : a = p + d
    OBVIOUS
  <2>3. ((a % StreamLen) + m) % StreamLen = (a + m) % StreamLen
    BY <1>1, ModMod
  <2>4. a + m = p + (d + m)
    BY <1>1, <2>2
  <2> QED
    BY <1>4, <2>1, <2>2, <2>3, <2>4
<1>8. ASSUME NEW i \in 1 .. d + m, p + i <= StreamLen
      PROVE  new.out[i] = Byte(p + (i - 1))
  <2>1. CASE i <= d
    <3>1. i \in 1 .. d
      BY <1>1, <1>8, <2>1
    <3>2. st.out[i] = Byte(p + (i - 1))
      BY <1>2, <1>3, <1>8, <3>1 DEF FillGood
    <3> QED
      BY <1>5, <3>1, <3>2
  <2>2. CASE i > d
    <3>1. st.r.position = p + d
      <4>1. PICK a \in Nat : a = p + d /\ a < StreamLen
        <5>1. p + d < StreamLen
          BY <1>1, <1>8, <2>2
        <5>2. p + d \in Nat
          OBVIOUS
        <5> QED
          BY <5>1, <5>2
      <4>2. a % StreamLen = a
        BY <1>1, <4>1, Small
      <4> QED
        BY <1>2, <1>3, <4>1, <4>2 DEF FillGood
    <3>2. PICK j \in 1 .. m : j = i - d
      BY <1>1, <1>8, <2>2
    <3>3. new.out[i] = Byte((p + d) + (j - 1))
      <4>1. i \in d + 1 .. d + m
        BY <1>1, <1>8, <2>2
      <4>2. new.out[i] = more[j]
        BY <1>5, <3>2, <4>1
      <4>3. more[j] = Byte(st.r.position + (j - 1))
        BY DEF Stretch
      <4>4. st.r.position + (j - 1) = (p + d) + (j - 1)
        BY <3>1
      <4> QED
        BY <4>2, <4>3, <4>4
    <3>4. (p + d) + (j - 1) = p + (i - 1)
      BY <1>1, <1>8, <3>2
    <3> QED
      BY <3>3, <3>4
  <2>3. i <= d \/ i > d
    BY <1>1, <1>8
  <2> QED
    BY <2>1, <2>2, <2>3
<1> QED
  BY <1>3, <1>4, <1>5, <1>6, <1>7, <1>8 DEF FillGood

\* The turn over whole blocks.
LEMMA WideTurn ==
  ASSUME NEW r \in Readers, NEW n \in Nat, NEW st, FillGood(r, n, st), st.left # 0, Wide(st)
  PROVE  /\ FillGood(r, n, FillTurn(st)) /\ Aligned(FillTurn(st))
         /\ FillTurn(st).left \in 0 .. BlockLen - 1
<1>1. /\ BlockLen \in Nat \ {0} /\ st.left \in Nat \ {0} /\ st.r \in Readers
      /\ st.r.position \in Nat
  BY Sizes DEF FillGood, Readers
<1>2. PICK b \in Nat : b = st.r.position \div BlockLen /\ st.r.position = BlockLen * b
  BY <1>1, Multiples DEF Wide
<1>3. PICK whole \in Nat \ {0} : whole = st.left \div BlockLen
  BY <1>1, DivMod DEF Wide
<1>4. PICK m \in Nat : m = whole * BlockLen /\ m = BlockLen * whole
  BY <1>1
<1>5. m \in 1 .. st.left /\ st.left - m \in 0 .. BlockLen - 1
  <2>1. st.left = BlockLen * whole + (st.left % BlockLen) /\ st.left % BlockLen \in 0 .. BlockLen - 1
    BY <1>1, <1>3, DivMod
  <2>2. PICK rest \in 0 .. BlockLen - 1 : st.left = m + rest
    BY <1>4, <2>1
  <2>3. m # 0
    BY <1>1, <1>4
  <2> QED
    BY <1>1, <1>4, <2>2, <2>3
<1>6. /\ FillTurn(st).r = Advanced(st.r, m)
      /\ FillTurn(st).out = st.out \o XofMany(b, whole)
      /\ FillTurn(st).left = st.left - m
  BY <1>2, <1>3, <1>4 DEF FillTurn, Wide
<1>7. Stretch(XofMany(b, whole), st.r.position, m)
  <2>1. /\ XofMany(b, whole) \in Seq(Pairs) /\ Len(XofMany(b, whole)) = m
        /\ \A i \in 1 .. m : XofMany(b, whole)[i] = Byte(BlockLen * b + (i - 1))
    <3>1. whole \in Nat
      OBVIOUS
    <3> QED
      BY <1>4, <3>1, ManyIs
  <2> QED
    BY <1>2, <2>1 DEF Stretch
<1>8. FillGood(r, n, FillTurn(st))
  BY <1>1, <1>5, <1>6, <1>7, AppendsGood
<1>9. Aligned(FillTurn(st))
  <2>1. FillTurn(st).r.position = (st.r.position + m) % StreamLen
    BY <1>1, <1>6, AdvancedIs
  <2>2. PICK a \in Nat : a = st.r.position + m
    BY <1>1
  <2>3. a = BlockLen * (b + whole) + 0
    BY <1>1, <1>2, <1>4, <2>2
  <2>4. a % BlockLen = 0
    <3>1. PICK q \in Nat : q = b + whole
      OBVIOUS
    <3>2. 0 \in 0 .. BlockLen - 1
      BY <1>1
    <3> QED
      BY <1>1, <2>3, <3>1, <3>2, DivModUnique
  <2>5. (a % StreamLen) % BlockLen = 0
    BY <1>1, <2>4, Sizes, MultipleWraps
  <2> QED
    BY <2>1, <2>2, <2>5 DEF Aligned
<1> QED
  BY <1>5, <1>6, <1>8, <1>9

\* The turn inside one block.
LEMMA NarrowTurn ==
  ASSUME NEW r \in Readers, NEW n \in Nat, NEW st, FillGood(r, n, st), st.left # 0, ~Wide(st)
  PROVE  /\ FillGood(r, n, FillTurn(st))
         /\ Aligned(FillTurn(st)) \/ FillTurn(st).left = 0
         /\ Aligned(st) => FillTurn(st).left = 0
<1>1. /\ BlockLen \in Nat \ {0} /\ st.left \in Nat \ {0} /\ st.r \in Readers
      /\ st.r.position \in Nat
  BY Sizes DEF FillGood, Readers
<1>2. PICK b \in Nat, c \in 0 .. BlockLen - 1 :
        /\ b = st.r.position \div BlockLen /\ c = st.r.position % BlockLen
        /\ st.r.position = BlockLen * b + c
  BY <1>1, DivMod
<1>3. PICK h \in Readers : /\ h = Cached(st.r, b) /\ h.cache = XofBlock(b)
                           /\ h.position = st.r.position
  BY <1>1, CachedIs
<1>4. PICK m \in 1 .. st.left : m = Smaller(st.left, BlockLen - c) /\ m <= BlockLen - c
  BY <1>1 DEF Smaller
<1>5. PICK more : more = SubSeq(XofBlock(b), c + 1, c + m)
  OBVIOUS
<1>6. /\ FillTurn(st).r = Advanced(h, m)
      /\ FillTurn(st).out = st.out \o more
      /\ FillTurn(st).left = st.left - m
  BY <1>2, <1>3, <1>4, <1>5 DEF FillTurn, Wide
<1>7. /\ more \in Seq(Pairs) /\ Len(more) = m
      /\ \A j \in 1 .. m : more[j] = XofBlock(b)[c + j]
  <2>1. PICK block \in Seq(Pairs) : block = XofBlock(b) /\ Len(block) = BlockLen
    BY BlockIs
  <2>2. c + 1 \in Nat \ {0} /\ c + m <= Len(block) /\ c + m \in Nat
    BY <1>1, <1>4, <2>1
  <2>3. /\ more \in Seq(Pairs) /\ Len(more) = m
        /\ \A j \in 1 .. m : more[j] = block[c + j]
    BY <1>1, <1>5, <2>1, <2>2
  <2> QED
    BY <2>1, <2>3
<1>8. ASSUME NEW j \in 1 .. m PROVE more[j] = Byte(st.r.position + (j - 1))
  <2>1. c + j \in 1 .. BlockLen
    BY <1>1, <1>4
  <2>2. XofBlock(b)[c + j] = Byte(BlockLen * b + ((c + j) - 1))
    BY <2>1, BlockIs
  <2>3. BlockLen * b + ((c + j) - 1) = st.r.position + (j - 1)
    BY <1>1, <1>2
  <2> QED
    BY <1>7, <1>8, <2>2, <2>3
<1>9. FillGood(r, n, FillTurn(st))
  <2>1. Stretch(more, st.r.position, m)
    BY <1>7, <1>8 DEF Stretch
  <2> QED
    BY <1>1, <1>3, <1>6, <2>1, AppendsGood
<1>10. ASSUME FillTurn(st).left # 0 PROVE Aligned(FillTurn(st))
  <2>1. m = BlockLen - c
    BY <1>1, <1>4, <1>6, <1>10 DEF Smaller
  <2>2. FillTurn(st).r.position = (st.r.position + m) % StreamLen
    <3>1. m \in Nat
      BY <1>1, <1>4
    <3> QED
      BY <1>3, <1>6, <3>1, AdvancedIs
  <2>3. PICK a \in Nat : a = st.r.position + m
    BY <1>1
  <2>4. a = BlockLen * (b + 1) + 0
    <3>1. PICK e \in Nat : e = BlockLen * b
      BY <1>1
    <3>2. BlockLen * (b + 1) = e + BlockLen
      BY <1>1, <3>1
    <3>3. a = (e + c) + (BlockLen - c)
      BY <1>2, <2>1, <2>3, <3>1
    <3> QED
      BY <1>1, <3>1, <3>2, <3>3
  <2>5. a % BlockLen = 0
    <3>1. PICK q \in Int : q = b + 1
      OBVIOUS
    <3>2. a = BlockLen * q + 0
      BY <2>4, <3>1
    <3>3. BlockLen \in Nat \ {0} /\ 0 \in 0 .. BlockLen - 1
      BY <1>1
    <3> QED
      BY <3>2, <3>3, DivModUnique
  <2>6. (a % StreamLen) % BlockLen = 0
    BY <1>1, <2>5, Sizes, MultipleWraps
  <2> QED
    BY <2>2, <2>3, <2>6 DEF Aligned
<1>11. ASSUME Aligned(st) PROVE FillTurn(st).left = 0
  <2>1. c = 0 /\ ~(st.left \div BlockLen > 0)
    BY <1>2, <1>11 DEF Aligned, Wide
  <2>2. st.left < BlockLen
    <3>1. /\ st.left \div BlockLen \in Nat /\ st.left % BlockLen \in 0 .. BlockLen - 1
          /\ st.left = BlockLen * (st.left \div BlockLen) + (st.left % BlockLen)
      BY <1>1, DivMod
    <3>2. PICK q \in Nat, e \in 0 .. BlockLen - 1 :
            q = st.left \div BlockLen /\ st.left = BlockLen * q + e
      BY <3>1
    <3>3. q = 0
      BY <2>1, <3>2
    <3>4. BlockLen * q = 0
      BY <1>1, <3>3
    <3> QED
      BY <1>1, <3>2, <3>4
  <2> QED
    BY <1>1, <1>4, <1>6, <2>1, <2>2 DEF Smaller
<1> QED
  BY <1>9, <1>10, <1>11

\* Three turns finish every request.
LEMMA FillIs ==
  ASSUME NEW r \in Readers, NEW n \in Nat
  PROVE  FillGood(r, n, Fill(r, n)) /\ Fill(r, n).left = 0
<1> DEFINE first == [r |-> r, out |-> << >>, left |-> n]
<1>1. FillGood(r, n, first)
  <2>1. r.position \in 0 .. StreamLen - 1
    BY DEF Readers
  <2>2. r.position \in Nat /\ r.position < StreamLen /\ r.position + 0 = r.position
    BY <2>1, Sizes
  <2>3. (r.position + 0) % StreamLen = r.position
    BY <2>2, Small, Sizes
  <2> QED
    BY <2>3 DEF FillGood
<1>2. ASSUME NEW st, FillGood(r, n, st)
      PROVE  /\ FillGood(r, n, FillTurn(st))
             /\ FillTurn(st).left # 0 =>
                  /\ Aligned(FillTurn(st))
                  /\ Aligned(st) => FillTurn(st).left \div BlockLen = 0
             /\ st.left \div BlockLen = 0 /\ Aligned(st) => FillTurn(st).left = 0
  <2>1. CASE st.left = 0
    BY <1>2, <2>1 DEF FillTurn
  <2>2. CASE st.left # 0 /\ Wide(st)
    <3>1. FillTurn(st).left \in 0 .. BlockLen - 1
      BY <1>2, <2>2, WideTurn
    <3>2. FillTurn(st).left \div BlockLen = 0
      BY <3>1, Sizes, Small
    <3> QED
      BY <1>2, <2>2, <3>2, WideTurn DEF Wide
  <2>3. CASE st.left # 0 /\ ~Wide(st)
    BY <1>2, <2>3, NarrowTurn
  <2> QED
    BY <2>1, <2>2, <2>3
<1> HIDE DEF first
<1>3. PICK a, b, c : /\ a = FillTurn(first) /\ b = FillTurn(a) /\ c = FillTurn(b)
  OBVIOUS
<1>4. Fill(r, n) = c
  BY <1>3 DEF Fill, first
<1>5. FillGood(r, n, a) /\ FillGood(r, n, b) /\ FillGood(r, n, c)
  BY <1>1, <1>2, <1>3
<1>6. ASSUME NEW st, st.left = 0 PROVE FillTurn(st).left = 0
  BY <1>6 DEF FillTurn
<1>7. c.left = 0
  <2>1. CASE a.left = 0
    BY <1>3, <1>6, <2>1
  <2>2. CASE a.left # 0 /\ b.left = 0
    BY <1>3, <1>6, <2>2
  <2>3. CASE a.left # 0 /\ b.left # 0
    <3>1. Aligned(a)
      BY <1>1, <1>2, <1>3, <2>3
    <3>2. Aligned(b) /\ b.left \div BlockLen = 0
      BY <1>2, <1>3, <1>5, <2>3, <3>1
    <3> QED
      BY <1>2, <1>3, <1>5, <3>2
  <2> QED
    BY <2>1, <2>2, <2>3
<1> QED
  BY <1>4, <1>5, <1>7


\* What fill() gives its caller.
LEMMA FillWrites ==
  ASSUME NEW r \in Readers, NEW n \in Nat
  PROVE  /\ Fill(r, n).r \in Readers
         /\ Fill(r, n).r.position = (r.position + n) % StreamLen
         /\ Fill(r, n).out \in Seq(Pairs) /\ Len(Fill(r, n).out) = n
         /\ \A i \in 1 .. n :
              r.position + i <= StreamLen => Fill(r, n).out[i] = Byte(r.position + (i - 1))
<1>1. PICK st : st = Fill(r, n)
  OBVIOUS
<1>2. FillGood(r, n, st) /\ st.left = 0
  BY <1>1, FillIs
<1>3. Len(st.out) = n
  BY <1>2 DEF FillGood
<1> QED
  BY <1>1, <1>2, <1>3 DEF FillGood

LEMMA SeekIs ==
  ASSUME NEW r \in Readers, NEW p \in Nat
  PROVE  /\ Seek(r, p) \in Readers /\ Seek(r, p).position = p % StreamLen
         /\ p < StreamLen => Seek(r, p).position = p
<1>1. StreamLen \in Nat \ {0}
  BY Sizes
<1>2. PICK a \in 0 .. StreamLen - 1 : a = p % StreamLen
  BY <1>1, DivMod
<1>3. Seek(r, p) = [r EXCEPT !.position = a, !.valid = FALSE]
  BY <1>2 DEF Seek
<1>4. Seek(r, p) \in Readers /\ Seek(r, p).position = a
  BY <1>3 DEF Readers
<1>5. p < StreamLen => a = p
  BY <1>1, <1>2, Small
<1> QED
  BY <1>2, <1>4, <1>5

-----------------------------------------------------------------------------
(* The reader's steps *)

LEMMA SeekKeeps ==
  ASSUME ReaderInv, NEW p \in 0 .. StreamLen - 1, CallSeek(p)
  PROVE  ReaderInv'
<1>1. StreamLen \in Nat \ {0} /\ p \in Nat /\ p < StreamLen /\ reader \in Readers
  BY Sizes DEF ReaderInv, ReaderTyped
<1>2. reader' \in Readers /\ reader'.position = p
  BY <1>1, SeekIs DEF CallSeek
<1>3. p % StreamLen = p
  BY <1>1, Small
<1>4. /\ pc' = "idle" /\ out' = << >> /\ from' = p /\ ~stopped' /\ segment' = segment
  BY DEF CallSeek
<1>5. Len(out') = 0 /\ out' \in Seq(Cells)
  BY <1>4
<1>6. ReaderTyped'
  BY <1>2, <1>4, <1>5 DEF ReaderInv, ReaderTyped, CallSeek
<1>7. from' + Len(out') = p
  BY <1>1, <1>4, <1>5
<1>8. Written' /\ Parallel' /\ Returned'
  BY <1>2, <1>3, <1>4, <1>5, <1>7 DEF Written, Parallel, Returned
<1> QED
  BY <1>6, <1>8 DEF ReaderInv

LEMMA FillKeeps ==
  ASSUME ReaderInv, NEW n \in Nat, Request(n), FillsNow(n)
  PROVE  /\ ReaderInv' /\ Len(out') = n /\ pc' = "idle" /\ ~stopped'
         /\ from' = reader.position
<1>1. /\ reader \in Readers /\ StreamLen \in Nat \ {0} /\ reader.position \in 0 .. StreamLen - 1
      /\ segment \in Nat \ {0}
  BY Sizes DEF ReaderInv, ReaderTyped, Readers
<1>2. PICK p \in Nat : p = reader.position /\ p \in 0 .. StreamLen - 1
  BY <1>1
<1>3. PICK done : done = Fill(reader, n)
  OBVIOUS
<1>4. /\ reader' = done.r /\ out' = done.out /\ from' = p /\ ~stopped' /\ pc' = "idle"
      /\ stopped' \in BOOLEAN /\ segment' = segment
  BY <1>2, <1>3 DEF FillsNow, Request
<1>5. /\ done.r \in Readers /\ done.r.position = (p + n) % StreamLen
      /\ done.out \in Seq(Pairs) /\ Len(done.out) = n
      /\ \A i \in 1 .. n : p + i <= StreamLen => done.out[i] = Byte(p + (i - 1))
  BY <1>1, <1>2, <1>3, FillWrites
<1>6. \A i \in 1 .. n : done.out[i] \in Pairs
  BY <1>5
<1>7. done.out \in Seq(Cells)
  BY <1>5 DEF Cells, Pairs
<1>8. ReaderTyped'
  BY <1>1, <1>2, <1>4, <1>5, <1>7 DEF ReaderTyped
<1>9. Written'
  <2>1. ASSUME NEW i \in 1 .. n, p + i <= StreamLen PROVE done.out[i] = Byte(p + i - 1)
    <3>1. p + i - 1 = p + (i - 1)
      OBVIOUS
    <3> QED
      BY <1>5, <2>1, <3>1
  <2> QED
    BY <1>4, <1>5, <2>1 DEF Written
<1>10. Parallel'
  BY <1>4 DEF Parallel
<1>11. Returned'
  <2>1. \A i \in 1 .. n : done.out[i] # Junk
    BY <1>6, Sizes
  <2> QED
    BY <1>4, <1>5, <2>1 DEF Returned
<1> QED
  BY <1>2, <1>4, <1>5, <1>8, <1>9, <1>10, <1>11 DEF ReaderInv


LEMMA SegmentLenIs ==
  ASSUME NEW bytes \in Nat
  PROVE  SegmentLen(bytes) \in Nat \ {0}
<1>1. BlockLen \in Nat \ {0}
  BY Sizes
<1>2. PICK e \in 0 .. BlockLen - 1 : e = bytes % BlockLen
  BY <1>1, DivMod
<1>3. bytes - e \in Int
  BY <1>1
<1> QED
  BY <1>1, <1>2, <1>3 DEF SegmentLen, Larger

\* The segments of n bytes: every one begins in the buffer, every byte is in one.
LEMMA Cover ==
  ASSUME NEW n \in Nat \ {0}, NEW g \in Nat \ {0},
         NEW todo0, todo0 = 0 .. (n + g - 1) \div g - 1
  PROVE  /\ \A i \in todo0 : i \in Nat /\ i * g < n
         /\ \A k \in 1 .. n : (k - 1) \div g \in todo0
<1>1. PICK a \in Nat : a = n + g - 1
  <2>1. n + g - 1 \in Nat
    OBVIOUS
  <2> QED
    BY <2>1
<1>2. PICK q \in Nat, e \in 0 .. g - 1 : q = a \div g /\ a = g * q + e
  <2>1. a \div g \in Nat /\ a % g \in 0 .. g - 1 /\ a = g * (a \div g) + (a % g)
    BY DivMod
  <2> QED
    BY <2>1
<1>3. todo0 = 0 .. q - 1
  BY <1>1, <1>2
<1>4. PICK gq \in Nat : gq = g * q /\ n + g - 1 = gq + e
  BY <1>1, <1>2
<1>5. ASSUME NEW i \in todo0 PROVE i \in Nat /\ i * g < n
  <2>1. i \in Nat /\ i + 1 <= q
    BY <1>3
  <2>2. PICK gi \in Nat : gi = g * i /\ gi = i * g
    BY <2>1
  <2>3. g * (i + 1) <= g * q
    BY <2>1
  <2>4. g * (i + 1) = gi + g
    BY <2>1, <2>2
  <2>5. gi + g <= gq
    BY <1>4, <2>3, <2>4
  <2> QED
    BY <1>4, <2>1, <2>2, <2>5
<1>6. ASSUME NEW k \in 1 .. n PROVE (k - 1) \div g \in todo0
  <2>1. PICK j \in Nat : j = k - 1 /\ j < n
    <3>1. k - 1 \in Nat /\ k - 1 < n
      OBVIOUS
    <3> QED
      BY <3>1
  <2>2. PICK t \in Nat, f \in 0 .. g - 1 : t = j \div g /\ j = g * t + f
    <3>1. j \div g \in Nat /\ j % g \in 0 .. g - 1 /\ j = g * (j \div g) + (j % g)
      BY DivMod
    <3> QED
      BY <3>1
  <2>3. ASSUME t >= q PROVE FALSE
    <3>1. g * t >= g * q
      BY <2>3
    <3>2. PICK gt \in Nat : gt = g * t
      OBVIOUS
    <3>3. gt >= gq /\ j = gt + f
      BY <1>4, <2>2, <3>1, <3>2
    <3> QED
      BY <1>4, <2>1, <3>3
  <2>4. t \in 0 .. q - 1
    BY <2>3
  <2> QED
    BY <1>3, <2>1, <2>2, <2>4
<1> QED
  BY <1>5, <1>6

LEMMA ParallelFillKeeps ==
  ASSUME ReaderInv, NEW n \in Nat, NEW bytes \in Nat, CallParallelFill(n, bytes)
  PROVE  /\ ReaderInv' /\ Len(out') = n /\ from' = reader.position /\ ~stopped'
<1>1. PICK g \in Nat \ {0} : g = SegmentLen(bytes)
  BY SegmentLenIs
<1>2. CASE n <= g
  <2>1. Request(n) /\ FillsNow(n)
    BY <1>1, <1>2 DEF CallParallelFill
  <2> QED
    BY <2>1, FillKeeps
<1>3. CASE ~(n <= g)
  <2>1. n \in Nat \ {0}
    BY <1>3
  <2>2. /\ pc' = "segments" /\ segment' = g /\ from' = reader.position /\ stopped' = FALSE
        /\ reader' = reader /\ todo' = 0 .. (n + g - 1) \div g - 1
        /\ out' = [i \in 1 .. n |-> Junk]
    BY <1>1, <1>3 DEF CallParallelFill, Request
  <2>3. /\ reader \in Readers /\ reader.position \in 0 .. StreamLen - 1
    BY DEF ReaderInv, ReaderTyped, Readers
  <2>4. PICK buffer : buffer = out'
    OBVIOUS
  <2>5. buffer \in Seq(Cells) /\ Len(buffer) = n /\ \A i \in 1 .. n : buffer[i] = Junk
    BY <2>2, <2>4 DEF Cells
  <2>6. ReaderTyped'
    BY <2>2, <2>3, <2>4, <2>5 DEF ReaderTyped
  <2>7. Written' /\ Returned'
    BY <2>2, <2>4, <2>5 DEF Written, Returned
  <2>8. PICK segments : segments = todo'
    OBVIOUS
  <2>9. /\ \A i \in segments : i \in Nat /\ i * g < n
        /\ \A k \in 1 .. n : (k - 1) \div g \in segments
    BY <2>1, <2>2, <2>8, Cover
  <2>10. Parallel'
    BY <2>2, <2>4, <2>5, <2>8, <2>9 DEF Parallel
  <2> QED
    BY <2>2, <2>4, <2>5, <2>6, <2>7, <2>10 DEF ReaderInv
<1> QED
  BY <1>2, <1>3

LEMMA SegmentKeeps ==
  ASSUME ReaderInv, NEW i, FillSegment(i)
  PROVE  /\ ReaderInv' /\ Len(out') = Len(out) /\ from' = from /\ pc' = pc
<1>1. /\ pc = "segments" /\ i \in todo /\ todo' = todo \ {i}
      /\ UNCHANGED <<reader, pc, from, stopped, segment>>
  BY DEF FillSegment
<1>2. /\ reader \in Readers /\ reader.position = from /\ ~stopped /\ stopped \in BOOLEAN
      /\ from \in 0 .. StreamLen - 1 /\ out \in Seq(Cells) /\ segment \in Nat \ {0}
      /\ StreamLen \in Nat \ {0}
      /\ \A j \in todo : j \in Nat /\ j * segment < Len(out)
      /\ \A k \in 1 .. Len(out) : (k - 1) \div segment \notin todo => out[k] # Junk
  BY <1>1, Sizes DEF ReaderInv, ReaderTyped, Parallel
<1>3. PICK g \in Nat \ {0}, n \in Nat, p \in Nat : g = segment /\ n = Len(out) /\ p = from
  <2>1. Len(out) \in Nat /\ from \in Nat
    BY <1>2
  <2> QED
    BY <1>2, <2>1
<1>4. PICK off \in Nat : off = i * g /\ off = g * i /\ off < n /\ i \in Nat
  <2>1. i \in Nat /\ i * g < n /\ i * g \in Nat /\ i * g = g * i
    BY <1>1, <1>2, <1>3
  <2> QED
    BY <2>1
<1>5. PICK len \in Nat : len = Smaller(g, n - off) /\ off + len <= n /\ len <= g
                         /\ (len = g \/ off + len = n)
  <2>1. Smaller(g, n - off) \in Nat /\ off + Smaller(g, n - off) <= n /\ Smaller(g, n - off) <= g
        /\ (Smaller(g, n - off) = g \/ off + Smaller(g, n - off) = n)
    BY <1>4 DEF Smaller
  <2> QED
    BY <2>1
<1>6. PICK r \in Readers : /\ r = SegmentReader(i) /\ r.position = (p + off) % StreamLen
                           /\ p + off < StreamLen => r.position = p + off
  <2>1. p + off \in Nat
    OBVIOUS
  <2>2. SegmentReader(i) = Seek(reader, p + off)
    BY <1>2, <1>3, <1>4 DEF SegmentReader
  <2> QED
    BY <1>2, <2>1, <2>2, SeekIs
<1>7. PICK bytes : bytes = Fill(r, len).out
  OBVIOUS
<1>8. /\ bytes \in Seq(Pairs) /\ Len(bytes) = len
      /\ \A j \in 1 .. len : r.position + j <= StreamLen => bytes[j] = Byte(r.position + (j - 1))
  BY <1>7, FillWrites
<1>9. \A j \in 1 .. len : bytes[j] \in Pairs
  BY <1>8
<1>10. PICK buffer :
         /\ buffer = out'
         /\ buffer = [k \in 1 .. n |-> IF k \in off + 1 .. off + len THEN bytes[k - off] ELSE out[k]]
  <2>1. DOMAIN out = 1 .. n
    BY <1>2, <1>3
  <2>2. out' = [k \in DOMAIN out |-> IF k \in i * segment + 1 .. i * segment + len
                                     THEN bytes[k - i * segment] ELSE out[k]]
    BY <1>3, <1>4, <1>5, <1>6, <1>7 DEF FillSegment
  <2> QED
    BY <1>3, <1>4, <2>1, <2>2
<1>11. ASSUME NEW k \in off + 1 .. off + len
       PROVE  k - off \in 1 .. len /\ buffer[k] = bytes[k - off] /\ buffer[k] \in Pairs
  <2>1. k - off \in 1 .. len /\ k \in 1 .. n
    BY <1>5
  <2> QED
    BY <1>9, <1>10, <2>1
<1>12. ASSUME NEW k \in 1 .. n, k \notin off + 1 .. off + len
       PROVE  buffer[k] = out[k]
  BY <1>10, <1>12
<1>13. buffer \in Seq(Cells) /\ Len(buffer) = n
  <2>1. \A k \in 1 .. n : buffer[k] \in Cells
    <3>1. \A k \in 1 .. n : out[k] \in Cells
      BY <1>2, <1>3
    <3> QED
      BY <1>11, <1>12, <3>1 DEF Cells, Pairs
  <2>2. DOMAIN buffer = 1 .. n
    BY <1>10
  <2>3. buffer = [k \in 1 .. n |-> buffer[k]]
    BY <1>10
  <2> QED
    BY <2>1, <2>2, <2>3
<1>14. ReaderTyped'
  BY <1>1, <1>2, <1>10, <1>13 DEF ReaderInv, ReaderTyped
<1>15. Written'
  <2>1. SUFFICES ASSUME NEW k \in 1 .. n, p + k <= StreamLen
                 PROVE  buffer[k] \in {Byte(p + k - 1), Junk}
    BY <1>1, <1>3, <1>10, <1>13 DEF Written
  <2>2. CASE k \in off + 1 .. off + len
    <3>1. PICK j \in 1 .. len : j = k - off /\ buffer[k] = bytes[j]
      BY <1>11, <2>2
    <3>2. p + off < StreamLen /\ (p + off) + j <= StreamLen
      BY <1>2, <2>1, <2>2, <3>1
    <3>3. PICK a \in Nat : a = p + off /\ a = r.position
      BY <1>6, <3>2
    <3>4. a + j <= StreamLen
      BY <3>2, <3>3
    <3>5. bytes[j] = Byte(a + (j - 1))
      BY <1>8, <3>3, <3>4
    <3>6. a + (j - 1) = p + k - 1
      BY <3>1, <3>3
    <3> QED
      BY <3>1, <3>5, <3>6
  <2>3. CASE k \notin off + 1 .. off + len
    BY <1>3, <1>12, <2>1, <2>3 DEF ReaderInv, Written
  <2> QED
    BY <2>2, <2>3
<1>16. Parallel'
  <2>1. ASSUME NEW k \in 1 .. n, (k - 1) \div g \notin todo \ {i}
        PROVE  buffer[k] # Junk
    <3>1. CASE k \in off + 1 .. off + len
      BY <1>11, <3>1, Sizes
    <3>2. CASE k \notin off + 1 .. off + len
      <4>1. (k - 1) \div g # i
        <5>1. SUFFICES ASSUME (k - 1) \div g = i PROVE FALSE
          OBVIOUS
        <5>2. PICK j \in Nat : j = k - 1 /\ j < n
          <6>1. k - 1 \in Nat /\ k - 1 < n
            OBVIOUS
          <6> QED
            BY <6>1
        <5>3. /\ j % g \in 0 .. g - 1 /\ j = g * (j \div g) + (j % g)
          BY DivMod
        <5>4. PICK e \in 0 .. g - 1 : j = off + e
          BY <1>4, <5>1, <5>2, <5>3
        <5> QED
          BY <1>5, <3>2, <5>2, <5>4
      <4>2. out[k] # Junk
        BY <1>2, <1>3, <2>1, <4>1
      <4> QED
        BY <1>12, <3>2, <4>2
    <3> QED
      BY <3>1, <3>2
  <2> QED
    BY <1>1, <1>2, <1>3, <1>10, <1>13, <2>1 DEF Parallel
<1>17. Returned'
  BY <1>1 DEF Returned
<1> QED
  BY <1>1, <1>3, <1>10, <1>13, <1>14, <1>15, <1>16, <1>17 DEF ReaderInv

LEMMA JoinKeeps ==
  ASSUME ReaderInv, Join
  PROVE  ReaderInv' /\ UNCHANGED <<out, from, stopped>> /\ pc' = "idle"
<1>1. /\ pc = "segments" /\ todo = {} /\ pc' = "idle"
      /\ UNCHANGED <<out, from, stopped, segment, todo>>
      /\ reader' = Seek(reader, reader.position + Len(out))
  BY DEF Join, JoinSeeks
<1>2. /\ reader \in Readers /\ reader.position = from /\ ~stopped
      /\ from \in 0 .. StreamLen - 1 /\ out \in Seq(Cells)
      /\ \A k \in 1 .. Len(out) : out[k] # Junk
  BY <1>1 DEF ReaderInv, ReaderTyped, Parallel
<1>3. from + Len(out) \in Nat
  BY <1>2, Sizes
<1>4. reader' \in Readers /\ reader'.position = (from + Len(out)) % StreamLen
  BY <1>1, <1>2, <1>3, SeekIs
<1>5. ReaderTyped'
  BY <1>1, <1>4 DEF ReaderInv, ReaderTyped
<1>6. Written' /\ Parallel'
  BY <1>1 DEF ReaderInv, Written, Parallel
<1>7. Returned'
  BY <1>1, <1>2, <1>4 DEF Returned
<1> QED
  BY <1>1, <1>5, <1>6, <1>7 DEF ReaderInv

LEMMA StoppedKeeps ==
  ASSUME ReaderInv, Stopped
  PROVE  ReaderInv' /\ UNCHANGED <<out, from>> /\ pc' = "idle" /\ stopped'
<1>1. /\ pc = "segments" /\ pc' = "idle" /\ stopped' = TRUE
      /\ UNCHANGED <<reader, out, from, segment>>
  BY DEF Stopped
<1>2. reader.position = from
  BY <1>1 DEF ReaderInv, Parallel
<1>3. ReaderTyped'
  BY <1>1 DEF ReaderInv, ReaderTyped
<1>4. Written'
  BY <1>1 DEF ReaderInv, Written
<1>5. Parallel' /\ Returned'
  BY <1>1, <1>2 DEF Parallel, Returned
<1> QED
  BY <1>1, <1>3, <1>4, <1>5 DEF ReaderInv


\* A step that leaves the reader's variables alone.
LEMMA ReaderStands ==
  ASSUME ReaderInv, UNCHANGED vars
  PROVE  ReaderInv'
<1>1. /\ reader' = reader /\ pc' = pc /\ out' = out /\ from' = from /\ stopped' = stopped
      /\ segment' = segment /\ todo' = todo
  BY DEF vars
<1>2. ReaderTyped' /\ Written'
  BY <1>1 DEF ReaderInv, ReaderTyped, Written
<1>3. Parallel' /\ Returned'
  BY <1>1 DEF ReaderInv, Parallel, Returned
<1> QED
  BY <1>2, <1>3 DEF ReaderInv

-----------------------------------------------------------------------------
(* What the generator's invariant says *)

Start == SizeOf(options.seek)
Before == {"options", "seed", "open"}
Looping == {"loop", "fill", "filled"}

GeneratorTyped ==
  /\ options \in Options
  /\ phase \in Before \cup Looping \cup {"unwind", "exit"}
  /\ left \in Nat \cup {Unbounded}
  /\ emitted \in Seq(Cells)
  /\ phase # "options" => Usable \/ phase = "exit"
  /\ phase \in Before => emitted = << >> /\ pc = "idle"
  /\ phase # "exit" => status = Running

\* What was emitted is the slice from its start.
Emitted ==
  Usable => \A i \in 1 .. Len(emitted) :
              Start + i <= StreamLen => emitted[i] = Byte(Start + (i - 1))

\* Between buffers the reader is behind what was emitted; a full buffer
\* holds what comes next.
Follows ==
  /\ phase \in {"open", "loop", "fill"} =>
       pc = "idle" /\ ~stopped /\ reader.position = (Start + Len(emitted)) % StreamLen
  /\ phase = "filled" => from = (Start + Len(emitted)) % StreamLen /\ Len(out) = Take

\* What was emitted and what is left make the length.
Budgeted ==
  phase \in Looping \cup {"seed", "open"} =>
    IF left = Unbounded THEN SizeOf(options.length) = Unbounded
    ELSE left + Len(emitted) = SizeOf(options.length)

\* The file's side, while nothing was refused.
Submitted ==
  phase \in Before \cup Looping /\ ToFile => accepted = Len(emitted) /\ ~refused

Completed ==
  status = 0 /\ ~torn =>
    /\ Usable /\ Len(emitted) = SizeOf(options.length)
    /\ ToFile => length = Len(emitted) /\ \A u \in Offsets : u < Len(emitted) => disk[u] = u

SliceInv == GeneratorTyped /\ Emitted /\ Follows /\ Budgeted /\ Submitted /\ Completed

\* In either client; any step of the tool starts before its exit.
ToolInv == ReaderInv /\ (client = "blake3ppgen" => SliceInv)

-----------------------------------------------------------------------------
(* Sizes and the budget *)

LEMMA Buffers ==
  /\ BlockLen \in Nat \ {0} /\ StreamLen \in Nat \ {0}
  /\ Capacity \in Nat \ {0} /\ SegmentBytes \in Nat
BY Sizes, TextsAssumption

LEMMA TextIs ==
  ASSUME NEW text \in Texts, ~Malformed(text)
  PROVE  /\ SizeOf(text) \in (0 .. StreamLen - 1) \cup {Unbounded}
         /\ SizeOf(text) = Unbounded <=> text.unit = "inf"
         /\ text.unit # "inf" =>
              /\ text.base * Multiplier[text.unit] \in Nat
              /\ SizeOf(text) = (text.base * Multiplier[text.unit]) % StreamLen
<1>1. CASE text.unit = "inf"
  BY <1>1 DEF SizeOf, Unbounded
<1>2. CASE text.unit # "inf"
  <2>1. text.base \in 0 .. StreamLen - 1 /\ Multiplier[text.unit] \in Nat
    BY <1>2, TextsAssumption DEF Malformed
  <2>2. PICK b \in Nat, k \in Nat : b = text.base /\ k = Multiplier[text.unit]
    BY <2>1, Buffers
  <2>3. PICK a \in Nat : a = b * k
    <3>1. b * k \in Nat
      OBVIOUS
    <3> QED
      BY <3>1
  <2>4. a % StreamLen \in 0 .. StreamLen - 1
    BY Buffers, DivMod
  <2>5. SizeOf(text) = a % StreamLen
    BY <1>2, <2>2, <2>3 DEF SizeOf
  <2> QED
    BY <1>2, <2>2, <2>3, <2>4, <2>5 DEF Unbounded
<1> QED
  BY <1>1, <1>2

LEMMA OptionsAre ==
  ASSUME options \in Options
  PROVE  options.seek \in Texts /\ options.length \in Texts
BY DEF Options

\* A usable offset is a place in the stream.
LEMMA StartIs ==
  ASSUME options \in Options, Usable
  PROVE  Start \in 0 .. StreamLen - 1
<1>1. options.seek \in Texts /\ ~Malformed(options.seek) /\ SizeOf(options.seek) # Unbounded
  BY OptionsAre DEF Usable
<1> QED
  BY <1>1, TextIs DEF Start

LEMMA TakeIs ==
  ASSUME left \in Nat \cup {Unbounded}
  PROVE  /\ Take \in Nat
         /\ left # Unbounded => Take <= left /\ Consumed = left - Take /\ Consumed \in Nat
         /\ left = Unbounded => Consumed = Unbounded
<1>1. CASE left = Unbounded
  BY <1>1, Buffers DEF Take, Consumed
<1>2. CASE left # Unbounded
  <2>1. left \in Nat
    BY <1>2
  <2>2. Take \in Nat /\ Take <= left
    BY <1>2, <2>1, Buffers DEF Take, Smaller
  <2>3. Consumed = left - Take
    BY <1>2 DEF Consumed
  <2> QED
    BY <1>2, <2>1, <2>2, <2>3
<1> QED
  BY <1>1, <1>2

\* What the arguments say does not change.
LEMMA Rigid ==
  ASSUME options' = options
  PROVE  /\ Usable' <=> Usable
         /\ ToFile' <=> ToFile
         /\ Start' = Start
         /\ SizeOf(options.length)' = SizeOf(options.length)
BY DEF Usable, ToFile, Start

-----------------------------------------------------------------------------
(* The generator's steps *)

\* A step that ends the run without success, or on its way to that.
LEMMA GivesUp ==
  ASSUME SliceInv, UNCHANGED <<options, emitted, left>>, Usable \/ phase' = "exit",
         \/ phase' = "unwind" /\ status' = Running
         \/ phase' = "exit" /\ status' # 0
  PROVE  SliceInv'
<1>1. GeneratorTyped'
  BY Rigid DEF SliceInv, GeneratorTyped, Looping, Before
<1>2. Emitted'
  BY Rigid DEF SliceInv, Emitted
<1>3. Follows' /\ Budgeted' /\ Submitted'
  BY DEF Follows, Budgeted, Submitted, Looping, Before
<1>4. Completed'
  BY DEF Completed, Running
<1> QED
  BY <1>1, <1>2, <1>3, <1>4 DEF SliceInv

LEMMA ReadOptionsKeeps ==
  ASSUME ReaderInv, SliceInv, ReadOptions
  PROVE  SliceInv'
<1>1. /\ phase = "options" /\ UNCHANGED <<vars, sinkVars, toolVars, emitted, torn, stuck>>
      /\ options' = options /\ emitted' = emitted /\ pc' = pc /\ accepted' = accepted
      /\ refused' = refused
  BY DEF ReadOptions, toolVars, vars, sinkVars
<1>2. CASE ~Usable
  BY <1>1, <1>2, GivesUp DEF ReadOptions, Exit
<1>3. CASE Usable
  <2>1. /\ phase' = "seed" /\ left' = SizeOf(options.length) /\ status' = status
    BY <1>3 DEF ReadOptions
  <2>2. /\ options \in Options /\ emitted = << >> /\ emitted \in Seq(Cells) /\ pc = "idle"
        /\ status = Running
    BY <1>1 DEF SliceInv, GeneratorTyped, Before
  <2>3. SizeOf(options.length) \in Nat \cup {Unbounded}
    <3>1. options.length \in Texts /\ ~Malformed(options.length)
      BY <1>3, <2>2, OptionsAre DEF Usable
    <3>2. SizeOf(options.length) \in (0 .. StreamLen - 1) \cup {Unbounded}
      BY <3>1, TextIs
    <3> QED
      BY <3>2, Buffers
  <2>4. GeneratorTyped'
    BY <1>1, <1>3, <2>1, <2>2, <2>3, Rigid DEF GeneratorTyped, Before, Looping
  <2>5. Emitted' /\ Follows'
    BY <1>1, <2>1, Rigid DEF SliceInv, Emitted, Follows
  <2>6. Budgeted'
    <3>1. Len(emitted) = 0
      BY <2>2
    <3>2. left' # Unbounded => left' + Len(emitted) = left'
      BY <2>1, <2>3, <3>1
    <3> QED
      BY <1>1, <2>1, <3>2, Rigid DEF Budgeted
  <2>7. Submitted'
    BY <1>1, <2>1, Rigid DEF SliceInv, Submitted, Before
  <2>8. Completed'
    BY <2>1, <2>2 DEF Completed, Running
  <2> QED
    BY <2>4, <2>5, <2>6, <2>7, <2>8 DEF SliceInv
<1> QED
  BY <1>2, <1>3

LEMMA SeedKeeps ==
  ASSUME ReaderInv, SliceInv, Seed
  PROVE  ReaderInv' /\ SliceInv'
<1>1. /\ phase = "seed" /\ phase' \in {"open", "loop"} /\ CallSeek(Start)
      /\ options' = options /\ emitted' = emitted /\ left' = left /\ status' = status
      /\ accepted' = accepted /\ refused' = refused
  BY DEF Seed, Start, toolVars, sinkVars
<1>2. /\ options \in Options /\ Usable /\ emitted = << >> /\ emitted \in Seq(Cells)
      /\ status = Running /\ left \in Nat \cup {Unbounded}
  BY <1>1 DEF SliceInv, GeneratorTyped, Before
<1>3. Start \in 0 .. StreamLen - 1
  BY <1>2, StartIs
<1>4. ReaderInv'
  BY <1>1, <1>3, SeekKeeps
<1>5. pc' = "idle" /\ ~stopped' /\ from' = Start /\ out' = << >>
  BY <1>1 DEF CallSeek
<1>6. reader'.position = (Start + Len(emitted)) % StreamLen
  <2>1. Len(out') = 0 /\ Len(emitted) = 0
    BY <1>2, <1>5
  <2> QED
    BY <1>4, <1>5, <2>1 DEF ReaderInv, Returned
<1>7. GeneratorTyped'
  BY <1>1, <1>2, <1>5, Rigid DEF GeneratorTyped, Before, Looping
<1>8. Emitted'
  BY <1>1, Rigid DEF SliceInv, Emitted
<1>9. Follows'
  BY <1>1, <1>5, <1>6, Rigid DEF Follows
<1>10. Budgeted'
  BY <1>1, Rigid DEF SliceInv, Budgeted
<1>11. Submitted'
  BY <1>1, Rigid DEF SliceInv, Submitted, Before, Looping
<1>12. Completed'
  BY <1>1, <1>2 DEF Completed, Running
<1> QED
  BY <1>4, <1>7, <1>8, <1>9, <1>10, <1>11, <1>12 DEF SliceInv


\* A step between two buffers that leaves the reader alone.
LEMMA MovesOn ==
  ASSUME SliceInv, phase \in {"open", "loop"}, phase' \in {"loop", "fill"},
         UNCHANGED <<vars, options, emitted, left, status, accepted, refused>>
  PROVE  SliceInv'
<1>1. /\ options' = options /\ emitted' = emitted /\ left' = left /\ status' = status
      /\ accepted' = accepted /\ refused' = refused
      /\ pc' = pc /\ stopped' = stopped /\ reader' = reader
  BY DEF vars
<1>2. /\ options \in Options /\ Usable /\ emitted \in Seq(Cells) /\ left \in Nat \cup {Unbounded}
      /\ status = Running
  BY DEF SliceInv, GeneratorTyped
<1>3. GeneratorTyped'
  BY <1>1, <1>2, Rigid DEF GeneratorTyped, Before, Looping
<1>4. Emitted'
  BY <1>1, Rigid DEF SliceInv, Emitted
<1>5. Follows'
  BY <1>1, Rigid DEF SliceInv, Follows
<1>6. Budgeted'
  BY <1>1, Rigid DEF SliceInv, Budgeted, Looping
<1>7. Submitted'
  BY <1>1, Rigid DEF SliceInv, Submitted, Before, Looping
<1>8. Completed'
  BY <1>1, <1>2 DEF Completed, Running
<1> QED
  BY <1>3, <1>4, <1>5, <1>6, <1>7, <1>8 DEF SliceInv

\* A step inside "filled" or into it: the buffer is what comes next.
LEMMA Buffered ==
  ASSUME SliceInv, phase \in {"fill", "filled"}, phase' = "filled",
         UNCHANGED <<options, emitted, left, status, accepted, refused>>,
         from' = (Start + Len(emitted)) % StreamLen, Len(out') = Take
  PROVE  SliceInv'
<1>1. /\ options' = options /\ emitted' = emitted /\ left' = left /\ status' = status
      /\ accepted' = accepted /\ refused' = refused
  OBVIOUS
<1>2. /\ options \in Options /\ Usable /\ emitted \in Seq(Cells) /\ left \in Nat \cup {Unbounded}
      /\ status = Running
  BY DEF SliceInv, GeneratorTyped
<1>3. GeneratorTyped'
  BY <1>1, <1>2, Rigid DEF GeneratorTyped, Before, Looping
<1>4. Emitted'
  BY <1>1, Rigid DEF SliceInv, Emitted
<1>5. Follows'
  <2>1. Take' = Take
    BY <1>1 DEF Take
  <2> QED
    BY <1>1, <2>1, Rigid DEF Follows
<1>6. Budgeted'
  BY <1>1, Rigid DEF SliceInv, Budgeted, Looping
<1>7. Submitted'
  BY <1>1, Rigid DEF SliceInv, Submitted, Before, Looping
<1>8. Completed'
  BY <1>1, <1>2 DEF Completed, Running
<1> QED
  BY <1>3, <1>4, <1>5, <1>6, <1>7, <1>8 DEF SliceInv

LEMMA FillBufferKeeps ==
  ASSUME ReaderInv, SliceInv, FillBuffer
  PROVE  ReaderInv' /\ SliceInv'
<1>1. /\ phase = "fill" /\ phase' = "filled"
      /\ UNCHANGED <<options, emitted, left, status, accepted, refused>>
      /\ CallParallelFill(Take, SegmentBytes) \/ CallFill(Take)
  BY DEF FillBuffer, toolVars, sinkVars
<1>2. left \in Nat \cup {Unbounded} /\ reader.position = (Start + Len(emitted)) % StreamLen
  BY <1>1 DEF SliceInv, GeneratorTyped, Follows
<1>3. Take \in Nat /\ SegmentBytes \in Nat
  BY <1>2, TakeIs, Buffers
<1>4. ReaderInv' /\ Len(out') = Take /\ from' = reader.position
  <2>1. CASE CallFill(Take)
    BY <1>3, <2>1, FillKeeps DEF CallFill
  <2>2. CASE CallParallelFill(Take, SegmentBytes)
    BY <1>3, <2>2, ParallelFillKeeps
  <2> QED
    BY <1>1, <2>1, <2>2
<1> QED
  BY <1>1, <1>2, <1>4, Buffered

LEMMA FillGoesOn ==
  ASSUME ReaderInv, SliceInv, SegmentRuns \/ SchedulerStops
  PROVE  ReaderInv' /\ SliceInv'
<1>1. /\ phase = "filled" /\ phase' = "filled"
      /\ UNCHANGED <<options, emitted, left, status, accepted, refused>>
  BY DEF SegmentRuns, SchedulerStops, toolVars, sinkVars
<1>2. from = (Start + Len(emitted)) % StreamLen /\ Len(out) = Take
  BY <1>1 DEF SliceInv, Follows
<1>3. ReaderInv' /\ Len(out') = Len(out) /\ from' = from
  <2>1. CASE \E i \in todo : FillSegment(i)
    BY <2>1, SegmentKeeps
  <2>2. CASE Join
    BY <2>2, JoinKeeps
  <2>3. CASE Stopped
    BY <2>3, StoppedKeeps
  <2> QED
    BY <2>1, <2>2, <2>3 DEF SegmentRuns, SchedulerStops
<1> QED
  BY <1>1, <1>2, <1>3, Buffered

\* The first n bytes of a buffer that fill() returned.
LEMMA Emits ==
  ASSUME ReaderInv, SliceInv, Filled, NEW piece, NEW n \in 0 .. Take,
         piece = SubSeq(out, 1, n) \/ (piece = out /\ n = Take),
         options' = options, emitted' = emitted \o piece
  PROVE  /\ emitted' \in Seq(Cells) /\ Len(emitted') = Len(emitted) + n
         /\ Emitted'
<1>1. /\ options \in Options /\ Usable /\ emitted \in Seq(Cells) /\ left \in Nat \cup {Unbounded}
      /\ from = (Start + Len(emitted)) % StreamLen /\ Len(out) = Take
      /\ out \in Seq(Cells) /\ \A i \in 1 .. Len(out) : out[i] # Junk
  BY DEF SliceInv, GeneratorTyped, Follows, Filled, ReaderInv, ReaderTyped, Returned
<1>2. Take \in Nat /\ n \in Nat /\ n <= Len(out)
  BY <1>1, TakeIs
<1>3. piece \in Seq(Cells) /\ Len(piece) = n /\ \A i \in 1 .. n : piece[i] = out[i]
  <2>1. CASE piece = out /\ n = Take
    BY <1>1, <2>1
  <2>2. CASE piece = SubSeq(out, 1, n)
    <3>1. PICK s : s = SubSeq(out, 1, n)
      OBVIOUS
    <3>2. s \in Seq(Cells) /\ Len(s) = n /\ \A i \in 1 .. n : s[i] = out[i]
      BY <1>1, <1>2, <3>1
    <3> QED
      BY <2>2, <3>1, <3>2
  <2> QED
    BY <2>1, <2>2
<1>4. PICK d \in Nat : d = Len(emitted)
  BY <1>1
<1>5. PICK new : new = emitted'
  OBVIOUS
<1>6. /\ new \in Seq(Cells) /\ Len(new) = d + n
      /\ \A i \in 1 .. d : new[i] = emitted[i]
      /\ \A i \in d + 1 .. d + n : new[i] = piece[i - d]
  <2>1. /\ emitted \in Seq(Cells) /\ piece \in Seq(Cells) /\ new = emitted \o piece
        /\ d = Len(emitted) /\ n = Len(piece)
    BY <1>1, <1>3, <1>4, <1>5
  <2> QED
    BY <2>1, Concatenation
<1>7. PICK p \in 0 .. StreamLen - 1 : p = Start
  BY <1>1, StartIs
<1>8. ASSUME NEW i \in 1 .. d + n, p + i <= StreamLen
      PROVE  new[i] = Byte(p + (i - 1))
  <2>1. CASE i <= d
    <3>1. i \in 1 .. d
      BY <1>8, <2>1
    <3>2. emitted[i] = Byte(p + (i - 1))
      BY <1>1, <1>4, <1>7, <1>8, <3>1 DEF SliceInv, Emitted
    <3> QED
      BY <1>6, <3>1, <3>2
  <2>2. CASE i > d
    <3>1. PICK j \in 1 .. n : j = i - d
      <4>1. i - d \in 1 .. n
        BY <1>2, <1>8, <2>2
      <4> QED
        BY <4>1
    <3>2. PICK a \in Nat : a = p + d /\ a < StreamLen
      <4>1. p + d \in Nat /\ p + d < StreamLen
        BY <1>7, <1>8, <2>2, Buffers
      <4> QED
        BY <4>1
    <3>3. from = a
      <4>1. a % StreamLen = a
        BY <3>2, Small, Buffers
      <4> QED
        BY <1>1, <1>4, <1>7, <3>2, <4>1
    <3>4. a + j <= StreamLen /\ a + j - 1 = p + (i - 1)
      BY <1>8, <3>1, <3>2, <1>7
    <3>5. j \in 1 .. Len(out)
      BY <1>2, <3>1
    <3>6. out[j] \in {Byte(a + j - 1), Junk}
      BY <3>3, <3>4, <3>5 DEF ReaderInv, Written
    <3>7. out[j] = Byte(p + (i - 1))
      BY <1>1, <3>4, <3>5, <3>6
    <3>8. i \in d + 1 .. d + n
      BY <1>2, <1>8, <2>2
    <3> QED
      BY <1>3, <1>6, <3>1, <3>7, <3>8
  <2>3. i <= d \/ i > d
    BY <1>2, <1>8
  <2> QED
    BY <2>1, <2>2, <2>3
<1>9. Emitted'
  <2>1. ASSUME NEW i \in 1 .. Len(new), Start + i <= StreamLen
        PROVE  new[i] = Byte(Start + (i - 1))
    BY <1>6, <1>7, <1>8, <2>1
  <2> QED
    BY <1>5, <2>1, Rigid DEF Emitted
<1> QED
  BY <1>4, <1>5, <1>6, <1>9

\* A buffer that was taken whole.
LEMMA BufferTaken ==
  ASSUME ReaderInv, SliceInv, Filled, UNCHANGED <<vars, options, status>>,
         emitted' = emitted \o out, left' = Consumed, phase' = "loop",
         ToFile => accepted' = accepted + Take /\ refused' = refused
  PROVE  SliceInv'
<1>1. /\ options' = options /\ status' = status /\ pc' = pc /\ stopped' = stopped
      /\ reader' = reader
  BY DEF vars
<1>2. /\ options \in Options /\ Usable /\ emitted \in Seq(Cells) /\ left \in Nat \cup {Unbounded}
      /\ from = (Start + Len(emitted)) % StreamLen /\ Len(out) = Take /\ status = Running
      /\ phase = "filled" /\ pc = "idle" /\ ~stopped
      /\ reader.position = (from + Len(out)) % StreamLen
  BY DEF SliceInv, GeneratorTyped, Follows, Filled, ReaderInv, Returned
<1>3. PICK t \in Nat, d \in Nat, p \in Nat : t = Take /\ d = Len(emitted) /\ p = Start
  <2>1. Take \in Nat /\ Len(emitted) \in Nat
    BY <1>2, TakeIs
  <2>2. Start \in Nat
    BY <1>2, StartIs, Buffers
  <2> QED
    BY <2>1, <2>2
<1>4. emitted' \in Seq(Cells) /\ Len(emitted') = d + t /\ Emitted'
  <2>1. Take \in 0 .. Take
    BY <1>3
  <2> QED
    BY <1>1, <1>3, <2>1, Emits
<1>5. /\ left # Unbounded => t <= left /\ left' = left - t /\ left' \in Nat
      /\ left = Unbounded => left' = Unbounded
  BY <1>2, <1>3, TakeIs
<1>6. GeneratorTyped'
  <2>1. left' \in Nat \cup {Unbounded}
    BY <1>5
  <2> QED
    BY <1>1, <1>2, <1>4, <2>1, Rigid DEF GeneratorTyped, Before, Looping
<1>7. Follows'
  <2>1. PICK a \in Nat : a = p + d
    <3>1. p + d \in Nat
      OBVIOUS
    <3> QED
      BY <3>1
  <2>2. from = a % StreamLen
    BY <1>2, <1>3, <2>1
  <2>3. ((a % StreamLen) + t) % StreamLen = (a + t) % StreamLen
    BY Buffers, ModMod
  <2>4. a + t = p + (d + t)
    BY <2>1
  <2>5. reader.position = (p + (d + t)) % StreamLen
    BY <1>2, <1>3, <2>2, <2>3, <2>4
  <2> QED
    BY <1>1, <1>2, <1>3, <1>4, <2>5, Rigid DEF Follows
<1>8. Budgeted'
  <2>1. CASE left = Unbounded
    <3>1. SizeOf(options.length) = Unbounded
      BY <1>2, <2>1 DEF SliceInv, Budgeted, Looping
    <3> QED
      BY <1>1, <1>5, <2>1, <3>1, Rigid DEF Budgeted
  <2>2. CASE left # Unbounded
    <3>1. left + d = SizeOf(options.length)
      BY <1>2, <1>3, <2>2 DEF SliceInv, Budgeted, Looping
    <3>2. PICK l \in Nat : l = left
      BY <1>2, <2>2
    <3>3. PICK k \in Nat : k = left' /\ k = l - t
      BY <1>5, <2>2, <3>2
    <3>4. k + (d + t) = l + d
      BY <3>3
    <3>5. left' + Len(emitted') = SizeOf(options.length)
      BY <1>4, <3>1, <3>2, <3>3, <3>4
    <3>6. left' # Unbounded
      BY <3>3 DEF Unbounded
    <3> QED
      BY <1>1, <3>5, <3>6, Rigid DEF Budgeted
  <2> QED
    BY <2>1, <2>2
<1>9. Submitted'
  <2>1. ToFile => accepted = d /\ ~refused
    BY <1>2, <1>3 DEF SliceInv, Submitted, Looping
  <2> QED
    BY <1>1, <1>3, <1>4, <2>1, Rigid DEF Submitted
<1>10. Completed'
  BY <1>1, <1>2 DEF Completed, Running
<1> QED
  BY <1>4, <1>6, <1>7, <1>8, <1>9, <1>10 DEF SliceInv


\* The run ends with 0 after everything was emitted.
LEMMA Succeeds ==
  ASSUME SliceInv, phase = "loop", Exhausted, UNCHANGED <<options, emitted, left>>,
         phase' = "exit", status' = 0,
         ToFile => /\ length' = accepted
                   /\ \A u \in Offsets : u < accepted => disk'[u] = u
  PROVE  SliceInv'
<1>1. options' = options /\ emitted' = emitted /\ left' = left
  OBVIOUS
<1>2. /\ options \in Options /\ Usable /\ emitted \in Seq(Cells) /\ left \in Nat \cup {Unbounded}
  BY DEF SliceInv, GeneratorTyped
<1>3. Len(emitted) = SizeOf(options.length)
  <2>1. left = 0 /\ left # Unbounded
    BY DEF Exhausted, Unbounded
  <2>2. left + Len(emitted) = SizeOf(options.length)
    BY <2>1 DEF SliceInv, Budgeted, Looping
  <2>3. Len(emitted) \in Nat
    BY <1>2
  <2> QED
    BY <2>1, <2>2, <2>3
<1>4. ToFile => accepted = Len(emitted)
  BY DEF SliceInv, Submitted, Looping
<1>5. GeneratorTyped'
  BY <1>1, <1>2, Rigid DEF GeneratorTyped, Before
<1>6. Emitted'
  BY <1>1, Rigid DEF SliceInv, Emitted
<1>7. Follows' /\ Budgeted' /\ Submitted'
  BY DEF Follows, Budgeted, Submitted, Looping, Before
<1>8. Completed'
  BY <1>1, <1>2, <1>3, <1>4, Rigid DEF Completed
<1> QED
  BY <1>5, <1>6, <1>7, <1>8 DEF SliceInv

LEMMA FinishesKeeps ==
  ASSUME SliceInv, Finishes
  PROVE  SliceInv'
<1>1. /\ phase = "loop" /\ Exhausted /\ ToFile /\ FinishReturns
      /\ phase' = "exit" /\ status' = 0 /\ UNCHANGED <<options, emitted, left>>
  BY DEF Finishes, Exit, toolVars
<1>2. ~refused
  BY <1>1 DEF SliceInv, Submitted, Looping
<1>3. PICK n : n = accepted
  OBVIOUS
<1>4. /\ \A u \in Offsets : u < n => disk[u] = u
      /\ length' = n
      /\ disk' = [u \in Offsets |-> IF u < n THEN disk[u] ELSE Unwritten]
  BY <1>1, <1>2, <1>3 DEF FinishReturns
<1>5. \A u \in Offsets : u < n => disk'[u] = u
  BY <1>4
<1> QED
  BY <1>1, <1>3, <1>4, <1>5, Succeeds

\* The device changes only the file.
LEMMA DeviceKeeps ==
  ASSUME SliceInv, DeviceWrites
  PROVE  SliceInv'
<1>1. /\ phase # "exit" /\ phase' = phase /\ options' = options /\ emitted' = emitted
      /\ left' = left /\ status' = status /\ accepted' = accepted /\ refused' = refused
      /\ pc' = pc /\ stopped' = stopped /\ reader' = reader /\ from' = from /\ out' = out
  BY DEF DeviceWrites, Transfer, toolVars, vars
<1>2. status = Running
  BY <1>1 DEF SliceInv, GeneratorTyped
<1>3. GeneratorTyped'
  BY <1>1, Rigid DEF SliceInv, GeneratorTyped
<1>4. Emitted'
  BY <1>1, Rigid DEF SliceInv, Emitted
<1>5. Follows'
  <2>1. Take' = Take
    BY <1>1 DEF Take
  <2> QED
    BY <1>1, <2>1, Rigid DEF SliceInv, Follows
<1>6. Budgeted'
  BY <1>1, Rigid DEF SliceInv, Budgeted
<1>7. Submitted'
  BY <1>1, Rigid DEF SliceInv, Submitted
<1>8. Completed'
  BY <1>1, <1>2 DEF Completed, Running
<1> QED
  BY <1>3, <1>4, <1>5, <1>6, <1>7, <1>8 DEF SliceInv

LEMMA ProceedsKeeps ==
  ASSUME ReaderInv, SliceInv, Proceeds
  PROVE  ReaderInv' /\ SliceInv'
<1>1. CASE ReadOptions
  BY <1>1, ReadOptionsKeeps, ReaderStands DEF ReadOptions
<1>2. CASE Seed
  BY <1>2, SeedKeeps
<1>3. CASE OpenWriter
  <2>1. /\ phase = "open" /\ phase' = "loop"
        /\ UNCHANGED <<vars, options, emitted, left, status, accepted, refused>>
    BY <1>3 DEF OpenWriter, toolVars
  <2> QED
    BY <2>1, MovesOn, ReaderStands
<1>4. CASE AcquireBuffer
  <2>1. accepted' = accepted /\ refused' = refused
    BY <1>4 DEF AcquireBuffer, Lend, sinkVars
  <2>2. /\ phase = "loop" /\ phase' = "fill"
        /\ UNCHANGED <<vars, options, emitted, left, status, accepted, refused>>
    BY <1>4, <2>1 DEF AcquireBuffer, toolVars
  <2> QED
    BY <2>2, MovesOn, ReaderStands
<1>5. CASE FillBuffer
  BY <1>5, FillBufferKeeps
<1>6. CASE SegmentRuns
  BY <1>6, FillGoesOn
<1>7. CASE SubmitBuffer
  <2>1. /\ Filled /\ UNCHANGED <<vars, options, status>>
        /\ emitted' = emitted \o out /\ left' = Consumed /\ phase' = "loop"
        /\ accepted' = accepted + Take /\ refused' = refused
    BY <1>7 DEF SubmitBuffer, Accept, toolVars
  <2> QED
    BY <2>1, BufferTaken, ReaderStands
<1>8. CASE WriteBuffer
  <2>1. /\ Filled /\ ~ToFile /\ UNCHANGED <<vars, options, status>>
        /\ emitted' = emitted \o out /\ left' = Consumed /\ phase' = "loop"
    BY <1>8 DEF WriteBuffer, toolVars
  <2> QED
    BY <2>1, BufferTaken, ReaderStands
<1>9. CASE EndsStdout
  BY <1>9, Succeeds, ReaderStands DEF EndsStdout, Exit, toolVars
<1>10. CASE Finishes
  BY <1>10, FinishesKeeps, ReaderStands DEF Finishes
<1> QED
  BY <1>1, <1>2, <1>3, <1>4, <1>5, <1>6, <1>7, <1>8, <1>9, <1>10 DEF Proceeds

\* A short write is the last one, and the status says nothing of it.
LEMMA CutShortKeeps ==
  ASSUME ReaderInv, SliceInv, WriteCutShort
  PROVE  SliceInv'
<1>1. /\ Filled /\ options' = options /\ left' = left /\ phase' = "exit" /\ torn'
      /\ options \in Options /\ left \in Nat \cup {Unbounded}
  BY DEF WriteCutShort, Exit, toolVars, SliceInv, GeneratorTyped
<1>2. PICK n \in 0 .. Take - 1 : emitted' = emitted \o SubSeq(out, 1, n)
  BY DEF WriteCutShort
<1>3. n \in 0 .. Take
  BY <1>1, <1>2, TakeIs
<1>4. emitted' \in Seq(Cells) /\ Emitted'
  BY <1>1, <1>2, <1>3, Emits
<1>5. GeneratorTyped'
  BY <1>1, <1>4 DEF GeneratorTyped, Before
<1>6. Follows' /\ Budgeted' /\ Submitted' /\ Completed'
  BY <1>1 DEF Follows, Budgeted, Submitted, Completed, Looping, Before
<1> QED
  BY <1>4, <1>5, <1>6 DEF SliceInv

LEMMA FailsKeeps ==
  ASSUME ReaderInv, SliceInv, Fails
  PROVE  ReaderInv' /\ SliceInv'
<1>1. phase \notin {"options", "exit"} => Usable /\ status = Running
  BY DEF SliceInv, GeneratorTyped
<1>2. CASE SeedFails
  BY <1>2, GivesUp, ReaderStands DEF SeedFails, Exit, toolVars
<1>3. CASE OpenThrows
  BY <1>3, GivesUp, ReaderStands DEF OpenThrows, Exit, toolVars
<1>4. CASE AcquireThrows
  BY <1>1, <1>4, GivesUp, ReaderStands DEF AcquireThrows, WriterThrows, Unwinds, toolVars
<1>5. CASE SchedulerStops
  BY <1>5, FillGoesOn
<1>6. CASE FillThrows
  <2>1. /\ phase = "filled" /\ UNCHANGED <<vars, options, emitted, left>>
        /\ \/ phase' = "unwind" /\ status' = status
           \/ phase' = "exit" /\ status' = 134
    BY <1>6 DEF FillThrows, Unwinds, Exit, Terminated, toolVars
  <2> QED
    BY <1>1, <2>1, GivesUp, ReaderStands
<1>7. CASE SubmitThrows
  BY <1>1, <1>7, GivesUp, ReaderStands DEF SubmitThrows, WriterThrows, Unwinds, Filled, toolVars
<1>8. CASE WriteCutShort
  BY <1>8, CutShortKeeps, ReaderStands DEF WriteCutShort
<1>9. CASE FinishThrows
  BY <1>1, <1>9, GivesUp, ReaderStands DEF FinishThrows, WriterThrows, Unwinds, toolVars
<1>10. CASE Unwind
  BY <1>10, GivesUp, ReaderStands DEF Unwind, Exit, toolVars
<1> QED
  BY <1>2, <1>3, <1>4, <1>5, <1>6, <1>7, <1>8, <1>9, <1>10 DEF Fails

LEMMA LibraryKeeps ==
  ASSUME ReaderInv, Next
  PROVE  ReaderInv'
<1>1. MaxRequest \in Nat /\ Segments \subseteq Nat
  BY StreamAssumption
<1>2. ASSUME NEW p \in 0 .. StreamLen - 1, CallSeek(p) PROVE ReaderInv'
  BY <1>2, SeekKeeps
<1>3. ASSUME NEW n \in 0 .. MaxRequest, CallFill(n) PROVE ReaderInv'
  <2>1. n \in Nat
    BY <1>1
  <2> QED
    BY <1>3, <2>1, FillKeeps DEF CallFill
<1>4. ASSUME NEW n \in 0 .. MaxRequest, NEW bytes \in Segments, CallParallelFill(n, bytes)
      PROVE  ReaderInv'
  <2>1. n \in Nat /\ bytes \in Nat
    BY <1>1
  <2> QED
    BY <1>4, <2>1, ParallelFillKeeps
<1>5. ASSUME NEW i \in todo, FillSegment(i) PROVE ReaderInv'
  BY <1>5, SegmentKeeps
<1> QED
  BY <1>2, <1>3, <1>4, <1>5, JoinKeeps, StoppedKeeps DEF Next


LEMMA ReaderStarts ==
  ASSUME Init
  PROVE  ReaderInv
<1>1. /\ BlockLen \in Nat \ {0} /\ StreamLen \in Nat \ {0} /\ 0 \in 0 .. StreamLen - 1
  BY Sizes
<1>2. /\ pc = "idle" /\ out = << >> /\ from = 0 /\ stopped = FALSE /\ segment = BlockLen
      /\ reader = [position |-> 0, valid |-> FALSE, cached |-> 0,
                   cache |-> [i \in 1 .. BlockLen |-> Junk]]
  BY DEF Init
<1>3. PICK blank : blank = [i \in 1 .. BlockLen |-> Junk]
  OBVIOUS
<1>4. blank \in Seq(Cells) /\ Len(blank) = BlockLen
  BY <1>1, <1>3 DEF Cells
<1>5. reader \in Readers
  BY <1>1, <1>2, <1>3, <1>4 DEF Readers
<1>6. Len(out) = 0 /\ out \in Seq(Cells)
  BY <1>2
<1>7. ReaderTyped /\ Written /\ Parallel
  <2>1. stopped \in BOOLEAN /\ segment \in Nat \ {0} /\ from \in 0 .. StreamLen - 1
    BY <1>1, <1>2
  <2>2. ReaderTyped
    BY <1>2, <1>5, <1>6, <2>1 DEF ReaderTyped
  <2>3. Written
    BY <1>6 DEF Written
  <2>4. Parallel
    BY <1>2 DEF Parallel
  <2> QED
    BY <2>2, <2>3, <2>4
<1>8. Returned
  <2>1. 0 % StreamLen = 0
    BY <1>1, Small
  <2> QED
    BY <1>2, <1>6, <2>1 DEF Returned
<1> QED
  BY <1>7, <1>8 DEF ReaderInv

LEMMA GeneratorStarts ==
  ASSUME GeneratorInit, client = "blake3ppgen"
  PROVE  SliceInv
<1>1. /\ options \in Options /\ phase = "options" /\ left = 0 /\ emitted = << >>
      /\ status = Running /\ pc = "idle" /\ accepted = 0 /\ ~refused
  BY DEF GeneratorInit, Init, SinkInit
<1>2. Len(emitted) = 0 /\ emitted \in Seq(Cells)
  BY <1>1
<1>3. GeneratorTyped
  BY <1>1, <1>2 DEF GeneratorTyped, Before
<1>4. Emitted
  BY <1>2 DEF Emitted
<1>5. Follows /\ Budgeted /\ Submitted /\ Completed
  BY <1>1, <1>2 DEF Follows, Budgeted, Submitted, Completed, Looping, Before, Running
<1> QED
  BY <1>3, <1>4, <1>5 DEF SliceInv

-----------------------------------------------------------------------------
(* Theorems *)

LEMMA ToolsStart ==
  ASSUME ToolsInit
  PROVE  ToolInv
BY ReaderStarts, GeneratorStarts DEF ToolsInit, GeneratorInit, ToolInv

LEMMA ToolsKeep ==
  ASSUME ToolInv, [ToolsNext]_toolsVars
  PROVE  ToolInv'
<1>1. ASSUME UNCHANGED generatorVars PROVE ToolInv'
  <2>1. UNCHANGED vars /\ UNCHANGED <<client, options, phase, left, emitted, torn, status>>
        /\ UNCHANGED sinkVars
    BY <1>1 DEF generatorVars, toolVars
  <2>2. ReaderInv'
    BY <2>1, ReaderStands DEF ToolInv
  <2>3. SliceInv => SliceInv'
    <3>1. UNCHANGED <<reader, pc, out, from, stopped>>
      BY <2>1 DEF vars
    <3>2. UNCHANGED <<accepted, refused, disk, length>>
      BY <2>1 DEF sinkVars
    <3>3. Take' = Take
      BY <2>1 DEF Take
    <3>4. options' = options
      BY <2>1
    <3>5. GeneratorTyped => GeneratorTyped'
      BY <2>1, <3>1, <3>4, Rigid DEF GeneratorTyped
    <3>6. Emitted => Emitted'
      BY <2>1, <3>4, Rigid DEF Emitted
    <3>7. Follows => Follows'
      BY <2>1, <3>1, <3>3, <3>4, Rigid DEF Follows
    <3>8. Budgeted => Budgeted'
      BY <2>1, <3>4, Rigid DEF Budgeted
    <3>9. Submitted => Submitted'
      BY <2>1, <3>2, <3>4, Rigid DEF Submitted
    <3>10. Completed => Completed'
      BY <2>1, <3>2, <3>4, Rigid DEF Completed
    <3> QED
      BY <3>5, <3>6, <3>7, <3>8, <3>9, <3>10 DEF SliceInv
  <2> QED
    BY <2>1, <2>2, <2>3 DEF ToolInv
<1>2. ASSUME client = "library", Library PROVE ToolInv'
  <2>1. ReaderInv'
    BY <1>2, LibraryKeeps DEF Library, ToolInv
  <2>2. client' = client
    BY <1>2 DEF Library, toolVars
  <2> QED
    BY <1>2, <2>1, <2>2 DEF ToolInv
<1>3. ASSUME client = "blake3ppgen", Proceeds PROVE ToolInv'
  <2>1. ReaderInv /\ SliceInv
    BY <1>3 DEF ToolInv
  <2> QED
    BY <1>3, <2>1, ProceedsKeeps DEF ToolInv
<1>4. ASSUME client = "blake3ppgen", Fails PROVE ToolInv'
  <2>1. ReaderInv /\ SliceInv
    BY <1>4 DEF ToolInv
  <2> QED
    BY <1>4, <2>1, FailsKeeps DEF ToolInv
<1>5. ASSUME client = "blake3ppgen", DeviceWrites PROVE ToolInv'
  <2>1. ReaderInv /\ SliceInv
    BY <1>5 DEF ToolInv
  <2>2. UNCHANGED vars
    BY <1>5 DEF DeviceWrites
  <2> QED
    BY <1>5, <2>1, <2>2, DeviceKeeps, ReaderStands DEF ToolInv
<1> QED
  BY <1>1, <1>2, <1>3, <1>4, <1>5 DEF ToolsNext, GeneratorNext, toolsVars

THEOREM Invariance == Spec => []ToolInv
<1>1. ToolsInit => ToolInv
  BY ToolsStart
<1>2. ToolInv /\ [ToolsNext]_toolsVars => ToolInv'
  BY ToolsKeep
<1> QED
  BY <1>1, <1>2, PTL DEF Spec

LEMMA ServesTheStream ==
  ASSUME ToolInv
  PROVE  BytesAreTheStreams
<1>1. ReaderInv /\ out \in Seq(Cells)
  BY DEF ToolInv, ReaderInv, ReaderTyped
<1>2. DOMAIN out = 1 .. Len(out)
  BY <1>1
<1>3. \A i \in DOMAIN out : from + i <= StreamLen => out[i] \in {Byte(from + i - 1), Junk}
  BY <1>1, <1>2 DEF ReaderInv, Written
<1>4. pc = "idle" /\ ~stopped => Junk \notin Range(out)
  BY <1>1, <1>2 DEF ReaderInv, Returned, Range
<1>5. pc = "idle" =>
        reader.position = (IF stopped THEN from ELSE (from + Len(out)) % StreamLen)
  BY <1>1 DEF ReaderInv, Returned
<1> QED
  BY <1>3, <1>4, <1>5 DEF BytesAreTheStreams

(***************************************************************************)
(* The output reader serves the stream: whatever was requested and sought  *)
(* before, by fill() or by the parallel fill() over any segment size and   *)
(* in any order of its segments, stopped or not, a byte that was written   *)
(* is the stream's byte of its position, a request that returned has       *)
(* written all of its bytes, and the reader is behind them, or where it    *)
(* was when the request was stopped.  For every block length, stream       *)
(* length, request, seek and segment size.                                 *)
(***************************************************************************)
THEOREM StreamIsServed == Spec => []BytesAreTheStreams
<1>1. ToolInv => BytesAreTheStreams
  BY ServesTheStream
<1> QED
  BY <1>1, Invariance, PTL

LEMMA EmitsTheSlice ==
  ASSUME ToolInv
  PROVE  SliceExact
<1> SUFFICES ASSUME client = "blake3ppgen", Usable
             PROVE  /\ \A i \in DOMAIN emitted : Start + i <= StreamLen => emitted[i] = Slice(i)
                    /\ status = 0 /\ ~torn /\ Asked < StreamLen =>
                         /\ Len(emitted) = Asked
                         /\ ToFile => length = Asked /\ \A u \in Offsets : u < Asked => disk[u] = u
  BY DEF SliceExact, Start
<1>1. SliceInv /\ options \in Options /\ emitted \in Seq(Cells)
  BY DEF ToolInv, SliceInv, GeneratorTyped
<1>2. PICK p \in Nat : p = Start
  BY <1>1, StartIs, Buffers
<1>3. ASSUME NEW i \in DOMAIN emitted, Start + i <= StreamLen PROVE emitted[i] = Slice(i)
  <2>1. i \in 1 .. Len(emitted)
    BY <1>1
  <2>2. emitted[i] = Byte(Start + (i - 1))
    BY <1>1, <1>3, <2>1 DEF SliceInv, Emitted
  <2>3. p + i - 1 = p + (i - 1)
    BY <2>1
  <2> QED
    BY <1>2, <2>2, <2>3 DEF Slice, Start
<1>4. ASSUME status = 0, ~torn, Asked < StreamLen PROVE Len(emitted) = Asked
  <2>1. Len(emitted) = SizeOf(options.length) /\ Len(emitted) \in Nat
    BY <1>1, <1>4 DEF SliceInv, Completed
  <2>2. options.length \in Texts /\ ~Malformed(options.length)
    BY <1>1, OptionsAre DEF Usable
  <2>3. options.length.unit # "inf"
    BY <2>1, <2>2, TextIs DEF Unbounded
  <2>4. Asked \in Nat /\ SizeOf(options.length) = Asked % StreamLen
    BY <2>2, <2>3, TextIs DEF Asked
  <2>5. Asked % StreamLen = Asked
    BY <1>4, <2>4, Small, Buffers
  <2> QED
    BY <2>1, <2>4, <2>5
<1>5. ASSUME status = 0, ~torn, Asked < StreamLen, ToFile
      PROVE  length = Asked /\ \A u \in Offsets : u < Asked => disk[u] = u
  BY <1>1, <1>4, <1>5 DEF SliceInv, Completed
<1> QED
  BY <1>3, <1>4, <1>5

(***************************************************************************)
(* blake3ppgen emits the slice it was asked for: sequentially or over any  *)
(* number of segments, into a file written in any order or to standard     *)
(* output, with any failure on the way.  For every size of the buffers, of *)
(* the segments, of the stream and of the arguments.                       *)
(***************************************************************************)
THEOREM SliceIsEmitted == Spec => []SliceExact
<1>1. ToolInv => SliceExact
  BY EmitsTheSlice
<1> QED
  BY <1>1, Invariance, PTL

-----------------------------------------------------------------------------
(* What the checksum tool's invariant says *)

\* Operands that were dealt with.
Done == Len(Operands) - Len(pending)

\* What is left of L behind its first p elements.
Suffix(s, L, p) ==
  /\ p \in 0 .. Len(L) /\ s \in Seq(Range(L)) /\ Len(s) = Len(L) - p
  /\ \A j \in 1 .. Len(s) : s[j] = L[p + j]

ListOk(i) ==
  \A j \in DOMAIN ListOf(Operands[i]) :
    Verified(ListOf(Operands[i])[j]) \/ (Operands[i] = Stdin /\ TakenBefore(i, j))

\* None of the first k lists is or names standard input.
Untouched(k) ==
  \A h \in 1 .. k : /\ Operands[h] # Stdin
                    /\ Operands[h] \in DOMAIN ListFiles =>
                         \A line \in Range(ListFiles[Operands[h]]) : ~TakesInput(line)

HashesTo(i) == <<Operands[i], Digest(key, OperandData(i))>>

SumTyped ==
  /\ command \in Commands /\ failures \in Nat
  /\ step \in {"guard", "key", "operands", "lines", "exit"}
  /\ step # "exit" => code = NotExited
  /\ step \in {"guard", "key"} =>
       printed = << >> /\ failures = 0 /\ stdin = command.input /\ ~cut
  /\ step \in {"operands", "lines"} =>
       /\ Suffix(pending, Operands, Done)
       /\ command.key = Stdin => \A i \in 1 .. Len(Operands) : Operands[i] # Stdin
  /\ step = "key" => ~KeyTakesInput
  /\ step = "lines" => command.check /\ pending # << >>
  /\ code = 2 => printed = << >> /\ failures = 0
  /\ code = 0 => failures = 0 /\ pending = << >>

\* Without --check: a digest for every operand, unless there was a failure.
Hashed ==
  ~command.check /\ (step = "operands" \/ code = 0) =>
    /\ failures = 0 => printed = [i \in 1 .. Done |-> HashesTo(i)]
    /\ command.key # Stdin =>
         stdin = IF \E j \in 1 .. Done : Operands[j] = Stdin THEN << >> ELSE command.input

\* With it: every list that was read to its end.
Listed ==
  command.check =>
    /\ (step \in {"operands", "lines"} \/ code = 0) /\ failures = 0 /\ ~cut =>
         \A i \in 1 .. Done : ListOk(i)
    /\ step = "operands" /\ command.key # Stdin /\ Untouched(Done) => stdin = command.input

\* The lines of the list in hand that were looked at.
FileListed(L) ==
  \E p \in 0 .. Len(L) :
    /\ Suffix(lines, L, p)
    /\ failures = 0 => \A j \in 1 .. p : Verified(L[j])
    /\ command.key # Stdin /\ Untouched(Done) /\ (\A j \in 1 .. p : ~TakesInput(L[j])) =>
         stdin = command.input

InputListed(L) ==
  Untouched(Done) =>
    \E p \in 0 .. Len(L) :
      /\ failures = 0 => \A j \in 1 .. p : Verified(L[j])
      /\ \/ Suffix(stdin, L, p) /\ \A j \in 1 .. p : ~TakesInput(L[j])
         \/ stdin = << >> /\ p > 0 /\ TakesInput(L[p])

Listing ==
  step = "lines" =>
    IF Head(pending) = Stdin THEN InputListed(command.input)
    ELSE Head(pending) \in DOMAIN ListFiles /\ FileListed(ListFiles[Head(pending)])

SumInv == SumTyped /\ Hashed /\ Listed /\ Listing

-----------------------------------------------------------------------------
(* Suffixes *)

LEMMA WholeSuffix ==
  ASSUME NEW L, IsSequence(L)
  PROVE  Suffix(L, L, 0)
<1>1. PICK S : S = Range(L) /\ L \in Seq(S)
  BY DEF IsSequence
<1>2. Len(L) \in Nat
  BY <1>1
<1>3. 0 \in 0 .. Len(L) /\ Len(L) = Len(L) - 0 /\ \A j \in 1 .. Len(L) : L[j] = L[0 + j]
  BY <1>2
<1> QED
  BY <1>1, <1>3 DEF Suffix

LEMMA TailSuffix ==
  ASSUME NEW L, IsSequence(L), NEW s, NEW p, Suffix(s, L, p), s # << >>
  PROVE  /\ p + 1 \in 1 .. Len(L) /\ Head(s) = L[p + 1] /\ Suffix(Tail(s), L, p + 1)
<1>1. PICK S : S = Range(L) /\ L \in Seq(S) /\ s \in Seq(S)
  BY DEF IsSequence, Suffix
<1>2. PICK n \in Nat, m \in Nat : n = Len(L) /\ m = Len(s)
  BY <1>1
<1>3. m # 0
  BY <1>1, <1>2
<1>4. p \in 0 .. n /\ m = n - p /\ \A j \in 1 .. m : s[j] = L[p + j]
  BY <1>2 DEF Suffix
<1>5. p + 1 \in 1 .. n
  BY <1>3, <1>4
<1>6. Head(s) = s[1]
  BY <1>1
<1>7. Head(s) = L[p + 1]
  <2>1. 1 \in 1 .. m
    BY <1>3
  <2> QED
    BY <1>4, <1>6, <2>1
<1>8. PICK t : t = Tail(s)
  OBVIOUS
<1>9. t \in Seq(S) /\ Len(t) = m - 1 /\ \A j \in 1 .. m - 1 : t[j] = s[j + 1]
  BY <1>1, <1>2, <1>3, <1>8
<1>10. ASSUME NEW j \in 1 .. m - 1 PROVE t[j] = L[(p + 1) + j]
  <2>1. j + 1 \in 1 .. m /\ p + (j + 1) = (p + 1) + j
    BY <1>4
  <2> QED
    BY <1>4, <1>9, <2>1
<1>11. m - 1 = n - (p + 1) /\ p + 1 \in 0 .. n
  BY <1>4, <1>5
<1> QED
  BY <1>1, <1>2, <1>5, <1>7, <1>8, <1>9, <1>10, <1>11 DEF Suffix

LEMMA EndSuffix ==
  ASSUME NEW L, IsSequence(L), NEW p, Suffix(<< >>, L, p)
  PROVE  p = Len(L)
<1>1. Len(L) \in Nat
  BY DEF IsSequence
<1>2. p \in 0 .. Len(L) /\ Len(<< >>) = Len(L) - p
  BY DEF Suffix
<1> QED
  BY <1>1, <1>2

LEMMA OperandsAre ==
  ASSUME command \in Commands
  PROVE  /\ IsSequence(Operands) /\ IsSequence(command.input) /\ command.check \in BOOLEAN
         /\ Len(Operands) \in Nat /\ DOMAIN Operands = 1 .. Len(Operands)
<1>1. /\ IsSequence(command.files) /\ IsSequence(command.input) /\ command.check \in BOOLEAN
  BY CommandsAssumption
<1>2. IsSequence(Operands)
  <2>1. CASE command.files = << >>
    <3>1. PICK one : one = <<Stdin>>
      OBVIOUS
    <3>2. DOMAIN one = 1 .. 1 /\ one[1] = Stdin
      BY <3>1
    <3>3. Stdin \in Range(one)
      BY <3>2 DEF Range
    <3>4. one \in Seq(Range(one))
      BY <3>1, <3>3
    <3> QED
      BY <2>1, <3>1, <3>4 DEF Operands, IsSequence
  <2>2. CASE command.files # << >>
    BY <1>1, <2>2 DEF Operands
  <2> QED
    BY <2>1, <2>2
<1>3. Len(Operands) \in Nat /\ DOMAIN Operands = 1 .. Len(Operands)
  BY <1>2 DEF IsSequence
<1> QED
  BY <1>1, <1>2, <1>3

\* What is said of the arguments and the files does not change.
LEMMA SumRigid ==
  ASSUME command' = command, key' = key
  PROVE  /\ Operands' = Operands
         /\ \A i : HashesTo(i)' = HashesTo(i)
         /\ \A i : ListOk(i)' <=> ListOk(i)
         /\ \A k : Untouched(k)' <=> Untouched(k)
         /\ \A line : Verified(line)' <=> Verified(line)
<1>1. Operands' = Operands
  BY DEF Operands
<1>2. \A i : HashesTo(i)' = HashesTo(i)
  BY <1>1 DEF HashesTo, OperandData
<1>3. \A line : Verified(line)' <=> Verified(line)
  BY DEF Verified
<1>4. \A operand : ListOf(operand)' = ListOf(operand)
  BY DEF ListOf
<1>5. \A i, j : TakenBefore(i, j)' <=> TakenBefore(i, j)
  BY <1>1, <1>4 DEF TakenBefore
<1>6. \A i : ListOk(i)' <=> ListOk(i)
  BY <1>1, <1>3, <1>4, <1>5 DEF ListOk
<1>7. \A k : Untouched(k)' <=> Untouched(k)
  BY <1>1 DEF Untouched
<1> QED
  BY <1>1, <1>2, <1>3, <1>6, <1>7

\* The operand in hand.
LEMMA InHand ==
  ASSUME SumTyped, step \in {"operands", "lines"}, pending # << >>
  PROVE  /\ Done \in Nat /\ Done + 1 \in 1 .. Len(Operands)
         /\ Head(pending) = Operands[Done + 1]
         /\ Suffix(Tail(pending), Operands, Done + 1)
         /\ Len(Operands) - Len(Tail(pending)) = Done + 1
<1>1. IsSequence(Operands) /\ Suffix(pending, Operands, Done) /\ Len(Operands) \in Nat
  BY OperandsAre DEF SumTyped
<1>2. PICK d : d = Done
  OBVIOUS
<1>3. /\ d + 1 \in 1 .. Len(Operands) /\ Head(pending) = Operands[d + 1]
      /\ Suffix(Tail(pending), Operands, d + 1)
  BY <1>1, <1>2, TailSuffix
<1>4. d \in 0 .. Len(Operands)
  BY <1>1, <1>2 DEF Suffix
<1>5. Len(Operands) - Len(Tail(pending)) = d + 1
  <2>1. Len(Tail(pending)) = Len(Operands) - (d + 1)
    BY <1>3 DEF Suffix
  <2> QED
    BY <1>1, <1>4, <2>1
<1> QED
  BY <1>1, <1>2, <1>3, <1>4, <1>5

-----------------------------------------------------------------------------
(* The checksum tool's steps *)

LEMMA ChecksumStarts ==
  ASSUME ChecksumInit
  PROVE  SumInv
BY DEF ChecksumInit, SumInv, SumTyped, Hashed, Listed, Listing, NotExited

LEMMA GuardKeeps ==
  ASSUME SumInv, Guard
  PROVE  SumInv'
<1>1. /\ step = "guard" /\ command' = command /\ stdin' = stdin /\ printed' = printed
      /\ failures' = failures /\ cut' = cut /\ pending' = pending
      /\ \/ step' = "exit" /\ code' = 2
         \/ step' = "key" /\ code' = code /\ ~KeyTakesInput
  BY DEF Guard, Exits
<1>2. /\ command \in Commands /\ failures \in Nat /\ code = NotExited /\ printed = << >>
      /\ failures = 0 /\ stdin = command.input /\ ~cut
  BY <1>1 DEF SumInv, SumTyped
<1>3. KeyTakesInput' <=> KeyTakesInput
  BY <1>1 DEF KeyTakesInput
<1>4. SumTyped'
  BY <1>1, <1>2, <1>3 DEF SumTyped, NotExited
<1>5. Hashed' /\ Listed' /\ Listing'
  BY <1>1, <1>2 DEF Hashed, Listed, Listing, NotExited
<1> QED
  BY <1>4, <1>5 DEF SumInv

LEMMA LoadKeyKeeps ==
  ASSUME SumInv, LoadKey
  PROVE  SumInv'
<1>1. /\ step = "key" /\ command' = command /\ printed' = printed
      /\ failures' = failures /\ cut' = cut
      /\ command.key # Stdin => stdin' = stdin
      /\ \/ step' = "exit" /\ code' = 2
         \/ step' = "operands" /\ code' = code /\ pending' = Operands
  BY DEF LoadKey, Exits, Operands
<1>2. /\ command \in Commands /\ failures \in Nat /\ code = NotExited /\ printed = << >>
      /\ failures = 0 /\ stdin = command.input /\ ~cut /\ ~KeyTakesInput
  BY <1>1 DEF SumInv, SumTyped
<1>3. CASE step' = "exit" /\ code' = 2
  <2>1. SumTyped'
    BY <1>1, <1>2, <1>3 DEF SumTyped
  <2>2. Hashed' /\ Listed' /\ Listing'
    BY <1>3 DEF Hashed, Listed, Listing
  <2> QED
    BY <2>1, <2>2 DEF SumInv
<1>4. CASE step' = "operands" /\ code' = code /\ pending' = Operands
  <2>1. /\ IsSequence(Operands) /\ Len(Operands) \in Nat /\ Operands' = Operands
        /\ DOMAIN Operands = 1 .. Len(Operands)
    BY <1>1, <1>2, OperandsAre DEF Operands
  <2>2. Done' = 0
    BY <1>4, <2>1 DEF Done
  <2>3. Suffix(pending, Operands, Done)'
    <3>1. Suffix(Operands, Operands, 0)
      BY <2>1, WholeSuffix
    <3>2. (Suffix(pending, Operands, Done))' <=> Suffix(Operands, Operands, 0)
      BY <1>4, <2>1, <2>2 DEF Suffix
    <3> QED
      BY <3>1, <3>2
  <2>4. command.key = Stdin => \A i \in 1 .. Len(Operands) : Operands[i] # Stdin
    BY <1>2, <2>1 DEF KeyTakesInput, Operands, Range
  <2>5. SumTyped'
    BY <1>1, <1>2, <1>4, <2>1, <2>3, <2>4 DEF SumTyped, NotExited
  <2>6. Hashed'
    <3>1. [i \in 1 .. 0 |-> HashesTo(i)'] = << >>
      OBVIOUS
    <3>2. command.key # Stdin => stdin' = command.input
      BY <1>1, <1>2
    <3> QED
      BY <1>1, <1>2, <2>2, <3>1, <3>2 DEF Hashed
  <2>7. Listed'
    BY <1>1, <1>2, <2>2 DEF Listed
  <2>8. Listing'
    BY <1>4 DEF Listing
  <2> QED
    BY <2>5, <2>6, <2>7, <2>8 DEF SumInv
<1> QED
  BY <1>1, <1>3, <1>4


\* An operand is dealt with: the typing of what follows.
LEMMA OperandTyped ==
  ASSUME SumTyped, step \in {"operands", "lines"}, pending # << >>,
         command' = command, failures' \in Nat, step' = "operands", code' = code,
         pending' = Tail(pending)
  PROVE  SumTyped' /\ Done' = Done + 1 /\ code' # 0 /\ Operands' = Operands
<1>1. Operands' = Operands
  BY DEF Operands
<1>2. /\ Suffix(Tail(pending), Operands, Done + 1)
      /\ Len(Operands) - Len(Tail(pending)) = Done + 1
  BY InHand
<1>3. Done' = Done + 1
  BY <1>1, <1>2 DEF Done
<1>4. Suffix(pending, Operands, Done)'
  <2>1. (Suffix(pending, Operands, Done))' <=> Suffix(pending', Operands', Done')
    BY DEF Suffix
  <2> QED
    BY <1>1, <1>2, <1>3, <2>1
<1>5. code' = NotExited
  BY DEF SumTyped
<1>6. command.key = Stdin => \A i \in 1 .. Len(Operands) : Operands[i] # Stdin
  BY DEF SumTyped
<1>7. command \in Commands
  BY DEF SumTyped
<1> QED
  BY <1>1, <1>3, <1>4, <1>5, <1>6, <1>7 DEF SumTyped, NotExited

LEMMA HashOperandKeeps ==
  ASSUME SumInv, HashOperand
  PROVE  SumInv'
<1>1. /\ step = "operands" /\ pending # << >> /\ ~command.check
      /\ command' = command /\ step' = step /\ key' = key /\ code' = code /\ cut' = cut
      /\ pending' = Tail(pending)
      /\ stdin' = InputAfter(Head(pending), stdin)
      /\ \/ /\ printed' = Append(printed, <<Head(pending), Digest(key, Content(Head(pending), stdin))>>)
            /\ failures' = failures
         \/ failures' = failures + 1
  BY DEF HashOperand, Operand, OperandDone, CatchCounts
<1>2. SumTyped /\ failures \in Nat
  BY DEF SumInv, SumTyped
<1>3. failures' \in Nat /\ (failures' = 0 => failures = 0)
  BY <1>1, <1>2
<1>4. SumTyped' /\ Done' = Done + 1 /\ code' # 0
  BY <1>1, <1>2, <1>3, OperandTyped
<1>5. PICK k \in Nat : k = Done
  BY <1>1, <1>2, InHand
<1>6. /\ k + 1 \in 1 .. Len(Operands) /\ Head(pending) = Operands[k + 1]
  BY <1>1, <1>2, <1>5, InHand
<1>7. /\ failures = 0 => printed = [i \in 1 .. k |-> HashesTo(i)]
      /\ command.key # Stdin =>
           stdin = IF \E j \in 1 .. k : Operands[j] = Stdin THEN << >> ELSE command.input
      /\ command.key = Stdin => Operands[k + 1] # Stdin
  <2>1. command.key = Stdin => \A i \in 1 .. Len(Operands) : Operands[i] # Stdin
    BY <1>1, <1>2 DEF SumTyped
  <2> QED
    BY <1>1, <1>5, <1>6, <2>1 DEF SumInv, Hashed
<1>8. Operands' = Operands /\ \A i : HashesTo(i)' = HashesTo(i)
  BY <1>1, SumRigid
<1>9. ASSUME failures' = 0
      PROVE  printed' = [i \in 1 .. k + 1 |-> HashesTo(i)]
  <2>1. Content(Operands[k + 1], stdin) = OperandData(k + 1)
    <3>1. CASE Operands[k + 1] # Stdin
      BY <3>1 DEF Content, OperandData
    <3>2. CASE Operands[k + 1] = Stdin
      <4>1. (k + 1) - 1 = k
        OBVIOUS
      <4> QED
        BY <1>7, <3>2, <4>1 DEF Content, OperandData
    <3> QED
      BY <3>1, <3>2
  <2>2. printed' = Append(printed, HashesTo(k + 1))
    BY <1>1, <1>2, <1>6, <1>9, <2>1 DEF HashesTo
  <2>3. PICK old : old = printed /\ old = [i \in 1 .. k |-> HashesTo(i)]
    BY <1>3, <1>7, <1>9
  <2>4. PICK S : S = {HashesTo(i) : i \in 1 .. k + 1}
    OBVIOUS
  <2>5. \A i \in 1 .. k + 1 : HashesTo(i) \in S
    BY <2>4
  <2>6. PICK last \in S : last = HashesTo(k + 1)
    BY <2>5
  <2>7. old \in Seq(S) /\ Len(old) = k
    BY <2>3, <2>5
  <2>8. PICK new : new = Append(old, last)
    OBVIOUS
  <2>9. new \in Seq(S) /\ Len(new) = k + 1 /\ (\A i \in 1 .. k : new[i] = old[i]) /\ new[k + 1] = last
    BY <2>7, <2>8
  <2>10. \A i \in 1 .. k + 1 : new[i] = HashesTo(i)
    BY <2>3, <2>6, <2>9
  <2>11. DOMAIN new = 1 .. k + 1
    BY <2>9
  <2>12. new = [i \in 1 .. k + 1 |-> new[i]]
    BY <2>9, <2>11
  <2>13. new = [i \in 1 .. k + 1 |-> HashesTo(i)]
    BY <2>10, <2>12
  <2> QED
    BY <2>2, <2>3, <2>6, <2>8, <2>13
<1>10. command.key # Stdin =>
         stdin' = IF \E j \in 1 .. k + 1 : Operands[j] = Stdin THEN << >> ELSE command.input
  BY <1>1, <1>6, <1>7 DEF InputAfter
<1>11. Hashed'
  BY <1>1, <1>4, <1>5, <1>8, <1>9, <1>10 DEF Hashed
<1>12. Listed' /\ Listing'
  BY <1>1 DEF Listed, Listing
<1> QED
  BY <1>4, <1>11, <1>12 DEF SumInv

LEMMA OpenListKeeps ==
  ASSUME SumInv, OpenList
  PROVE  SumInv'
<1>1. /\ step = "operands" /\ pending # << >> /\ command.check
      /\ command' = command /\ key' = key /\ code' = code /\ cut' = cut /\ stdin' = stdin
      /\ printed' = printed
  BY DEF OpenList, Operand
<1>2. SumTyped /\ failures \in Nat /\ command \in Commands /\ code = NotExited
  BY <1>1 DEF SumInv, SumTyped
<1>3. PICK k \in Nat : k = Done /\ k + 1 \in 1 .. Len(Operands) /\ Head(pending) = Operands[k + 1]
  BY <1>1, <1>2, InHand
<1>4. /\ failures = 0 /\ ~cut => \A i \in 1 .. k : ListOk(i)
      /\ command.key # Stdin /\ Untouched(k) => stdin = command.input
  BY <1>1, <1>3 DEF SumInv, Listed
<1>5. Operands' = Operands /\ (\A i : ListOk(i)' <=> ListOk(i))
      /\ (\A i : Untouched(i)' <=> Untouched(i))
  BY <1>1, SumRigid
<1>6. ASSUME Head(pending) = Stdin \/ Head(pending) \in DOMAIN ListFiles,
             step' = "lines", pending' = pending, failures' = failures,
             lines' = IF Head(pending) = Stdin THEN << >> ELSE ListFiles[Head(pending)]
      PROVE  SumInv'
  <2>1. Done' = Done
    BY <1>5, <1>6 DEF Done
  <2>2. Suffix(pending, Operands, Done)'
    <3>1. (Suffix(pending, Operands, Done))' <=> Suffix(pending', Operands', Done')
      BY DEF Suffix
    <3> QED
      BY <1>1, <1>2, <1>5, <1>6, <2>1, <3>1 DEF SumTyped
  <2>3. SumTyped'
    BY <1>1, <1>2, <1>5, <1>6, <2>2 DEF SumTyped, NotExited
  <2>4. Hashed'
    BY <1>1 DEF Hashed
  <2>5. Listed'
    BY <1>1, <1>2, <1>3, <1>4, <1>5, <1>6, <2>1 DEF Listed
  <2>6. Listing'
    <3>1. CASE Head(pending) = Stdin
      <4>1. command.key # Stdin
        BY <1>1, <1>2, <1>3, <3>1 DEF SumTyped
      <4>2. ASSUME Untouched(k) PROVE Suffix(command.input, command.input, 0)
        BY <1>2, OperandsAre, WholeSuffix
      <4>3. ASSUME Untouched(k)
            PROVE  /\ 0 \in 0 .. Len(command.input)
                   /\ \A j \in 1 .. 0 : Verified(command.input[j])' /\ ~TakesInput(command.input[j])
                   /\ Suffix(stdin', command.input, 0)
        BY <1>1, <1>4, <4>1, <4>2, <4>3 DEF Suffix
      <4>4. PICK L : L = command.input
        OBVIOUS
      <4>5. (Suffix(stdin, L, 0))' <=> Suffix(stdin', L, 0)
        BY DEF Suffix
      <4>6. InputListed(L)'
        BY <1>3, <1>5, <2>1, <4>3, <4>4, <4>5 DEF InputListed
      <4>7. (InputListed(command.input))' <=> InputListed(L)'
        BY <1>1, <4>4 DEF InputListed, Suffix
      <4> QED
        BY <1>6, <3>1, <4>6, <4>7 DEF Listing
    <3>2. CASE Head(pending) # Stdin
      <4>1. PICK L : L = ListFiles[Head(pending)]
        OBVIOUS
      <4>2. IsSequence(L) /\ Suffix(L, L, 0) /\ lines' = L
        BY <1>6, <3>2, <4>1, CommandsAssumption, WholeSuffix
      <4>3. (Suffix(lines, L, 0))' <=> Suffix(lines', L, 0)
        BY DEF Suffix
      <4>4. 0 \in 0 .. Len(L) /\ \A j \in 1 .. 0 : Verified(L[j])'
        BY <4>2 DEF Suffix
      <4>5. command.key # Stdin /\ Untouched(Done)' => stdin' = command.input
        BY <1>1, <1>3, <1>4, <1>5, <2>1
      <4>6. FileListed(L)'
        BY <1>1, <4>2, <4>3, <4>4, <4>5 DEF FileListed
      <4>7. (FileListed(ListFiles[Head(pending)]))' <=> FileListed(L)'
        BY <1>6, <4>1 DEF FileListed, Suffix
      <4> QED
        BY <1>6, <3>2, <4>6, <4>7 DEF Listing
    <3> QED
      BY <3>1, <3>2
  <2> QED
    BY <2>3, <2>4, <2>5, <2>6 DEF SumInv
<1>7. ASSUME Head(pending) # Stdin, pending' = Tail(pending), failures' = failures + 1,
             step' = step
      PROVE  SumInv'
  <2>1. failures' \in Nat /\ failures' # 0
    BY <1>2, <1>7
  <2>2. SumTyped' /\ Done' = k + 1
    BY <1>1, <1>2, <1>3, <1>7, <2>1, OperandTyped
  <2>3. Untouched(k + 1) => Untouched(k)
    BY DEF Untouched
  <2>4. Listed'
    BY <1>1, <1>3, <1>4, <1>5, <2>1, <2>2, <2>3 DEF Listed
  <2>5. Hashed' /\ Listing'
    BY <1>1, <1>7 DEF Hashed, Listing
  <2> QED
    BY <2>2, <2>4, <2>5 DEF SumInv
<1> QED
  BY <1>6, <1>7 DEF OpenList, OperandDone


\* What becomes of a line that leaves the count at nothing.
LEMMA VerdictIs ==
  ASSUME NEW line, NEW input, failures \in Nat, Verdict(line, input)
  PROVE  failures' \in Nat /\ (failures' = 0 => failures = 0 /\ Verified(line))
<1>1. CASE line.form = "blank" /\ failures' = failures
  BY <1>1 DEF Verified
<1>2. CASE failures' = failures + 1
  BY <1>2
<1>3. CASE /\ line.form = "entry" /\ CanRead(line.name)
           /\ failures' = failures + (IF Matches(line, Content(line.name, input)) THEN 0 ELSE 1)
  <2>1. CASE Matches(line, Content(line.name, input))
    <3>1. failures' = failures
      BY <1>3, <2>1
    <3>2. Verified(line)
      BY <1>3, <2>1 DEF Verified, Matches, CanRead, Content
    <3> QED
      BY <3>1, <3>2
  <2>2. CASE ~Matches(line, Content(line.name, input))
    <3>1. failures' = failures + 1
      BY <1>3, <2>2
    <3> QED
      BY <3>1
  <2> QED
    BY <2>1, <2>2
<1>4. \/ line.form = "blank" /\ failures' = failures
      \/ failures' = failures + 1
      \/ /\ line.form = "entry" /\ CanRead(line.name)
         /\ failures' = failures + (IF Matches(line, Content(line.name, input)) THEN 0 ELSE 1)
  BY DEF Verdict, CatchCounts
<1> QED
  BY <1>1, <1>2, <1>3, <1>4

LEMMA CheckLineKeeps ==
  ASSUME SumInv, CheckLine
  PROVE  SumInv'
<1>1. /\ step = "lines" /\ step' = step /\ command' = command /\ key' = key /\ code' = code
      /\ cut' = cut /\ pending' = pending /\ Unread # << >>
  BY DEF CheckLine
<1>2. SumTyped /\ failures \in Nat /\ command \in Commands /\ code = NotExited
      /\ command.check /\ pending # << >>
  BY <1>1 DEF SumInv, SumTyped
<1>3. PICK k \in Nat : k = Done
  BY <1>1, <1>2, InHand
<1>4. failures = 0 /\ ~cut => \A i \in 1 .. k : ListOk(i)
  BY <1>1, <1>2, <1>3 DEF SumInv, Listed
<1>5. /\ Operands' = Operands /\ (\A i : ListOk(i)' <=> ListOk(i))
      /\ (\A i : Untouched(i)' <=> Untouched(i))
      /\ (\A line : Verified(line)' <=> Verified(line))
  BY <1>1, SumRigid
<1>6. Done' = k
  BY <1>1, <1>3, <1>5 DEF Done
<1>7. PICK line, input : /\ line = Head(Unread)
                         /\ input = IF OnStdin THEN Tail(stdin) ELSE stdin
  OBVIOUS
<1>8. /\ Verdict(line, input)
      /\ stdin' = IF line.form = "entry" THEN InputAfter(line.name, input) ELSE input
      /\ lines' = IF OnStdin THEN lines ELSE Tail(lines)
  BY <1>7 DEF CheckLine
<1>9. failures' \in Nat /\ (failures' = 0 => failures = 0 /\ Verified(line))
  BY <1>2, <1>8, VerdictIs
<1>10. stdin' = IF TakesInput(line) THEN << >> ELSE input
  BY <1>8 DEF TakesInput, InputAfter
<1>11. SumTyped'
  <2>1. (Suffix(pending, Operands, Done))' <=> Suffix(pending', Operands', Done')
    BY DEF Suffix
  <2>2. Suffix(pending, Operands, Done)'
    BY <1>1, <1>2, <1>3, <1>5, <1>6, <2>1 DEF SumTyped
  <2> QED
    BY <1>1, <1>2, <1>5, <1>9, <2>2 DEF SumTyped, NotExited
<1>12. Hashed'
  BY <1>1, <1>2 DEF Hashed
<1>13. Listed'
  BY <1>1, <1>2, <1>3, <1>4, <1>5, <1>6, <1>9 DEF Listed, NotExited
<1>14. CASE Head(pending) = Stdin
  <2>1. PICK L : L = command.input
    OBVIOUS
  <2>2. IsSequence(L) /\ Len(L) \in Nat
    BY <1>2, <2>1, OperandsAre DEF IsSequence
  <2>3. line = Head(stdin) /\ input = Tail(stdin) /\ stdin # << >>
    BY <1>1, <1>7, <1>14 DEF OnStdin, Unread
  <2>4. ASSUME Untouched(k)
        PROVE  \E p \in 0 .. Len(L) :
                 /\ failures' = 0 => \A j \in 1 .. p : Verified(L[j])
                 /\ \/ Suffix(stdin', L, p) /\ \A j \in 1 .. p : ~TakesInput(L[j])
                    \/ stdin' = << >> /\ p > 0 /\ TakesInput(L[p])
    <3>1. PICK p \in 0 .. Len(L) :
            /\ failures = 0 => \A j \in 1 .. p : Verified(L[j])
            /\ Suffix(stdin, L, p) /\ \A j \in 1 .. p : ~TakesInput(L[j])
      BY <1>1, <1>3, <1>14, <2>1, <2>3, <2>4 DEF SumInv, Listing, InputListed
    <3>2. p + 1 \in 1 .. Len(L) /\ line = L[p + 1] /\ Suffix(input, L, p + 1)
      BY <2>2, <2>3, <3>1, TailSuffix
    <3>3. PICK q \in 0 .. Len(L) : q = p + 1 /\ q > 0
      BY <2>2, <3>2
    <3>4. ASSUME failures' = 0, NEW j \in 1 .. q PROVE Verified(L[j])
      <4>1. CASE j = q
        BY <1>9, <3>2, <3>3, <3>4, <4>1
      <4>2. CASE j # q
        <5>1. j \in 1 .. p
          BY <3>3, <4>2
        <5> QED
          BY <1>9, <3>1, <3>4, <5>1
      <4> QED
        BY <4>1, <4>2
    <3>5. CASE TakesInput(line)
      BY <1>10, <3>2, <3>3, <3>4, <3>5
    <3>6. CASE ~TakesInput(line)
      <4>1. ASSUME NEW j \in 1 .. q PROVE ~TakesInput(L[j])
        <5>1. CASE j = q
          BY <3>2, <3>3, <3>6, <5>1
        <5>2. CASE j # q
          <6>1. j \in 1 .. p
            BY <3>3, <5>2
          <6> QED
            BY <3>1, <6>1
        <5> QED
          BY <5>1, <5>2
      <4>2. Suffix(stdin', L, q)
        BY <1>10, <3>2, <3>3, <3>6
      <4> QED
        BY <3>4, <4>1, <4>2
    <3> QED
      BY <3>5, <3>6
  <2>5. \A p : (Suffix(stdin, L, p))' <=> Suffix(stdin', L, p)
    BY DEF Suffix
  <2>6. InputListed(L)'
    BY <1>5, <1>6, <2>4, <2>5 DEF InputListed
  <2>7. (InputListed(command.input))' <=> InputListed(L)'
    BY <1>1, <2>1 DEF InputListed, Suffix
  <2>8. Listing'
    BY <1>1, <1>14, <2>6, <2>7 DEF Listing
  <2> QED
    BY <1>11, <1>12, <1>13, <2>8 DEF SumInv
<1>15. CASE Head(pending) # Stdin
  <2>1. PICK L : L = ListFiles[Head(pending)]
    OBVIOUS
  <2>2. Head(pending) \in DOMAIN ListFiles /\ IsSequence(L) /\ Len(L) \in Nat /\ FileListed(L)
    BY <1>1, <1>15, <2>1, CommandsAssumption DEF SumInv, Listing, IsSequence
  <2>3. line = Head(lines) /\ input = stdin /\ lines # << >> /\ lines' = Tail(lines)
    BY <1>1, <1>7, <1>8, <1>15 DEF OnStdin, Unread
  <2>4. PICK p \in 0 .. Len(L) :
          /\ Suffix(lines, L, p)
          /\ failures = 0 => \A j \in 1 .. p : Verified(L[j])
          /\ command.key # Stdin /\ Untouched(k) /\ (\A j \in 1 .. p : ~TakesInput(L[j])) =>
               stdin = command.input
    BY <1>3, <2>2 DEF FileListed
  <2>5. p + 1 \in 1 .. Len(L) /\ line = L[p + 1] /\ Suffix(lines', L, p + 1)
    BY <2>2, <2>3, <2>4, TailSuffix
  <2>6. PICK q \in 0 .. Len(L) : q = p + 1 /\ q > 0
    BY <2>2, <2>5
  <2>7. ASSUME failures' = 0, NEW j \in 1 .. q PROVE Verified(L[j])
    <3>1. CASE j = q
      BY <1>9, <2>5, <2>6, <2>7, <3>1
    <3>2. CASE j # q
      <4>1. j \in 1 .. p
        BY <2>6, <3>2
      <4> QED
        BY <1>9, <2>4, <2>7, <4>1
    <3> QED
      BY <3>1, <3>2
  <2>8. ASSUME command.key # Stdin, Untouched(k), \A j \in 1 .. q : ~TakesInput(L[j])
        PROVE  stdin' = command.input
    <3>1. q \in 1 .. q /\ 1 .. p \subseteq 1 .. q
      BY <2>6
    <3>2. ~TakesInput(line)
      BY <2>5, <2>6, <2>8, <3>1
    <3>3. stdin = command.input
      BY <2>4, <2>8, <3>1
    <3> QED
      BY <1>10, <2>3, <3>2, <3>3
  <2>9. (Suffix(lines, L, q))' <=> Suffix(lines', L, q)
    BY DEF Suffix
  <2>10. FileListed(L)'
    BY <1>1, <1>5, <1>6, <2>5, <2>6, <2>7, <2>8, <2>9 DEF FileListed
  <2>11. (FileListed(ListFiles[Head(pending)]))' <=> FileListed(L)'
    BY <1>1, <2>1 DEF FileListed, Suffix
  <2>12. Listing'
    BY <1>1, <1>15, <2>2, <2>10, <2>11 DEF Listing
  <2> QED
    BY <1>11, <1>12, <1>13, <2>12 DEF SumInv
<1> QED
  BY <1>14, <1>15

\* At a list's end its lines are verified, or were taken as data; a list that
\* names no standard input has left it alone.
LEMMA ListEnds ==
  ASSUME SumInv, step = "lines"
  PROVE  /\ Unread = << >> /\ failures = 0 /\ ~cut => ListOk(Done + 1)
         /\ command.key # Stdin /\ Untouched(Done + 1) => stdin = command.input
<1>1. SumTyped /\ command \in Commands /\ command.check /\ pending # << >>
  BY DEF SumInv, SumTyped
<1>2. PICK k \in Nat : k = Done /\ k + 1 \in 1 .. Len(Operands) /\ Head(pending) = Operands[k + 1]
  BY <1>1, InHand
<1>3. failures = 0 /\ ~cut => \A i \in 1 .. k : ListOk(i)
  BY <1>1, <1>2 DEF SumInv, Listed
<1>4. CASE Head(pending) = Stdin
  <2>1. PICK L : L = command.input
    OBVIOUS
  <2>2. /\ IsSequence(L) /\ Len(L) \in Nat /\ DOMAIN L = 1 .. Len(L)
        /\ ListOf(Operands[k + 1]) = L
    BY <1>1, <1>2, <1>4, <2>1, OperandsAre DEF IsSequence, ListOf
  <2>3. Unread = stdin
    BY <1>4 DEF Unread, OnStdin
  <2>4. ~Untouched(k + 1)
    <3>1. k + 1 \in 1 .. k + 1
      OBVIOUS
    <3> QED
      BY <1>2, <1>4, <3>1 DEF Untouched
  <2>5. ASSUME Unread = << >>, failures = 0, ~cut, NEW j \in 1 .. Len(L)
        PROVE  Verified(L[j]) \/ TakenBefore(k + 1, j)
    <3>1. CASE Untouched(k)
      <4>1. PICK p \in 0 .. Len(L) :
              /\ \A i \in 1 .. p : Verified(L[i])
              /\ \/ Suffix(stdin, L, p)
                 \/ p > 0 /\ TakesInput(L[p])
        BY <1>2, <1>4, <2>1, <2>5, <3>1 DEF SumInv, Listing, InputListed
      <4>2. CASE j <= p
        <5>1. j \in 1 .. p
          BY <2>2, <4>2
        <5> QED
          BY <4>1, <5>1
      <4>3. CASE j > p
        <5>1. CASE Suffix(stdin, L, p)
          <6>1. p = Len(L)
            BY <2>2, <2>3, <2>5, <5>1, EndSuffix
          <6> QED
            BY <2>2, <4>3, <6>1
        <5>2. CASE p > 0 /\ TakesInput(L[p])
          <6>1. p \in 1 .. j - 1
            BY <2>2, <4>3, <5>2
          <6> QED
            BY <2>1, <5>2, <6>1 DEF TakenBefore
        <5> QED
          BY <4>1, <5>1, <5>2
      <4>4. j <= p \/ j > p
        BY <2>2
      <4> QED
        BY <4>2, <4>3, <4>4
    <3>2. CASE ~Untouched(k)
      <4>1. PICK h \in 1 .. k :
              \/ Operands[h] = Stdin
              \/ /\ Operands[h] # Stdin /\ Operands[h] \in DOMAIN ListFiles
                 /\ \E line \in Range(ListFiles[Operands[h]]) : TakesInput(line)
        BY <3>2 DEF Untouched
      <4>2. h \in 1 .. (k + 1) - 1 /\ \A i \in 1 .. h - 1 : i \in 1 .. (k + 1) - 1
        OBVIOUS
      <4>3. CASE Operands[h] = Stdin
        <5>1. ListOk(h)
          BY <1>3, <2>5
        <5>2. Verified(L[j]) \/ TakenBefore(h, j)
          BY <2>1, <2>2, <4>3, <5>1 DEF ListOk, ListOf
        <5>3. TakenBefore(h, j) => TakenBefore(k + 1, j)
          BY <4>2 DEF TakenBefore
        <5> QED
          BY <5>2, <5>3
      <4>4. CASE /\ Operands[h] # Stdin
                 /\ \E line \in Range(ListFiles[Operands[h]]) : TakesInput(line)
        BY <4>2, <4>4 DEF TakenBefore, ListOf
      <4> QED
        BY <4>1, <4>3, <4>4
    <3> QED
      BY <3>1, <3>2
  <2>6. Unread = << >> /\ failures = 0 /\ ~cut => ListOk(k + 1)
    BY <1>2, <1>4, <2>2, <2>5 DEF ListOk
  <2> QED
    BY <1>2, <2>4, <2>6
<1>5. CASE Head(pending) # Stdin
  <2>1. PICK L : L = ListFiles[Head(pending)]
    OBVIOUS
  <2>2. /\ Head(pending) \in DOMAIN ListFiles /\ IsSequence(L) /\ Len(L) \in Nat
        /\ FileListed(L) /\ DOMAIN L = 1 .. Len(L) /\ ListOf(Operands[k + 1]) = L
    BY <1>2, <1>5, <2>1, CommandsAssumption DEF SumInv, Listing, IsSequence, ListOf
  <2>3. Unread = lines
    BY <1>5 DEF Unread, OnStdin
  <2>4. PICK p \in 0 .. Len(L) :
          /\ Suffix(lines, L, p)
          /\ failures = 0 => \A j \in 1 .. p : Verified(L[j])
          /\ command.key # Stdin /\ Untouched(k) /\ (\A j \in 1 .. p : ~TakesInput(L[j])) =>
               stdin = command.input
    BY <1>2, <2>2 DEF FileListed
  <2>5. Unread = << >> /\ failures = 0 => ListOk(k + 1)
    <3>1. ASSUME Unread = << >>, failures = 0 PROVE \A j \in 1 .. Len(L) : Verified(L[j])
      <4>1. p = Len(L)
        BY <2>2, <2>3, <2>4, <3>1, EndSuffix
      <4> QED
        BY <2>4, <3>1, <4>1
    <3> QED
      BY <2>2, <3>1 DEF ListOk
  <2>6. ASSUME command.key # Stdin, Untouched(k + 1) PROVE stdin = command.input
    <3>1. k + 1 \in 1 .. k + 1 /\ \A i \in 1 .. k : i \in 1 .. k + 1
      OBVIOUS
    <3>2. Untouched(k)
      BY <2>6, <3>1 DEF Untouched
    <3>3. \A line \in Range(L) : ~TakesInput(line)
      BY <1>2, <2>1, <2>2, <2>6, <3>1 DEF Untouched
    <3>4. \A j \in 1 .. p : L[j] \in Range(L)
      BY <2>2 DEF Range
    <3> QED
      BY <2>4, <2>6, <3>2, <3>3, <3>4
  <2> QED
    BY <1>2, <2>5, <2>6
<1> QED
  BY <1>4, <1>5

LEMMA ListDoneKeeps ==
  ASSUME SumInv, EndOfList \/ ListUnreadable
  PROVE  SumInv'
<1>1. /\ step = "lines" /\ step' = "operands" /\ command' = command /\ key' = key
      /\ code' = code /\ failures' = failures /\ stdin' = stdin /\ pending' = Tail(pending)
      /\ \/ cut'
         \/ Unread = << >> /\ cut' = cut
  BY DEF EndOfList, ListUnreadable, OperandDone
<1>2. SumTyped /\ failures \in Nat /\ command.check /\ pending # << >>
  BY <1>1 DEF SumInv, SumTyped
<1>3. SumTyped' /\ Done' = Done + 1 /\ code' # 0
  BY <1>1, <1>2, OperandTyped
<1>4. PICK k \in Nat : k = Done
  BY <1>1, <1>2, InHand
<1>5. /\ Unread = << >> /\ failures = 0 /\ ~cut => ListOk(k + 1)
      /\ command.key # Stdin /\ Untouched(k + 1) => stdin = command.input
      /\ failures = 0 /\ ~cut => \A i \in 1 .. k : ListOk(i)
  BY <1>1, <1>2, <1>4, ListEnds DEF SumInv, Listed
<1>6. /\ (\A i : ListOk(i)' <=> ListOk(i)) /\ (\A i : Untouched(i)' <=> Untouched(i))
  BY <1>1, SumRigid
<1>7. ASSUME failures = 0, ~cut', NEW i \in 1 .. k + 1 PROVE ListOk(i)
  <2>1. i = k + 1 \/ i \in 1 .. k
    OBVIOUS
  <2> QED
    BY <1>1, <1>5, <1>7, <2>1
<1>8. Listed'
  BY <1>1, <1>3, <1>4, <1>5, <1>6, <1>7 DEF Listed
<1>9. Hashed' /\ Listing'
  BY <1>1, <1>2 DEF Hashed, Listing
<1> QED
  BY <1>3, <1>8, <1>9 DEF SumInv

LEMMA FinishKeeps ==
  ASSUME SumInv, Finish
  PROVE  SumInv'
<1>1. /\ step = "operands" /\ pending = << >> /\ step' = "exit"
      /\ code' = (IF failures = 0 THEN 0 ELSE 1)
      /\ command' = command /\ key' = key /\ stdin' = stdin /\ pending' = pending
      /\ failures' = failures /\ printed' = printed /\ cut' = cut
  BY DEF Finish, Exits
<1>2. SumTyped /\ failures \in Nat
  BY DEF SumInv, SumTyped
<1>3. /\ Operands' = Operands /\ (\A i : HashesTo(i)' = HashesTo(i))
      /\ (\A i : ListOk(i)' <=> ListOk(i))
  BY <1>1, SumRigid
<1>4. Done' = Done
  BY <1>1, <1>3 DEF Done
<1>5. SumTyped'
  BY <1>1, <1>2 DEF SumTyped
<1>6. Hashed'
  BY <1>1, <1>3, <1>4 DEF SumInv, Hashed
<1>7. Listed'
  BY <1>1, <1>3, <1>4 DEF SumInv, Listed
<1>8. Listing'
  BY <1>1 DEF Listing
<1> QED
  BY <1>5, <1>6, <1>7, <1>8 DEF SumInv

LEMMA ChecksumKeeps ==
  ASSUME SumInv, [ChecksumNext]_checksumVars
  PROVE  SumInv'
<1>1. ASSUME UNCHANGED checksumVars PROVE SumInv'
  <2>1. /\ command' = command /\ stdin' = stdin /\ step' = step /\ key' = key
        /\ pending' = pending /\ lines' = lines /\ failures' = failures
        /\ printed' = printed /\ cut' = cut /\ code' = code
    BY <1>1 DEF checksumVars
  <2>2. /\ Operands' = Operands /\ (\A i : HashesTo(i)' = HashesTo(i))
        /\ (\A i : ListOk(i)' <=> ListOk(i)) /\ (\A i : Untouched(i)' <=> Untouched(i))
        /\ (\A line : Verified(line)' <=> Verified(line))
    BY <2>1, SumRigid
  <2>3. Done' = Done /\ (KeyTakesInput' <=> KeyTakesInput)
    BY <2>1, <2>2 DEF Done, KeyTakesInput
  <2>4. \A L, p : /\ (Suffix(lines, L, p))' <=> Suffix(lines, L, p)
                  /\ (Suffix(stdin, L, p))' <=> Suffix(stdin, L, p)
    BY <2>1 DEF Suffix
  <2>5. (Suffix(pending, Operands, Done))' <=> Suffix(pending, Operands, Done)
    BY <2>1, <2>2, <2>3 DEF Suffix
  <2>6. SumTyped'
    BY <2>1, <2>2, <2>3, <2>5 DEF SumInv, SumTyped
  <2>7. Hashed'
    BY <2>1, <2>2, <2>3 DEF SumInv, Hashed
  <2>8. Listed'
    BY <2>1, <2>2, <2>3 DEF SumInv, Listed
  <2>9. \A L : (InputListed(L)' <=> InputListed(L)) /\ (FileListed(L)' <=> FileListed(L))
    BY <2>1, <2>2, <2>3, <2>4 DEF InputListed, FileListed
  <2>10. Listing'
    BY <2>1, <2>9 DEF SumInv, Listing
  <2> QED
    BY <2>6, <2>7, <2>8, <2>10 DEF SumInv
<1> QED
  BY <1>1, GuardKeeps, LoadKeyKeeps, HashOperandKeeps, OpenListKeeps, CheckLineKeeps,
     ListDoneKeeps, FinishKeeps DEF ChecksumNext

LEMMA VerdictsAreTrue ==
  ASSUME SumInv
  PROVE  VerdictsRight
<1>1. command \in Commands /\ DOMAIN Operands = 1 .. Len(Operands) /\ Len(Operands) \in Nat
  BY OperandsAre DEF SumInv, SumTyped
<1>2. code = 0 => failures = 0 /\ Done = Len(Operands)
  BY <1>1 DEF SumInv, SumTyped, Done
<1>3. code = 0 /\ ~command.check =>
        printed = [i \in DOMAIN Operands |-> <<Operands[i], Digest(key, OperandData(i))>>]
  BY <1>1, <1>2 DEF SumInv, Hashed, HashesTo
<1>4. code = 0 /\ command.check /\ ~cut =>
        \A i \in DOMAIN Operands :
          \A j \in DOMAIN ListOf(Operands[i]) :
            Verified(ListOf(Operands[i])[j]) \/ (Operands[i] = Stdin /\ TakenBefore(i, j))
  BY <1>1, <1>2 DEF SumInv, Listed, ListOk
<1>5. code = 2 => printed = << >> /\ failures = 0
  BY DEF SumInv, SumTyped
<1> QED
  BY <1>3, <1>4, <1>5 DEF VerdictsRight

(***************************************************************************)
(* blake3ppsum's status 0 is the whole truth, for every disk, every list,  *)
(* every command and every input: all operands were hashed and printed in  *)
(* order, or all lines of all lists that were read to their ends are true, *)
(* and status 2 comes before any work.                                     *)
(***************************************************************************)
THEOREM StatusIsTrue == Spec => []VerdictsRight
<1>1. ToolsInit => SumInv
  BY ChecksumStarts DEF ToolsInit
<1>2. SumInv /\ [ToolsNext]_toolsVars => SumInv'
  BY ChecksumKeeps DEF ToolsNext, toolsVars
<1>3. SumInv => VerdictsRight
  BY VerdictsAreTrue
<1> QED
  BY <1>1, <1>2, <1>3, PTL DEF Spec
=============================================================================
