------------------------------- MODULE Kernel -------------------------------
(***************************************************************************)
(* The compression kernels (src/src/kernel): how a batch of inputs or of   *)
(* output blocks is spread over the lanes of a vector, and the two         *)
(* spellings of the round.                                                 *)
(*                                                                         *)
(* The shuffles move words and never look at them, so a word is its place  *)
(* <<lane, index>> in the buffers the batch is loaded from; a lane whose   *)
(* sixteen words do not come from one input, in order, hashes garbage.     *)
(***************************************************************************)
EXTENDS Blake3

CONSTANTS
  Kernels,  \* the variants of the build: [width, shuffles]
  Word      \* values of a counter word, 2^32

KernelSet == [width : {1, 4, 8, 16}, shuffles : BOOLEAN]

ASSUME KernelAssumption == Kernels \subseteq KernelSet /\ Word \in Nat \ {0}

\* xthead_kernel.cpp: four lanes, gathered word by word, the remainder left
\* to the scalar kernel.
XtheadKernel == [width |-> 4, shuffles |-> FALSE]

\* transpose16_mode
Modes == {"staging", "tree", "quartered"}

Words == 0 .. 15
LanesOf(w) == 0 .. w - 1

-----------------------------------------------------------------------------
(* The shuffle networks: a two-source shuffle takes word i of the result   *)
(* from place index[i] of the concatenation of its sources.                *)

Shuf(index, a, b) ==
  [i \in DOMAIN index |->
     IF index[i] < Len(index) THEN a[index[i] + 1] ELSE b[index[i] - Len(index) + 1]]

\* An index list given by what it takes from each source at each place.
Indices(w, f(_)) == [i \in 1 .. w |-> f(i - 1)]

\* Low (h = 0) and high (h = 1) 32-bit and 64-bit unpacks within groups of
\* four words, and merges of groups and of halves.
Unpack32(w, h) ==
  Indices(w, LAMBDA i : 4 * (i \div 4) + 2 * h + (i % 4) \div 2 + w * (i % 2))
Unpack64(w, h) ==
  Indices(w, LAMBDA i : 4 * (i \div 4) + 2 * h + (i % 2) + w * ((i % 4) \div 2))
MergeGroups(w, h) ==
  Indices(w, LAMBDA i : 8 * (i \div 8) + 4 * h + (i % 4) + w * ((i \div 4) % 2))

\* mutant: the last stage repeats the index lists of the one before
MergeHalvesRepeated(w, h) ==
  Indices(w, LAMBDA i : 4 * h + 8 * (i \div 8) + (i % 4) + w * ((i \div 4) % 2))

MergeHalves(w, h) ==
  Indices(w, LAMBDA i : (w \div 2) * h + (i % (w \div 2)) + w * (i \div (w \div 2)))

\* The stage of a network: register k is made from the registers lo and
\* lo + step, where lo has the bit of step cleared.
UnpackStage32(w, r) ==
  [k \in DOMAIN r |-> LET lo == k - (k % 2) IN Shuf(Unpack32(w, k % 2), r[lo], r[lo + 1])]
UnpackStage64(w, a) ==
  [k \in DOMAIN a |-> LET lo == k - (k % 4) + (k % 4) \div 2
                      IN Shuf(Unpack64(w, k % 2), a[lo], a[lo + 2])]

\* inlane_4x4()
Inlane4x4(w, r) == UnpackStage64(w, UnpackStage32(w, r))

GroupStage(b) ==
  [k \in DOMAIN b |-> LET lo == k - (k % 8) + (k % 4)
                      IN Shuf(MergeGroups(16, (k \div 4) % 2), b[lo], b[lo + 4])]
HalfStage(w, c) ==
  [k \in DOMAIN c |-> LET half == w \div 2
                          lo == k % half
                      IN Shuf(MergeHalves(w, k \div half), c[lo], c[lo + half])]

\* transpose_net() over four, eight and sixteen registers
TransposeNet(w, r) ==
  LET b == Inlane4x4(w, r)
  IN IF w = 4 THEN b ELSE IF w = 8 THEN HalfStage(8, b)
     ELSE HalfStage(16, GroupStage(b))

-----------------------------------------------------------------------------
(* load_transposed() and store_transposed() *)

\* No shuffle backend for the width, or the dial says so.
Staging(kernel, mode) ==
  \/ ~kernel.shuffles \/ kernel.width = 1
  \/ kernel.width = 16 /\ mode = "staging"

\* The scalar gather.
Gathered(w) == [j \in Words |-> [l \in 1 .. w |-> <<l - 1, j>>]]

\* mutant: pieces of four lanes are gathered from consecutive inputs
QuarterInOrder(q) ==
  [k \in 0 .. 3 |-> [i \in 1 .. 16 |-> <<4 * k + (i - 1) \div 4, 4 * q + ((i - 1) % 4)>>]]

\* Registers of the quartered form: 128-bit pieces land transposed by
\* addressing.
Quarter(q) ==
  [k \in 0 .. 3 |-> [i \in 1 .. 16 |-> <<4 * ((i - 1) \div 4) + k, 4 * q + ((i - 1) % 4)>>]]

\* Words g*w .. g*w + w - 1 of every input.
Group16(w, g) == [l \in LanesOf(w) |-> [i \in 1 .. w |-> <<l, g * w + i - 1>>]]

\* The sixteen message vectors of a block.
LoadTransposed(kernel, mode) ==
  LET w == kernel.width
  IN IF Staging(kernel, mode) THEN Gathered(w)
     ELSE IF w = 16 /\ mode = "quartered"
     THEN [j \in Words |-> Inlane4x4(16, Quarter(j \div 4))[j % 4]]
     ELSE [j \in Words |-> TransposeNet(w, Group16(w, j \div w))[j % w]]

\* The word stored at index j of lane l's block, when vector j holds word j
\* of every lane.
StoreTransposed(kernel, mode) ==
  LET w == kernel.width
      vectors(g, n) == [j \in 0 .. n - 1 |-> [l \in 1 .. w |-> <<l - 1, g * n + j>>]]
  IN [l \in LanesOf(w) |-> [j \in Words |->
       IF Staging(kernel, mode) THEN Gathered(w)[j][l + 1]
       ELSE IF w = 16 /\ mode = "quartered"
       THEN Inlane4x4(16, vectors(j \div 4, 4))[l % 4][4 * (l \div 4) + (j % 4) + 1]
       ELSE TransposeNet(w, vectors(j \div w, w))[l][(j % w) + 1]]]

Scrambled == -1

\* The input whose message lane l of a batch compresses, and the lane whose
\* output is stored as block l.
LoadedFrom == [k \in Kernels |-> [mode \in Modes |->
  LET m == LoadTransposed(k, mode)
  IN [l \in LanesOf(k.width) |->
        LET from == m[0][l + 1][1]
        IN IF \A j \in Words : m[j][l + 1] = <<from, j>> THEN from ELSE Scrambled]]]
StoredFrom == [k \in Kernels |-> [mode \in Modes |->
  LET s == StoreTransposed(k, mode)
  IN [l \in LanesOf(k.width) |->
        LET from == s[l][0][1]
        IN IF \A j \in Words : s[l][j] = <<from, j>> THEN from ELSE Scrambled]]]

-----------------------------------------------------------------------------
(* hash_many() and xof_many() *)

\* mutant: a carry out of the low word is lost in all but the first lane
CounterLanesUncarried(counter, lane) ==
  Word * ((counter \div Word) % Word) + ((counter + lane) % Word)

\* counter_lanes(): each lane's 64-bit counter as two words.
CounterLanes(counter, lane) ==
  Word * (((counter + lane) \div Word) % Word) + ((counter + lane) % Word)

\* One input of several blocks, the flags of its first and last added.
ChainOf(blocks, counter, flags, first, last) ==
  LET after[b \in 1 .. Len(blocks)] ==
        Compress(IF b = 1 THEN Key ELSE after[b - 1], blocks[b], counter,
                 flags \cup (IF b = 1 THEN first ELSE {})
                       \cup (IF b = Len(blocks) THEN last ELSE {}))
  IN after[Len(blocks)]

\* Inputs go in batches of the kernel's width, the rest one by one; "modes"
\* are what the batches find in the dial, in turn.
InBatch(kernel, n, i) == kernel.width > 1 /\ i <= n - (n % kernel.width)

HashMany(kernel, modes, inputs, counter, increment, flags, first, last) ==
  LET w == kernel.width
      step(k) == IF increment THEN k ELSE 0
      batch(i) == (i - 1) \div w
      lane(i) == (i - 1) % w
      source(i) == LoadedFrom[kernel][modes[(batch(i) % 2) + 1]][lane(i)]
  IN [i \in 1 .. Len(inputs) |->
       IF ~InBatch(kernel, Len(inputs), i)
       THEN ChainOf(inputs[i], counter + step(i - 1), flags, first, last)
       ELSE IF source(i) = Scrambled THEN [garbage |-> i]
       ELSE ChainOf(inputs[batch(i) * w + source(i) + 1],
                    CounterLanes(counter + step(batch(i) * w), step(lane(i))),
                    flags, first, last)]

\* The counters of the output blocks xof_many() fills.
XofMany(kernel, mode, counter, n) ==
  LET w == kernel.width
  IN [i \in 1 .. n |->
       LET from == StoredFrom[kernel][mode][(i - 1) % w]
           batch == (i - 1) \div w
       IN IF ~InBatch(kernel, n, i) THEN counter + i - 1
          ELSE IF from = Scrambled THEN Scrambled
          ELSE CounterLanes(counter + batch * w, from)]

-----------------------------------------------------------------------------
(* The round, over symbolic words *)

Plus(x, y) == <<"+", x, y>>
XorRot(n, x, y) == <<n, x, y>>

MsgPerm == <<2, 6, 3, 10, 7, 0, 4, 13, 1, 11, 12, 5, 9, 14, 15, 8>>

\* make_msg_schedule()
MsgSchedule ==
  LET s[r \in 0 .. 6] == IF r = 0 THEN [i \in Words |-> i]
                         ELSE [i \in Words |-> s[r - 1][MsgPerm[i + 1]]]
  IN s

\* A quarter round on the state words q = <<a, b, c, d>>.
G(v, q, mx, my) ==
  LET a == q[1] b == q[2] c == q[3] d == q[4]
      a1 == Plus(Plus(v[a], v[b]), mx)
      d1 == XorRot(16, v[d], a1)
      c1 == Plus(v[c], d1)
      b1 == XorRot(12, v[b], c1)
      a2 == Plus(Plus(a1, b1), my)
      d2 == XorRot(8, d1, a2)
      c2 == Plus(c1, d2)
  IN [v EXCEPT ![a] = a2, ![b] = XorRot(7, b1, c2), ![c] = c2, ![d] = d2]

Column(i) == <<i, 4 + i, 8 + i, 12 + i>>
Diagonal(i) == <<i, 4 + ((i + 1) % 4), 8 + ((i + 2) % 4), 12 + ((i + 3) % 4)>>

Message(i) == <<"m", i>>

\* round_fn(): four quarter rounds on the columns, four on the diagonals.
RoundFn(r, v) ==
  LET s == MsgSchedule[r]
      after[k \in 0 .. 8] ==
        IF k = 0 THEN v
        ELSE G(after[k - 1], IF k <= 4 THEN Column(k - 1) ELSE Diagonal(k - 5),
               Message(s[2 * k - 2]), Message(s[2 * k - 1]))
  IN after[8]

\* A micro-step of four quartets at once: word t of quartet i becomes new[i].
Micro(v, quartets, t, new) ==
  [w \in Words |->
     IF \E i \in 0 .. 3 : quartets[i][t] = w
     THEN new[CHOOSE i \in 0 .. 3 : quartets[i][t] = w] ELSE v[w]]

\* mutant: the second half of the quarter rounds reuses the first's words
MessageAtSame(s, at, i, half) == Message(s[at + 2 * i])

\* The word quartet i adds in each half of its quarter round.
MessageAt(s, at, i, half) == Message(s[at + 2 * i + half])

\* Half of a quarter round, micro-step by micro-step over the quartets.
HalfStaged(v, q, words, far, near) ==
  LET add == Micro(v, q, 1, [i \in 0 .. 3 |-> Plus(Plus(v[q[i][1]], v[q[i][2]]), words[i])])
      rot == Micro(add, q, 4, [i \in 0 .. 3 |-> XorRot(far, add[q[i][4]], add[q[i][1]])])
      sum == Micro(rot, q, 3, [i \in 0 .. 3 |-> Plus(rot[q[i][3]], rot[q[i][4]])])
  IN Micro(sum, q, 2, [i \in 0 .. 3 |-> XorRot(near, sum[q[i][2]], sum[q[i][3]])])

\* The eight micro-steps batched over the quartets.
StagedQuartets(s, v, q, at) ==
  LET words(half) == [i \in 0 .. 3 |-> MessageAt(s, at, i, half)]
  IN HalfStaged(HalfStaged(v, q, words(0), 16, 12), q, words(1), 8, 7)

\* round_fn_staged()
RoundFnStaged(r, v) ==
  LET columns == StagedQuartets(MsgSchedule[r], v, [i \in 0 .. 3 |-> Column(i)], 0)
  IN StagedQuartets(MsgSchedule[r], columns, [i \in 0 .. 3 |-> Diagonal(i)], 8)
=============================================================================
