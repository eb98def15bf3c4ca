-------------------------------- MODULE Fec ---------------------------------
(***************************************************************************)
(* libwfb/fec.c: the erasure code of the video link, over GF(2^8).         *)
(* A packet is one symbol here: the code treats the bytes of a packet one  *)
(* by one and alike.                                                       *)
(***************************************************************************)
EXTENDS Integers, Sequences, SequencesExt, Bitwise

GFBits == 8
GFSize == 2 ^ GFBits - 1
Elems  == 0 .. GFSize

(* allPp[8], 1 + x^2 + x^3 + x^4 + x^8: gf_exp[8].                         *)
Pp == 29

(* generate_gf: the powers of x, their logarithms, the inverses.  gf_exp   *)
(* is there twice over, so GfExp starts again after GFSize powers.         *)
NextPower(p) == IF p >= 128 THEN Pp ^^ (2 * (p - 128)) ELSE 2 * p
Powers       == FoldLeft(LAMBDA s, i : Append(s, NextPower(s[i])), <<1>>, [i \in 1 .. GFSize - 1 |-> i])
GfExp        == [i \in 0 .. 2 * GFSize - 1 |-> Powers[(i % GFSize) + 1]]
GfLog   == [x \in Elems |-> IF x = 0 THEN GFSize
                            ELSE CHOOSE i \in 0 .. GFSize - 1 : GfExp[i] = x]
GfInverse == [x \in Elems |-> IF x <= 1 THEN x ELSE GfExp[GFSize - GfLog[x]]]

(* init_mul_table; modnn is the remainder.                                 *)
GfMul == [x \in Elems |-> [y \in Elems |->
            IF x = 0 \/ y = 0 THEN 0 ELSE GfExp[(GfLog[x] + GfLog[y]) % GFSize]]]

(* The sum, which is the exclusive or, of f over S: what mul and a series  *)
(* of addmul leave in the destination.                                     *)
GfSum(f, S) == FoldFunctionOnSet(LAMBDA a, b : a ^^ b, 0, f, S)

-----------------------------------------------------------------------------
(* Mutant of CodeFactor: the rows are not kept apart from the columns.     *)
CodeFactorPlain(row, col) == GfInverse[row ^^ col]

(* The coefficient of data packet col in parity packet row.                *)
CodeFactor(row, col) == GfInverse[(row ^^ col) ^^ 128]

(* fec_encode: data is a function from 0 .. k - 1.                         *)
FecEncode(data, n) ==
  [row \in 0 .. n - 1 |->
     GfSum([col \in DOMAIN data |-> GfMul[CodeFactor(row, col)][data[col]]], DOMAIN data)]

-----------------------------------------------------------------------------
(* invert_mat.  A matrix is a function of pairs <<row, column>>; st is     *)
(* [m, piv, swaps, ok]: the matrix, the columns already used as pivots,    *)
(* the rows and columns of the pivots in the order they were found.        *)
(* Rows a and b change places.                                             *)
Swapped(m, a, b) ==
  [p \in DOMAIN m |-> IF p[1] = a THEN m[<<b, p[2]>>]
                      ELSE IF p[1] = b THEN m[<<a, p[2]>>] ELSE m[p]]

(* The diagonal if it can be used, or else the first entry that can.       *)
Pivots(st, D) == {p \in D \X D : p[1] \notin st.piv /\ p[2] \notin st.piv /\ st.m[p] # 0}
Before(p, q)  == p[1] < q[1] \/ (p[1] = q[1] /\ p[2] <= q[2])
Pivot(st, col, D) ==
  IF <<col, col>> \in Pivots(st, D) THEN <<col, col>>
  ELSE CHOOSE p \in Pivots(st, D) : \A q \in Pivots(st, D) : Before(p, q)

(* The row of the pivot is divided by it, and cleared from the others.     *)
Eliminate(m, x) ==
  LET c      == GfInverse[m[<<x, x>>]]
      row(j) == GfMul[c][IF j = x THEN 1 ELSE m[<<x, j>>]]
  IN  [p \in DOMAIN m |->
         IF p[1] = x THEN row(p[2])
         ELSE (IF p[2] = x THEN 0 ELSE m[p]) ^^ GfMul[m[<<p[1], x>>]][row(p[2])]]

PivotStep(st, col, D) ==
  IF ~st.ok \/ Pivots(st, D) = {} THEN [st EXCEPT !.ok = FALSE]
  ELSE LET p == Pivot(st, col, D)
       IN  [m     |-> Eliminate(Swapped(st.m, p[1], p[2]), p[2]),
            piv   |-> st.piv \cup {p[2]},
            swaps |-> Append(st.swaps, p), ok |-> TRUE]

(* Columns p[1] and p[2] change places.                                    *)
Unswap(m, p) ==
  [q \in DOMAIN m |-> IF q[2] = p[1] THEN m[<<q[1], p[2]>>]
                      ELSE IF q[2] = p[2] THEN m[<<q[1], p[1]>>] ELSE m[q]]

(* [ok, m]: the inverse of m, or not ok if it has none.                    *)
InvertMat(m, k) ==
  LET D == 0 .. k - 1
      st[i \in 0 .. k] == IF i = 0 THEN [m |-> m, piv |-> {}, swaps |-> <<>>, ok |-> TRUE]
                          ELSE PivotStep(st[i - 1], i - 1, D)
      back[i \in 0 .. k] == IF i = 0 THEN st[k].m
                            ELSE Unswap(back[i - 1], st[k].swaps[k + 1 - i])
  IN  IF st[k].ok THEN [ok |-> TRUE, m |-> back[k]] ELSE [ok |-> FALSE, m |-> m]

-----------------------------------------------------------------------------
(* fec_decode.  blocks: the data packets with anything in the places of    *)
(* the erased ones; erased and nos: the places of the missing packets and  *)
(* the numbers of the parity packets in their stead, both ascending; fec:  *)
(* the contents of these.                                                  *)

(* reduce: what the packets that came contribute is taken out.             *)
Reduce(blocks, fec, nos, erased) ==
  LET came == DOMAIN blocks \ {erased[i] : i \in 1 .. Len(erased)}
  IN  [j \in 1 .. Len(nos) |->
         fec[j] ^^ GfSum([col \in came |-> GfMul[CodeFactor(nos[j], col)][blocks[col]]], came)]

(* resolve: the inverse of the part of the code that is left gives the     *)
(* missing packets.                                                        *)
FecDecode(blocks, fec, nos, erased) ==
  LET n       == Len(nos)
      reduced == Reduce(blocks, fec, nos, erased)
      inv     == InvertMat([p \in (0 .. n - 1) \X (0 .. n - 1) |->
                              CodeFactor(nos[p[1] + 1], erased[p[2] + 1])], n)
      found(r) == GfSum([c \in 1 .. n |-> GfMul[inv.m[<<r - 1, c - 1>>]][reduced[c]]], 1 .. n)
  IN  [d \in DOMAIN blocks |->
         IF \E r \in 1 .. n : erased[r] = d
         THEN found(CHOOSE r \in 1 .. n : erased[r] = d) ELSE blocks[d]]
=============================================================================
