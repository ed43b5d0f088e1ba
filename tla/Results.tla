------------------------------ MODULE Results ------------------------------
(***************************************************************************)
(* Results of the codecs, and sequences cut into equal pieces.  Sequences  *)
(* are numbered from 1; the indices that errors report, and that divisions *)
(* use, count from 0 as in the code.                                       *)
(***************************************************************************)
EXTENDS Integers, SequencesExt

Error(kind, index) == [kind |-> kind, index |-> index]
Success(v)         == [kind |-> "ok", value |-> v]
Failed(r)          == r.kind # "ok"

\* The first failure in order, or the successful values in order.
Collect(results) ==
  IF \E i \in DOMAIN results : Failed(results[i])
  THEN results[CHOOSE i \in DOMAIN results :
                 Failed(results[i]) /\ \A j \in 1..(i - 1) : ~Failed(results[j])]
  ELSE Success([i \in DOMAIN results |-> results[i].value])

Lesser(i, j)  == IF i < j THEN i ELSE j
Abs(n)        == IF n < 0 THEN -n ELSE n
DivCeil(n, d) == n \div d + (IF n % d = 0 THEN 0 ELSE 1)

\* values.chunks(size)[c], c from 0
ChunkOf(s, size, c) == SubSeq(s, c * size + 1, Lesser(Len(s), (c + 1) * size))
ChunksOf(s, size)   == [c \in 1..DivCeil(Len(s), size) |-> ChunkOf(s, size, c - 1)]
=============================================================================
