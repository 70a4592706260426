--------------------------- MODULE LogisticTable ---------------------------
(***************************************************************************)
(* Values, in thousandths, of the expected probability of services/elo.go, *)
(*     1 / (1 + 10^(gap/400)),    gap = question Elo - user Elo,           *)
(* for the modules that fix the parameter WinChance.  The table holds the  *)
(* rounded values for gaps 0, 50, 100, ..., 1400; between two entries the  *)
(* value is interpolated (an error below two thousandths), beyond the last *)
(* it is 0, and a negative gap is the complement of its opposite.          *)
(***************************************************************************)
EXTENDS Integers, Sequences

LogisticValues == <<500, 429, 360, 297, 240, 192, 151, 118, 91, 70, 53, 40, 31,
                    23, 17, 13, 10, 7, 6, 4, 3, 2, 2, 1, 1, 1, 1, 0, 0>>

LogisticUp(gap) ==
    LET i    == 1 + gap \div 50
        rest == gap % 50
    IN  IF i >= Len(LogisticValues) THEN 0
        ELSE LogisticValues[i]
               - ((LogisticValues[i] - LogisticValues[i + 1]) * rest) \div 50

Logistic(gap) == IF gap >= 0 THEN LogisticUp(gap) ELSE 1000 - LogisticUp(-gap)
=============================================================================
