-------------------------------- MODULE Lists --------------------------------
(***************************************************************************)
(* Lists as the models of the requests and of the response bodies use      *)
(* them.  The items of a list that are in a set: SelectSeq for a set, as a *)
(* recursive function, of which proofs can say what it returns.            *)
(***************************************************************************)
EXTENDS Naturals, Sequences

Kept(s, S) ==
    LET kept[i \in 0 .. Len(s)] ==
            IF i = 0 THEN <<>>
            ELSE IF s[i] \in S THEN Append(kept[i - 1], s[i]) ELSE kept[i - 1]
    IN  kept[Len(s)]

(* An optional list, a sequence of at most one, or the empty one in its    *)
(* place.                                                                  *)
OrEmpty(optional) == IF optional = <<>> THEN <<>> ELSE optional[1]
=============================================================================
