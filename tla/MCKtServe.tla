----------------------------- MODULE MCKtServe -----------------------------
(* A small instance of KtServe: labels that part at the last bit and at the  *)
(* first, every second version of one larger than a page.                    *)
EXTENDS KtServe

ThreeLabels == {<<0, 0, 0>>, <<0, 0, 1>>, <<1, 1, 0>>}

Sizes == [v \in 1 .. MaxEntries |-> IF v % 2 = 0 THEN 3 ELSE 1]
=============================================================================
