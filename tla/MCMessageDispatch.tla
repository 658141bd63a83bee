-------------------------- MODULE MCMessageDispatch --------------------------
(* A finite instance of MessageDispatch: fields on both sides of each test,  *)
(* and in both byte orders; messages cut at every cell.                      *)
EXTENDS MessageDispatch

Versions == {<<0, 1>>, <<1, 0>>, <<0, 2>>}
Types    == {<<0, 6>>, <<6, 0>>, <<0, 5>>, <<16, 5>>}
Lengths  == {<<0, 0>>, <<15, 238>>, <<15, 239>>, <<16, 0>>, <<238, 15>>, <<255, 255>>}

Whole == {v \o t \o <<32, 64>> \o p \o <<9>> :
             v \in Versions, t \in Types, p \in Lengths}

DispatchRequests == {SubSeq(m, 1, n) : m \in Whole, n \in Cells}
=============================================================================
