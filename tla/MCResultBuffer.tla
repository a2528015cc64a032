--------------------------- MODULE MCResultBuffer ---------------------------
(* Small instances of ResultBuffer: batches given as <<maker, owner, size>>. *)
EXTENDS ResultBuffer, Sequences

\* both ends of a line of three ranks have results of each other; the middle
\* one forwards them, together with results it has computed itself
LineFlows == <<<<0, 2, 1>>, <<2, 0, 2>>, <<1, 2, 1>>>>

\* two ranks push to a third, which has results of one of them
FanInFlows == <<<<0, 1, 2>>, <<2, 1, 1>>, <<1, 2, 2>>>>

\* everything moves one way, or is where it belongs
StreamFlows == <<<<0, 2, 2>>, <<1, 2, 2>>, <<2, 2, 1>>>>

Flows == LineFlows \o FanInFlows \o StreamFlows

MCBatch == 1 .. Len(Flows)
\* three batches a problem
Crossing == {1 .. 3, 4 .. 6}
Stream   == {7 .. 9}
MCMaker == [b \in MCBatch |-> Flows[b][1]]
MCOwner == [b \in MCBatch |-> Flows[b][2]]
MCSize  == [b \in MCBatch |-> Flows[b][3]]

\* on a line
MCNextHop == [r \in Rank |-> [o \in Rank |->
                IF o < r THEN r - 1 ELSE IF o > r THEN r + 1 ELSE r]]
=============================================================================
