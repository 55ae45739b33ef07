------------------------- MODULE MCStoreTransactions -------------------------
(* The jobs of the instances of StoreTransactions that TLC checks. *)
EXTENDS StoreTransactions

CONSTANTS rail, road, a1, a2, repaint, repaint2, repaintBoth, combine, transcode, pyramid, push, pack

Assignment == [j \in Jobs |->
    CASE j = repaint -> [kind |-> "repaint", layers |-> <<rail>>, scope |-> {a1}]
      [] j = repaint2 -> [kind |-> "repaint", layers |-> <<rail>>, scope |-> {a2}]
      [] j = repaintBoth -> [kind |-> "repaint", layers |-> <<rail, road>>, scope |-> {a1}]
      [] j = combine -> [kind |-> "combine", layers |-> <<>>, scope |-> Full]
      [] j = transcode -> [kind |-> "transcode", layers |-> <<rail>>, scope |-> Full]
      [] j = pyramid -> [kind |-> "pyramid", layers |-> <<rail>>, scope |-> Full]
      [] j = push -> [kind |-> "push", layers |-> <<rail>>, scope |-> {a1}]
      [] j = pack -> [kind |-> "pack", layers |-> <<Total>>, scope |-> Full]]

\* The value of Job in the configurations, through a definition that TLC
\* evaluates once.
MCJob == Assignment
==============================================================================
