------------------------------ MODULE MCPrompts ------------------------------
(* A day of four ticks, an hour and an evidence bucket of two.             *)
EXTENDS Prompts, TLC

CONSTANTS k1, k2
MCReportLimit == [focus |-> 4, initiation |-> 0, category |-> 0, receipts |-> 0]
MCSteps == [focus |-> {1, 3}, initiation |-> {2}, category |-> {4},
            receipts |-> {2}]
MCMaxNow == [focus |-> 7, initiation |-> 12, category |-> 8, receipts |-> 6]
\* One hour's worth of local dates, and a time zone where tick 0 is quiet.
MCOffsets == {0, 3}
MCHistories == {{[id |-> i, from |-> -8 + i, to |-> -5 + i] : i \in 1..2},
                {[id |-> i, from |-> -9, to |-> -5 - i] : i \in 1..2}}
MCRankings == {<<k1, k2>>, <<k2>>}
=============================================================================
