------------------------------- MODULE MCCalls -------------------------------
(* Two fan-outs that run side by side: "triage" over two items with a total   *)
(* of its own, "report" over one without.                                     *)
EXTENDS Calls

MCUnits == 1 .. 3
MCNodeOf == <<"triage", "triage", "report">>
MCLimit == [n \in {"triage", "report"} |-> 2]
MCNodeMax == [n \in {"triage"} |-> 2]
=============================================================================
