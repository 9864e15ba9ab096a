------------------------------ MODULE ReportLedger ------------------------------
(***************************************************************************)
(* What the report manager promises the node manager: for each id it keeps *)
(* the last report accepted under it.  A report is accepted only with a    *)
(* height greater than that of the report accepted last, and a report that *)
(* has been processed is final.                                            *)
(***************************************************************************)
EXTENDS Naturals

CONSTANTS Id,            \* ids of reports
          EmptyId,       \* the empty string: what lastReportId is at first
          Height,        \* heights of reports
          Content,       \* what a report accounts for
          NoContent      \* of an id under which nothing was accepted

VARIABLES reports, lastReportId

vars == <<reports, lastReportId>>

NoReport == [height |-> 0, content |-> NoContent, processed |-> FALSE]

Init == /\ reports = [id \in Id |-> NoReport]
        /\ lastReportId = EmptyId

Accept(id, height, content) ==
    /\ ~reports[id].processed
    /\ height > reports[lastReportId].height
    /\ reports' = [reports EXCEPT ![id] = [height    |-> height,
                                           content   |-> content,
                                           processed |-> FALSE]]
    /\ lastReportId' = id

Process_Unmarked(id) == ~reports[id].processed /\ UNCHANGED vars   \* mutant
Process(id) ==
    /\ ~reports[id].processed
    /\ reports' = [reports EXCEPT ![id].processed = TRUE]
    /\ UNCHANGED lastReportId

Next == \E id \in Id : \/ Process(id)
                       \/ \E height \in Height, content \in Content : Accept(id, height, content)

Spec == Init /\ [][Next]_vars

TypeOK == /\ reports \in [Id -> [height    : Nat,
                                 content   : Content \cup {NoContent},
                                 processed : BOOLEAN]]
          /\ lastReportId \in Id

(* No report, processed or not, has a greater height than the last one:    *)
(* the heights brokers start their next report from never go back.         *)
LastIsHighest == \A id \in Id : reports[id].height <= reports[lastReportId].height

(* A processed report is never replaced, whatever is reported under its id *)
(* later, and the height under an id never decreases.                      *)
ReportsSettle ==
    [][\A id \in Id : /\ reports[id].processed => reports'[id] = reports[id]
                      /\ reports'[id].height >= reports[id].height]_vars

===============================================================================
