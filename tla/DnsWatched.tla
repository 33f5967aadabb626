---------------------------- MODULE DnsWatched ------------------------------
(* DnsServer with two history variables: which kinds of answer have been    *)
(* right since a query arrived, and which of the two tables was edited      *)
(* between its two look-ups.                                                *)
EXTENDS DnsProps

VARIABLES right,   \* kinds of answer that were right since a query arrived
          edited   \* the tables edited between the look-ups; both, if records
                   \* there were could not be read

dvars == <<vars, right, edited>>

InFlight(s) == op[s].pc \notin {"idle", "log"}

LookupFails(s) == /\ LookupManual(s) /\ op'[s].pc # "log"
                  /\ ManualRecords(op[s].name, op[s].type) # {}

HistoryInit == Init /\ right = [s \in Resolvers |-> {}] /\ edited = [s \in Resolvers |-> {}]
HistoryNext ==
    /\ Next
    /\ right' = [s \in Resolvers |->
                    CASE InFlight(s)' -> right[s] \cup {RightKind(op[s].name, op[s].type)'}
                      [] op'[s].pc = "log" -> right[s]
                      [] OTHER -> {}]
    /\ edited' = [s \in Resolvers |->
                    IF op'[s].pc = "idle" \/ op[s].pc = "idle" THEN {}
                    ELSE IF LookupFails(s) THEN {"records", "rules"}
                    ELSE IF op[s].pc # "auto" THEN edited[s]
                    ELSE edited[s] \cup (IF records' # records THEN {"records"} ELSE {})
                                   \cup (IF auto' # auto THEN {"rules"} ELSE {})]
HistorySpec == /\ HistoryInit /\ [][HistoryNext]_dvars
               /\ \A s \in Resolvers : WF_vars(Handle(s))

\* Although the two tables are read one after the other, a query gets the kind
\* of answer that was right at some moment while it was handled, however the tables
\* are edited.  Two cases are excepted: records and rules were both edited between
\* the two look-ups, or the record there was could not be read.
AnswerWasRight ==
    \A s \in Resolvers : op[s].pc = "log" /\ edited[s] # {"records", "rules"}
                         => op[s].kind \in right[s]

-----------------------------------------------------------------------------
(* The inductive invariant behind AnswerWasRight: what the goroutine of a   *)
(* query has learnt from the tables it has read so far was right when it    *)
(* read them, and still is unless that table was edited since.              *)

\* The kind of answer the auto records alone give.
KindByRules(name) == IF Match(auto, name) # Absent THEN "auto" ELSE "upstream"

WatchedInv(s) ==
    LET o == op[s]
    IN  /\ edited[s] \subseteq {"records", "rules"}
        /\ InFlight(s) => RightKind(o.name, o.type) \in right[s]
        /\ o.pc = "manual" => o.type \in StoredTypes
        /\ o.pc = "auto" => o.type = "A"
        /\ edited[s] # {"records", "rules"} =>
              /\ o.pc = "auto" => \/ ManualRecords(o.name, o.type) = {}
                                  \/ "records" \in edited[s] /\ KindByRules(o.name) \in right[s]
              /\ o.pc \in {"resolve", "forward"} => "upstream" \in right[s]
              /\ o.pc = "log" => o.kind \in right[s]
AllWatchedInv == \A s \in Resolvers : WatchedInv(s)
=============================================================================
