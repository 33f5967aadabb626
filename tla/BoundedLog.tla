----------------------------- MODULE BoundedLog -----------------------------
(***************************************************************************)
(* What the DNS query history promises: the newest Size entries, oldest    *)
(* first.                                                                  *)
(***************************************************************************)
EXTENDS Integers, Sequences

CONSTANTS Size,      \* dns_query_history_size
          LogEntry  \* the entries that are logged

VARIABLE log

Push(l, e) == Append(IF Len(l) < Size THEN l ELSE Tail(l), e)

Init == log = << >>
Add  == \E e \in LogEntry : log' = Push(log, e)
Spec == Init /\ [][Add]_log
=============================================================================
