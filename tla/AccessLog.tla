----------------------------- MODULE AccessLog ------------------------------
(***************************************************************************)
(* What AccessLogger.Cleanup (app/modules/access_logger.go) keeps, in the  *)
(* process that runs it at every start and every midnight.  All times are  *)
(* UTC, in units of which Day make a day.                                  *)
(***************************************************************************)
EXTENDS Integers

CONSTANT Day

ASSUME DayAssumption == Day \in Nat \ {0}

\* Truncate(24 * time.Hour)
Midnight(t) == t - (t % Day)

\* AddDate(0, 0, -(retentionDays - 1))
Cutoff(now, retention) == Midnight(now) - (retention - 1) * Day

Kept(stamp, now, retention) == stamp >= Cutoff(now, retention)

-----------------------------------------------------------------------------
DayOf(t) == t \div Day

\* "keep today and 6 days before" of seven: what is kept are the entries of the last
\* `retention` calendar days, today the last of them, whatever the time of the day;
\* with a saved retention of zero none are.
CleanupKeeps(stamp, now, retention) ==
    Kept(stamp, now, retention) <=> (DayOf(now) - DayOf(stamp) < retention)
=============================================================================
