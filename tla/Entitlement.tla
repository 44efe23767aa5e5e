----------------------------- MODULE Entitlement -----------------------------
(***************************************************************************)
(* Who may use the service, and when a usage period is over: the pure     *)
(* rules of package sub.  A user row keeps what they read:                *)
(*   status   "active", "disabled" or "revoked"                           *)
(*   used     upload + download                                           *)
(*   total    quota in bytes, 0 for none                                  *)
(*   expire   instant after which the user is out, or Never               *)
(*   reset    quota_reset: the kind of the usage period                   *)
(*   period   quota_period_start, or Never                                *)
(***************************************************************************)
EXTENDS Calendar

CONSTANT Never              \* a nil *time.Time

ASSUME TimeAssumption == Never \notin Int

Statuses == {"active", "disabled", "revoked"}
Kinds == {"", "day", "week", "month"}
Instants == Int \cup {Never}
Rows == [status : Statuses, used : Nat, total : Nat, expire : Instants,
         reset : Kinds, period : Instants]

\* sub.Entitled: should the user receive links and stay in node Apply?
Entitled(r, now) ==
    /\ r.status = "active"
    /\ r.expire = Never \/ now <= r.expire
    /\ r.total = 0 \/ r.used < r.total

\* The days since the period began: a week begins on a Monday, and its Sunday
\* is the last day.
MutantDaysBackSunday(kind, d) ==
    CASE kind = "week" -> Weekday(d) - 1
      [] kind = "month" -> MonthDay(d) - 1
      [] OTHER -> 0
DaysBack(kind, d) ==
    CASE kind = "week" -> (IF Weekday(d) = 0 THEN 7 ELSE Weekday(d)) - 1
      [] kind = "month" -> MonthDay(d) - 1
      [] OTHER -> 0

\* sub.PeriodStart: the boundary of the period of this kind that contains now.
PeriodStart(kind, now) == Midnight(now, DaysBack(kind, Day(now)))

\* sub.PeriodDue: quota_period_start should move to PeriodStart(now).
PeriodDue(r, now) ==
    /\ r.reset # ""
    /\ r.period = Never \/ r.period < PeriodStart(r.reset, now)
=============================================================================
