----------------------------- MODULE HourlyStats -----------------------------
(***************************************************************************)
(* What the hourly statistics promise, apart from who rolls them up: the   *)
(* count reported of a domain in an hour is one that the log has reached,  *)
(* it may go up and down while the hour is the current or the previous     *)
(* one, and when neither it is the whole count, for good.                  *)
(***************************************************************************)
EXTENDS Integers

CONSTANTS
  Domains, Paths, LastHour,
  Count(_)   \* the hits in the rows of an hour, counted by path

Hours == 0..LastHour
Keys == Domains \X Hours

VARIABLES
  hour,      \* the current hour
  logged,    \* logged[d, h][p]: the rows of request_log
  reported   \* reported[d, h]: the hits in domain_stats

svars == <<hour, logged, reported>>

SInit ==
  /\ hour = 0
  /\ logged = [k \in Keys |-> [p \in Paths |-> 0]]
  /\ reported = [k \in Keys |-> 0]

\* An hour's count is open while the hour is the current or the previous one.
Open(k) == k[2] \in {hour - 1, hour}

\* A row becomes visible, of one of these hours.
Log(k, p) ==
  /\ Open(k)
  /\ logged' = [logged EXCEPT ![k][p] = @ + 1]
  /\ UNCHANGED <<hour, reported>>

Report ==
  /\ reported' \in [Keys -> Nat]
  /\ \A k \in Keys : IF Open(k) THEN reported'[k] <= Count(logged[k])
                    ELSE reported'[k] = reported[k]
  /\ UNCHANGED <<hour, logged>>

\* The previous hour is over for an hour: its count is complete.
Close ==
  /\ hour < LastHour
  /\ \A k \in Keys : k[2] = hour - 1 => reported[k] = Count(logged[k])
  /\ hour' = hour + 1
  /\ UNCHANGED <<logged, reported>>

SNext == Report \/ Close \/ \E k \in Keys, p \in Paths : Log(k, p)

SSpec == SInit /\ [][SNext]_svars
=============================================================================
