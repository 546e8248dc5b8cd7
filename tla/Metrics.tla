-------------------------------- MODULE Metrics --------------------------------
(***************************************************************************)
(* The hourly snapshots of channel posts (snapshot_tiers and               *)
(* snapshot_chat_metrics of services/ingestion.py, snapshot_metrics of     *)
(* worker/tasks.py) and the statistics of a chat (services/analytics.py).  *)
(* Time is in hours.                                                       *)
(***************************************************************************)
EXTENDS Integers, FiniteSets, SequencesExt

CONSTANTS SnapshotBatch \* SNAPSHOT_BATCH

ASSUME MetricsAssumption == SnapshotBatch \in Nat \ {0}

Day == 24

(* Mutated: the third tier is looked at in the hours of the second. *)
SnapshotTiers_Nested(hour) ==
  {<<0, Day>>} \cup (IF hour % 6 = 0
                    THEN {<<Day, 7 * Day>>} \cup (IF hour = 3 THEN {<<7 * Day, 90 * Day>>} ELSE {})
                    ELSE {})

(* [from, to) in age: every hour, every six hours, at three in the night. *)
SnapshotTiers(hour) ==
  {<<0, Day>>} \cup (IF hour % 6 = 0 THEN {<<Day, 7 * Day>>} ELSE {})
               \cup (IF hour = 3 THEN {<<7 * Day, 90 * Day>>} ELSE {})

(* published_at <= now - lo and published_at > now - hi *)
InTier(age, tier) == tier[1] <= age /\ age < tier[2]

(* The tiers that take a post of this age in this hour. *)
TakenBy(hour, age) == {tier \in SnapshotTiers(hour) : InTier(age, tier)}

(* _chunks: requests of at most SnapshotBatch posts. *)
Chunked(ids) ==
  [i \in 1..((Len(ids) + SnapshotBatch - 1) \div SnapshotBatch) |->
     SubSeq(ids, (i - 1) * SnapshotBatch + 1, Min({i * SnapshotBatch, Len(ids)}))]

(* A FloodWait ends the channel's snapshot; the requests before it are stored, one by one. *)
SnapshotChat(ids, requests) == FlattenSeq(SubSeq(Chunked(ids), 1, Min({requests, Len(Chunked(ids))})))

(* Hours until the next run that takes a post that was published at an hour of the day, from an age on. *)
NextSnapshot(published, age) ==
  Min({d \in 1..2 * Day : TakenBy((published + age + d) % Day, age + d) # {}} \cup {2 * Day + 1})

-----------------------------------------------------------------------------
(* chat_stats of services/analytics.py.  A post has the hour when it was   *)
(* published and its views; a snapshot its post, hour and views.           *)

(* Mutated: both ends belong to the period. *)
InPeriod_Closed(t, since, until) == since <= t /\ t <= until

InPeriod(t, since, until) == since <= t /\ t < until

Published(posts, since, until) == {m \in posts : InPeriod(m.at, since, until)}
Views(posts) == FoldSet(LAMBDA m, n : m.views + n, 0, posts)

(* extract('dow') counts from Sunday, _WD from Monday; hour 0 is in a night to Sunday. *)
Weekday(t) == (((t \div Day) % 7) + 6) % 7

(* The views that each post gained between its first and its last snapshot of the period. *)
Gains(snapshots, since, until) ==
  LET taken == {s \in snapshots : InPeriod(s.at, since, until)}
      Of(id) == {s \in taken : s.post = id}
      First(id) == CHOOSE s \in Of(id) : \A r \in Of(id) : s.at <= r.at
      Final(id) == CHOOSE s \in Of(id) : \A r \in Of(id) : r.at <= s.at IN
  {[post |-> id, views |-> Final(id).views - First(id).views] :
     id \in {s.post : s \in {r \in taken : Cardinality(Of(r.post)) >= 2}}}

ChatStats(posts, snapshots, until, days) ==
  LET since == until - days * Day
      now == Published(posts, since, until)
      before == Published(posts, since - days * Day, since) IN
  [posts       |-> Cardinality(now),
   views       |-> Views(now),
   by_weekday  |-> [w \in 0..6 |-> Cardinality({m \in now : Weekday(m.at) = w})],
   by_hour     |-> [h \in 0..(Day - 1) |-> Cardinality({m \in now : m.at % Day = h})],
   views_delta |-> Views(Gains(snapshots, since, until)),
   coverage    |-> Cardinality(Gains(snapshots, since, until)),
   previous    |-> [posts |-> Cardinality(before), views |-> Views(before)]]
=============================================================================
