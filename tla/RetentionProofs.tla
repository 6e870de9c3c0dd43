-------------------------- MODULE RetentionProofs ---------------------------
(***************************************************************************)
(* Proofs about Retention, for every window, retirement age, batch size,   *)
(* number of batches and set of identities: what a batch of the prune      *)
(* chooses.  Each theorem names what it needs of the constants: a source   *)
(* that retires, a consumer that pulls at least once in a window.          *)
(***************************************************************************)
EXTENDS Retention, TLAPS

------------------------------------------------------------------------------
(* The invariant *)

JobTyped == job \in Job /\ (job.pc # "idle" => job.left # 0)

Typed ==
    /\ items \in [Identities -> ItemRow]
    /\ unlisted \in [Identities -> Days]
    /\ sincePull \in 0..PullEvery
    /\ JobTyped

\* A live row was fetched, or refreshed by a 304, whenever the site confirmed it.
AgesWithListing ==
    RetireAfter > 0 =>
        \A i \in Identities : items[i].state = "live" => items[i].retrieved <= unlisted[i]

\* A removal the consumer has not read is not older than the consumer's last pull.
AgesWithPulls ==
    \A i \in Identities : items[i].state = "removed" /\ i \in unread => items[i].removed <= sincePull

AgeInv == Typed /\ AgesWithListing /\ AgesWithPulls

------------------------------------------------------------------------------
(* One lemma per kind of step *)

\* What the ages are kept in.
Ages == <<items, unlisted, sincePull>>

LEMMA NothingAges ==
    ASSUME AgeInv, UNCHANGED Ages, unread' \subseteq unread, JobTyped'
    PROVE  AgeInv'
BY DEF AgeInv, Ages, Typed, AgesWithListing, AgesWithPulls, JobTyped

LEMMA JobStep ==
    ASSUME AgeInv, StartJob \/ Choose \/ Delete \/ JobFails \/ Restart
    PROVE  JobTyped'
<1>1. NoJob \in Job /\ NoJob.pc = "idle"
  BY ConstantsAssumption DEF NoJob, Job
<1>2. CASE StartJob
  <2>1. [pc |-> "choose", left |-> MaxBatches, rids |-> {}] \in Job
    BY ConstantsAssumption DEF Job
  <2> QED
    BY <1>2, <2>1, ConstantsAssumption DEF StartJob, JobTyped
<1>3. CASE Choose
  BY <1>3 DEF Choose, Candidates, OldRows, AgeInv, Typed, Job, JobTyped
<1>4. CASE Delete
  <2>1. job \in Job /\ job.left # 0
    BY <1>4 DEF Delete, AgeInv, Typed, JobTyped
  <2>2. ASSUME job.left # 1
        PROVE  [pc |-> "choose", left |-> job.left - 1, rids |-> {}] \in Job /\ job.left - 1 # 0
    BY <2>1, <2>2, ConstantsAssumption DEF Job
  <2>3. AfterBatch \in Job /\ (AfterBatch.pc # "idle" => AfterBatch.left # 0)
    BY <1>1, <2>2 DEF AfterBatch
  <2> QED
    BY <1>4, <2>3 DEF Delete, JobTyped
<1>5. CASE JobFails \/ Restart
  BY <1>1, <1>5 DEF JobFails, Restart, JobTyped
<1> QED
  BY <1>2, <1>3, <1>4, <1>5

\* What a run saw: rows as they were or fetched just now, every listed live row among these.
Sighted(seen) ==
    /\ seen \in [Identities -> ItemRow]
    /\ \A i \in Identities :
          /\ seen[i] = items[i] \/ (seen[i].state = "live" /\ seen[i].retrieved = 0)
          /\ items[i].state = "removed" => seen[i] = items[i]
          /\ RetireAfter > 0 /\ i \in body /\ seen[i].state = "live" => seen[i].retrieved = 0

LEMMA ZeroDays == 0 \in Days
BY ConstantsAssumption DEF Days

LEMMA RowTyped ==
    ASSUME NEW row \in ItemRow
    PROVE  /\ row.retrieved \in Days /\ row.removed \in Days
           /\ Removed(row) \in ItemRow /\ Removed(row).state = "removed" /\ Removed(row).removed = 0
BY ZeroDays DEF ItemRow, Removed

LEMMA RunEndsStep ==
    ASSUME AgeInv, NEW seen, Sighted(seen), RunEnds(seen), UNCHANGED <<sincePull, job>>
    PROVE  AgeInv'
<1>1. \A i \in Identities : items'[i] = seen[i] \/ (items'[i] = Removed(seen[i]) /\ seen[i] \in ItemRow)
  BY DEF RunEnds, Retired, Sighted
<1>2. \A i \in Identities : items'[i] \in ItemRow
  BY <1>1, RowTyped DEF Sighted
<1>3. items' \in [Identities -> ItemRow] /\ unlisted' \in [Identities -> Days]
  BY <1>2, ConstantsAssumption DEF RunEnds, Retired, AgeInv, Typed, Days
<1>4. ASSUME NEW i \in Identities, RetireAfter > 0, items'[i].state = "live"
      PROVE  items'[i].retrieved <= unlisted'[i]
  <2>1. items'[i] = seen[i] /\ unlisted'[i] = IF i \in body THEN 0 ELSE unlisted[i]
    BY <1>1, <1>4, RowTyped DEF RunEnds
  <2>2. unlisted[i] \in Nat
    BY ConstantsAssumption DEF AgeInv, Typed, Days
  <2>3. CASE i \in body
    BY <1>4, <2>1, <2>3 DEF Sighted
  <2>4. CASE i \notin body
    BY <1>4, <2>1, <2>2, <2>4 DEF Sighted, AgeInv, AgesWithListing
  <2> QED
    BY <2>3, <2>4
<1>5. ASSUME NEW i \in Identities, items'[i].state = "removed", i \in unread'
      PROVE  items'[i].removed <= sincePull'
  <2>1. sincePull \in Nat /\ sincePull' = sincePull
    BY ConstantsAssumption DEF AgeInv, Typed
  <2>2. CASE items'[i] # seen[i]
    <3>1. items'[i].removed = 0
      BY <1>1, <2>2, RowTyped
    <3> QED
      BY <2>1, <3>1
  <2>3. CASE items'[i] = seen[i]
    <3>1. seen[i] = items[i] /\ items[i].state = "removed"
      BY <1>5, <2>3 DEF Sighted
    <3>2. i \in unread
      BY <1>5, <2>3, <3>1 DEF RunEnds, Created, Live, Gone
    <3> QED
      BY <2>1, <2>3, <3>1, <3>2 DEF AgeInv, AgesWithPulls
  <2> QED
    BY <2>2, <2>3
<1> QED
  BY <1>3, <1>4, <1>5 DEF AgeInv, Typed, JobTyped, AgesWithListing, AgesWithPulls

LEMMA PollStep ==
    ASSUME AgeInv, Poll
    PROVE  AgeInv'
<1>1. Sighted(Ingested)
  <2>1. \A i \in Identities : items[i] \in ItemRow
    BY DEF AgeInv, Typed
  <2>2. ASSUME NEW i \in Identities
        PROVE  LET row == [items[i] EXCEPT !.state = "live", !.retrieved = 0] IN
               row \in ItemRow /\ row.state = "live" /\ row.retrieved = 0
    BY <2>1, ZeroDays DEF ItemRow
  <2> QED
    BY <2>1, <2>2 DEF Sighted, Ingested, ItemRow
<1>2. ASSUME validators = {body} PROVE Sighted(SeenAgain)
  <2>1. \A i \in Identities : items[i] \in ItemRow
    BY DEF AgeInv, Typed
  <2>2. ASSUME NEW i \in Identities
        PROVE  LET row == [items[i] EXCEPT !.retrieved = 0] IN
               row \in ItemRow /\ row.state = items[i].state /\ row.retrieved = 0
    BY <2>1, ZeroDays DEF ItemRow
  <2>3. UNION validators = body
    BY <1>2
  <2> QED
    BY <2>1, <2>2, <2>3 DEF Sighted, SeenAgain
<1>3. ASSUME NEW etag \in BOOLEAN, Ok(etag) PROVE AgeInv'
  BY <1>1, <1>3, RunEndsStep DEF Ok, consumer
<1>4. ASSUME NotModified PROVE AgeInv'
  BY <1>2, <1>4, RunEndsStep DEF NotModified, consumer
<1> QED
  BY <1>3, <1>4 DEF Poll

LEMMA TakedownStep ==
    ASSUME AgeInv, NEW i \in Identities, Takedown(i)
    PROVE  AgeInv'
<1>1. items[i] \in ItemRow
  BY DEF AgeInv, Typed
<1>2. items' \in [Identities -> ItemRow]
      /\ \A j \in Identities : items'[j] = IF j = i THEN Removed(items[i]) ELSE items[j]
  BY <1>1, RowTyped DEF Takedown, AgeInv, Typed
<1>3. Typed' /\ sincePull' = sincePull /\ sincePull \in Nat /\ unlisted' = unlisted
  BY <1>2, ConstantsAssumption DEF Takedown, AgeInv, Typed, JobTyped, consumer
<1>4. AgesWithListing'
  BY <1>1, <1>2, <1>3, RowTyped DEF AgeInv, AgesWithListing
<1>5. AgesWithPulls'
  <2>1. Removed(items[i]).removed = 0
    BY <1>1, RowTyped
  <2> QED
    BY <1>2, <1>3, <2>1 DEF AgeInv, AgesWithPulls, Takedown
<1> QED
  BY <1>3, <1>4, <1>5 DEF AgeInv

LEMMA DeleteStep ==
    ASSUME AgeInv, Delete
    PROVE  AgeInv'
<1>1. Absent \in ItemRow /\ Absent.state = "absent"
  BY ConstantsAssumption DEF Absent, ItemRow, Days
<1>2. \A i \in Identities : items'[i] = IF i \in job.rids THEN Absent ELSE items[i]
  BY DEF Delete
<1>3. Typed'
  BY <1>1, JobStep DEF Delete, AgeInv, Typed, consumer
<1> QED
  BY <1>1, <1>2, <1>3 DEF Delete, AgeInv, AgesWithListing, AgesWithPulls, consumer

LEMMA PullStep ==
    ASSUME AgeInv, Pull
    PROVE  AgeInv'
<1>1. Typed'
  BY ConstantsAssumption DEF Pull, AgeInv, Typed, JobTyped
<1> QED
  BY <1>1 DEF Pull, AgeInv, AgesWithListing, AgesWithPulls

\* A day ages a row and what it is compared with alike, up to the end of the window.
LEMMA TickStep ==
    ASSUME AgeInv, Tick
    PROVE  AgeInv'
<1>1. \A d \in Days : Later(d) \in Days /\ Later(d) <= d + 1
  BY ConstantsAssumption DEF Later, Days
<1>2. \A d, e \in Days : d <= e => Later(d) <= Later(e)
  BY ConstantsAssumption DEF Later, Days
<1>3. ASSUME NEW i \in Identities
      PROVE  /\ items'[i] \in ItemRow /\ items'[i].state = items[i].state
             /\ items[i].state = "live" => items'[i].retrieved = Later(items[i].retrieved)
             /\ items[i].state = "removed" => items'[i].removed = Later(items[i].removed)
  <2>1. items[i] \in ItemRow
    BY DEF AgeInv, Typed
  <2>2. items[i].retrieved \in Days /\ items[i].removed \in Days /\ items[i].state \in {"absent", "live", "removed"}
    BY <2>1 DEF ItemRow
  <2>3. Later(items[i].retrieved) \in Days /\ Later(items[i].removed) \in Days
    BY <1>1, <2>2
  <2>4. CASE items[i].state = "absent"
    <3>1. items'[i] = Absent
      BY <2>4 DEF Tick
    <3> QED
      BY <2>4, <3>1, ConstantsAssumption DEF Absent, ItemRow, Days
  <2>5. CASE items[i].state = "live"
    <3>1. items'[i] = [items[i] EXCEPT !.retrieved = Later(items[i].retrieved)]
      BY <2>5 DEF Tick
    <3> QED
      BY <2>1, <2>3, <2>5, <3>1 DEF ItemRow
  <2>6. CASE items[i].state = "removed"
    <3>1. items'[i] = [items[i] EXCEPT !.retrieved = Later(items[i].retrieved),
                                       !.removed = Later(items[i].removed)]
      BY <2>6 DEF Tick
    <3> QED
      BY <2>1, <2>3, <2>6, <3>1 DEF ItemRow
  <2> QED
    BY <2>2, <2>4, <2>5, <2>6
<1>4. sincePull' = sincePull + 1 /\ sincePull' \in 0..PullEvery /\ sincePull \in Nat
  <2>1. sincePull' = sincePull + 1 /\ sincePull < PullEvery
    BY DEF Tick
  <2>2. sincePull \in 0..PullEvery /\ PullEvery \in Nat
    BY ConstantsAssumption DEF AgeInv, Typed
  <2> QED
    BY <2>1, <2>2
<1>5. items' \in [Identities -> ItemRow] /\ unlisted' \in [Identities -> Days]
  BY <1>1, <1>3 DEF Tick, AgeInv, Typed
<1>6. \A i \in Identities : items[i].retrieved \in Days /\ items[i].removed \in Days /\ unlisted[i] \in Days
  BY DEF AgeInv, Typed, ItemRow
<1>7. AgesWithListing'
  <2>1. \A i \in Identities : unlisted'[i] = Later(unlisted[i])
    BY DEF Tick
  <2> QED
    BY <2>1, <1>2, <1>3, <1>6 DEF AgeInv, AgesWithListing
<1>8. AgesWithPulls'
  <2> SUFFICES ASSUME NEW i \in Identities, items'[i].state = "removed", i \in unread'
               PROVE  items'[i].removed <= sincePull'
    BY DEF AgesWithPulls
  <2>1. items[i].removed <= sincePull /\ items'[i].removed = Later(items[i].removed)
    BY <1>3 DEF AgeInv, AgesWithPulls, Tick
  <2>2. Later(items[i].removed) <= items[i].removed + 1 /\ items[i].removed \in Nat /\ Later(items[i].removed) \in Nat
    BY <1>1, <1>6, ConstantsAssumption DEF Days
  <2> QED
    BY <2>1, <2>2, <1>4
<1> QED
  BY <1>4, <1>5, <1>7, <1>8 DEF AgeInv, Typed, JobTyped, Tick

LEMMA AgeInvHolds == Spec => []AgeInv
<1>1. Init => AgeInv
  <2>1. Absent \in ItemRow /\ NoJob \in Job /\ Window + 1 \in Days /\ 0 \in 0..PullEvery
    BY ConstantsAssumption DEF Absent, ItemRow, NoJob, Job, Days
  <2> QED
    BY <2>1 DEF Init, AgeInv, Typed, JobTyped, AgesWithListing, AgesWithPulls, Absent, NoJob
<1>2. AgeInv /\ [Next]_vars => AgeInv'
  <2> SUFFICES ASSUME AgeInv, [Next]_vars PROVE AgeInv'
    OBVIOUS
  <2>1. CASE Site \/ Prune \/ Restart \/ UNCHANGED vars
    <3>1. CASE Delete
      BY <3>1, DeleteStep
    <3>2. CASE ~Delete
      <4>1. UNCHANGED Ages /\ unread' = unread
        BY <2>1, <3>2 DEF Site, Publish, Prune, Batch, StartJob, Choose, JobFails, Restart, vars, consumer, Ages
      <4>2. JobTyped'
        BY <2>1, <3>2, JobStep DEF Site, Publish, Prune, Batch, vars, AgeInv, Typed, JobTyped
      <4> QED
        BY <4>1, <4>2, NothingAges
    <3> QED
      BY <3>1, <3>2
  <2> QED
    BY <2>1, PollStep, TakedownStep, PullStep, TickStep DEF Next
<1> QED
  BY <1>1, <1>2, PTL DEF Spec

------------------------------------------------------------------------------
(* What a batch chooses *)

LEMMA ChosenAreOld ==
    ASSUME AgeInv, Choose, NEW i \in job'.rids
    PROVE  i \in Identities /\ Older(items[i])
<1>1. job'.rids = Candidates
  BY DEF Choose, AgeInv, Typed, JobTyped, Job
<1> QED
  BY <1>1 DEF Candidates, OldRows

\* Of a source that retires, a batch chooses a live row only if the site has not
\* confirmed it for the whole window, by a listing or by a 304 (retention.js:8-11,
\* 81-86 with items.js:253-257).
THEOREM OnlyUnlistedIsChosen ==
    ASSUME RetireAfter > 0
    PROVE  Spec => ChoosesOnlyUnlisted
<1>1. AgeInv => [Choose => \A i \in job'.rids : items[i].state = "live" => unlisted[i] > Window]_vars
  <2> SUFFICES ASSUME AgeInv, Choose, NEW i \in job'.rids, items[i].state = "live"
               PROVE  unlisted[i] > Window
    OBVIOUS
  <2>1. i \in Identities /\ items[i].retrieved > Window
    BY ChosenAreOld DEF Older
  <2>2. items[i].retrieved <= unlisted[i]
    BY <2>1 DEF AgeInv, AgesWithListing
  <2>3. items[i].retrieved \in Nat /\ unlisted[i] \in Nat
    BY <2>1, ConstantsAssumption DEF AgeInv, Typed, ItemRow, Days
  <2> QED
    BY <2>1, <2>2, <2>3, ConstantsAssumption
<1> QED
  BY <1>1, AgeInvHolds, PTL DEF ChoosesOnlyUnlisted

\* To a consumer that pulls at least once in a window, a batch chooses a removed row
\* only after the consumer has read it as removed (retention.js:8-10).
THEOREM OnlyReadIsChosen ==
    ASSUME PullEvery <= Window
    PROVE  Spec => ChoosesOnlyRead
<1>1. AgeInv => [Choose => \A i \in job'.rids : items[i].state = "removed" => i \notin unread]_vars
  <2> SUFFICES ASSUME AgeInv, Choose, NEW i \in job'.rids, items[i].state = "removed", i \in unread
               PROVE  FALSE
    OBVIOUS
  <2>1. i \in Identities /\ items[i].removed > Window
    BY ChosenAreOld DEF Older
  <2>2. items[i].removed <= sincePull
    BY <2>1 DEF AgeInv, AgesWithPulls
  <2>3. items[i].removed \in Nat /\ sincePull \in Nat /\ sincePull <= PullEvery
    BY <2>1, ConstantsAssumption DEF AgeInv, Typed, ItemRow, Days
  <2> QED
    BY <2>1, <2>2, <2>3, ConstantsAssumption
<1> QED
  BY <1>1, AgeInvHolds, PTL DEF ChoosesOnlyRead
=============================================================================
