----------------------------- MODULE FireMerge -----------------------------
(***************************************************************************)
(* Merging fires that have grown together                                  *)
(* (app/backend/src/services/firefighter/fire_merge.py).                   *)
(*                                                                         *)
(* A sweep lists the active fires, remembers in Valkey since when each     *)
(* pair overlaps, and merges the first pair that has for three minutes:    *)
(* the newer record points to the older.  The proximity scheduler sweeps   *)
(* every minute and so does every listing of the reports, so that sweeps   *)
(* overlap and work on lists that have changed since.                      *)
(*                                                                         *)
(* A fire's radius grows while it lives: a pair that overlaps goes on      *)
(* overlapping.  Time passes in ticks of a minute or more; a pair's entry  *)
(* is represented by its age.  A sweep takes its pairs in any order.       *)
(***************************************************************************)
EXTENDS Integers, FiniteSets

CONSTANTS
  Fires, Age,        \* Age[f]: when f was submitted
  NoFire,
  Meeting,           \* the pairs of fires that grow until they touch
  Scheduler, Sweeps, \* sweeps at work at the same time, the scheduler's one of them
  Debounce,          \* DEBOUNCE_SECONDS in ticks
  Changing,          \* bound: the fires that are put out or burn (again)
  MaxChanges         \* bound: how often each is

Pairs == {p \in SUBSET Fires : \E f, g \in Fires : f # g /\ p = {f, g}}

ASSUME AgeAssumption ==
  /\ Age \in [Fires -> Nat]
  /\ \A f, g \in Fires : Age[f] = Age[g] => f = g
ASSUME MeetingAssumption == Meeting \subseteq Pairs
ASSUME NoFireAssumption == NoFire \notin Fires
ASSUME SchedulerAssumption == Scheduler \in Sweeps
ASSUME DebounceAssumption == Debounce \in Nat \ {0}
ASSUME BoundsAssumption == MaxChanges \in Nat

VARIABLES
  open,        \* the fires that are verified and active
  merged,      \* merged_into_id
  overlapping, \* the pairs that overlap
  key,         \* the age of merge:candidate:<pair>, or Absent
  sweep,       \* check_and_merge_active_fires, per caller
  swept,       \* the scheduler has swept in this tick
  changes,     \* how often each fire has
  steadyFor    \* history: ticks a pair has overlapped with both fires active,
               \* counted up to Debounce

vars == <<open, merged, overlapping, key, sweep, swept, changes, steadyFor>>

Absent == -1

(* (fault) ex=DEBOUNCE_SECONDS *)
KeyLifeTooShort == Debounce
KeyLife == 3 * Debounce

Idle == [at |-> "idle", todo |-> {}, touching |-> {}, pair |-> {}, blind |-> FALSE]

Work == [at : {"idle", "looking", "merging", "merged"},
         todo : SUBSET Pairs, touching : SUBSET Pairs,
         pair : Pairs \cup {{}}, blind : BOOLEAN]

TypeOK ==
  /\ open \subseteq Fires
  /\ merged \in [Fires -> Fires \cup {NoFire}]
  /\ overlapping \subseteq Pairs
  /\ key \in [Pairs -> Absent .. KeyLife - 1]
  /\ sweep \in [Sweeps -> Work]
  /\ \A s \in Sweeps : sweep[s].at = "idle" => sweep[s] = Idle
  /\ swept \in BOOLEAN
  /\ changes \in [Fires -> 0..MaxChanges]
  /\ steadyFor \in [Pairs -> 0..Debounce]

Listed == {f \in open : merged[f] = NoFire}
Standing(p) == p \in overlapping /\ p \subseteq Listed
Burning(p) == p \in overlapping /\ p \subseteq open

Init ==
  /\ open \in {O \in SUBSET Fires : Fires \ Changing \subseteq O}
  /\ merged = [f \in Fires |-> NoFire]
  /\ overlapping = {}
  /\ key = [p \in Pairs |-> Absent]
  /\ sweep = [s \in Sweeps |-> Idle]
  /\ swept = FALSE
  /\ changes = [f \in Fires |-> 0]
  /\ steadyFor = [p \in Pairs |-> 0]

-----------------------------------------------------------------------------
(***************************************************************************)
(* Time and people.                                                        *)
(***************************************************************************)

Longer(n) == IF n < Debounce THEN n + 1 ELSE n

\* The scheduler has swept since the last tick.
Tick ==
  /\ swept
  /\ swept' = FALSE
  /\ key' = [p \in Pairs |-> IF key[p] \in {Absent, KeyLife - 1} THEN Absent ELSE key[p] + 1]
  /\ steadyFor' = [p \in Pairs |-> IF Burning(p) THEN Longer(steadyFor[p]) ELSE 0]
  /\ UNCHANGED <<open, merged, overlapping, sweep, changes>>

\* estimate_current_radius_km: two circles come to touch.
Grow(p) ==
  /\ p \in Meeting \ overlapping
  /\ overlapping' = overlapping \cup {p}
  /\ UNCHANGED <<open, merged, key, sweep, swept, changes, steadyFor>>

\* status_change, fire_status_change and run_verification, as far as fires go
Change(f) ==
  /\ f \in Changing /\ changes[f] < MaxChanges
  /\ open' = IF f \in open THEN open \ {f} ELSE open \cup {f}
  /\ changes' = [changes EXCEPT ![f] = @ + 1]
  /\ steadyFor' = [p \in Pairs |-> IF f \in p THEN 0 ELSE steadyFor[p]]
  /\ UNCHANGED <<merged, overlapping, key, sweep, swept>>

-----------------------------------------------------------------------------
(***************************************************************************)
(* A sweep.                                                                *)
(***************************************************************************)

Finished(s) == swept' = (swept \/ s = Scheduler)

\* The query, and positions and radii computed once.
List(s) ==
  LET pairs == {p \in Pairs : p \subseteq Listed}
  IN /\ sweep[s].at = "idle"
     /\ s = Scheduler => ~swept
     /\ sweep' = [sweep EXCEPT ![s] =
                   IF pairs = {} THEN Idle
                   ELSE [Idle EXCEPT !.at = "looking", !.todo = pairs,
                                     !.touching = pairs \cap overlapping]]
     /\ IF pairs = {} THEN Finished(s) ELSE UNCHANGED swept
     /\ UNCHANGED <<open, merged, overlapping, key, changes, steadyFor>>

(* (fault) a sweep that ends keeps the circles it computed *)
PassByForgetful(s, p) ==
  LET rest == sweep[s].todo \ {p}
  IN /\ sweep' = [sweep EXCEPT ![s].todo = rest, ![s].at = IF rest = {} THEN "idle" ELSE @]
     /\ IF rest = {} THEN Finished(s) ELSE UNCHANGED swept

\* On to the next pair, or done.
PassBy(s, p) ==
  LET rest == sweep[s].todo \ {p}
  IN /\ sweep' = [sweep EXCEPT ![s] = IF rest = {} THEN Idle ELSE [@ EXCEPT !.todo = rest]]
     /\ IF rest = {} THEN Finished(s) ELSE UNCHANGED swept

Looks(s, p) == sweep[s].at = "looking" /\ p \in sweep[s].todo

Apart(s, p) ==
  /\ Looks(s, p) /\ p \notin sweep[s].touching
  /\ key' = [key EXCEPT ![p] = Absent]
  /\ PassBy(s, p)
  /\ UNCHANGED <<open, merged, overlapping, changes, steadyFor>>

(* (fault) one entry per fire: the pair's first fire decides which *)
FirstSeenOfFire(p) == CHOOSE q \in Pairs : q \cap p # {} /\ \A r \in Pairs : r \cap p # {} =>
                         key[r] <= key[q]
CandidateKey(p) == p

\* is_persistently_overlapping
Await(s, p) ==
  LET k == CandidateKey(p)
  IN /\ Looks(s, p) /\ p \in sweep[s].touching
     /\ key[k] < Debounce
     /\ key' = [key EXCEPT ![k] = IF @ = Absent THEN 0 ELSE @]
     /\ PassBy(s, p)
     /\ UNCHANGED <<open, merged, overlapping, changes, steadyFor>>

Persists(s, p) ==
  /\ Looks(s, p) /\ p \in sweep[s].touching
  /\ key[CandidateKey(p)] >= Debounce
  /\ sweep' = [sweep EXCEPT ![s].at = "merging", ![s].pair = p]
  /\ UNCHANGED <<open, merged, overlapping, key, swept, changes, steadyFor>>

\* Valkey does not answer: merge at once.
Blind(s, p) ==
  /\ Looks(s, p) /\ p \in sweep[s].touching
  /\ sweep' = [sweep EXCEPT ![s].at = "merging", ![s].pair = p, ![s].blind = TRUE]
  /\ UNCHANGED <<open, merged, overlapping, key, swept, changes, steadyFor>>

(* (fault) the fire listed first is the primary *)
AnyAsPrimary(p) == p
Primaries(p) == {f \in p : \A g \in p : Age[f] <= Age[g]}

\* merge_pair, whatever has become of the fires since they were listed
Merge(s) ==
  LET p == sweep[s].pair
  IN /\ sweep[s].at = "merging"
     /\ \E primary \in Primaries(p) : \E secondary \in p \ {primary} :
          merged' = [merged EXCEPT ![secondary] = primary]
     /\ sweep' = [sweep EXCEPT ![s].at = "merged"]
     /\ UNCHANGED <<open, overlapping, key, swept, changes, steadyFor>>

\* clear_candidate, which may fail in silence; the sweep ends with the merge.
Clear(s) ==
  /\ sweep[s].at = "merged"
  /\ \/ key' = [key EXCEPT ![sweep[s].pair] = Absent]
     \/ UNCHANGED key
  /\ sweep' = [sweep EXCEPT ![s] = Idle]
  /\ Finished(s)
  /\ UNCHANGED <<open, merged, overlapping, changes, steadyFor>>

Sweep(s) ==
  \/ \E p \in Pairs : Apart(s, p) \/ Await(s, p) \/ Persists(s, p) \/ Blind(s, p)
  \/ Merge(s) \/ Clear(s)

Next ==
  \/ Tick
  \/ \E p \in Pairs : Grow(p)
  \/ \E f \in Fires : Change(f)
  \/ \E s \in Sweeps : List(s) \/ Sweep(s)

Spec == Init /\ [][Next]_vars

\* Threads run, time passes, and run_proximity_check_loop goes on.
FairSpec == Spec /\ WF_vars(Tick) /\ WF_vars(List(Scheduler))
                 /\ \A s \in Sweeps : WF_vars(Sweep(s))

-----------------------------------------------------------------------------
(* Properties. *)

(* Whoever merges what, from lists however old: from every merged fire the *)
(* links lead to one that is not merged, never round in a circle.          *)
NoCircle ==
  ~ \E S \in SUBSET Fires : S # {} /\ \A f \in S : merged[f] \in S

(* Two active fires that overlap do not stay apart for ever: the entry     *)
(* lives long enough for some sweep to find it old enough.                 *)
OverlapEndsInMerge ==
  \A p \in Pairs : Standing(p) ~> ~Standing(p)

Merges(s) == sweep[s].at = "merging" /\ sweep'[s].at = "merged" /\ ~sweep[s].blind

(* Fires that have only just met are not merged, unless Valkey fails: what *)
(* is known of one pair is not taken for another's.                        *)
NoHastyMerge ==
  [][\A s \in Sweeps :
       Merges(s) /\ (\A f \in sweep[s].pair : changes[f] = 0)
         => steadyFor[sweep[s].pair] = Debounce]_vars

(* "a fire must show as overlapping for this long continuously before      *)
(* actually merged", of fires that are still active when they are.         *)
ContinuousOverlap ==
  [][\A s \in Sweeps :
       Merges(s) /\ sweep[s].pair \subseteq Listed
         => steadyFor[sweep[s].pair] = Debounce]_vars

=============================================================================
