-------------------------- MODULE FireMergeProofs --------------------------
(* Proofs about FireMerge, for every set of fires, sweeps and pairs that   *)
(* meet, and every number of ticks a pair has to overlap.                  *)
EXTENDS FireMerge, WellFoundedInduction, TLAPS

(* A set of numbers has a least element. *)
LEMMA LeastNumber ==
  ASSUME NEW T, T \subseteq Nat, T # {}
  PROVE  \E x \in T : \A y \in T : x <= y
<1>1. IsWellFoundedOn(OpToRel(<, Nat), Nat)
  BY NatLessThanWellFounded
<1>2. PICK x \in T : \A y \in T : <<y, x>> \notin OpToRel(<, Nat)
  BY <1>1, WFMin
<1>3. \A y \in T : ~(y < x)
  BY <1>2 DEF OpToRel
<1>4. QED
  BY <1>3

(* Of some fires one is the oldest. *)
LEMMA OldestFire ==
  ASSUME NEW S \in SUBSET Fires, S # {}
  PROVE  \E f \in S : \A g \in S : Age[f] <= Age[g]
<1> DEFINE T == {Age[f] : f \in S}
<1>1. T \subseteq Nat /\ T # {}
  BY AgeAssumption
<1>2. PICK x \in T : \A y \in T : x <= y
  BY <1>1, LeastNumber
<1>3. QED
  BY <1>2

-----------------------------------------------------------------------------
(* The shape of the state. *)

LEMMA TypeInit == Init => TypeOK
<1> SUFFICES ASSUME Init PROVE TypeOK
  OBVIOUS
<1>1. Idle \in Work
  BY DEF Idle, Work
<1>2. Absent \in Absent .. KeyLife - 1
  BY DebounceAssumption DEF Absent, KeyLife
<1>3. 0 \in 0..MaxChanges /\ 0 \in 0..Debounce
  BY DebounceAssumption, BoundsAssumption
<1>4. QED
  BY <1>1, <1>2, <1>3 DEF Init, TypeOK, Idle

(* What PassBy leaves of a sweep. *)
LEMMA PassByType ==
  ASSUME TypeOK, NEW s \in Sweeps, NEW p, sweep[s].at = "looking", PassBy(s, p)
  PROVE  /\ sweep' \in [Sweeps -> Work]
         /\ \A t \in Sweeps : sweep'[t].at = "idle" => sweep'[t] = Idle
         /\ swept' \in BOOLEAN
<1>1. CASE sweep[s].todo \ {p} = {}
  BY <1>1 DEF PassBy, TypeOK, Work, Idle, Finished
<1>2. CASE sweep[s].todo \ {p} # {}
  <2> DEFINE w == [sweep[s] EXCEPT !.todo = sweep[s].todo \ {p}]
  <2>1. sweep' = [sweep EXCEPT ![s] = w] /\ swept' = swept
    BY <1>2 DEF PassBy, TypeOK
  <2>2. w \in Work /\ w.at = "looking"
    BY DEF TypeOK, Work
  <2>3. QED
    BY <2>1, <2>2 DEF TypeOK
<1>3. QED
  BY <1>1, <1>2

LEMMA TypeStep == TypeOK /\ [Next]_vars => TypeOK'
<1> SUFFICES ASSUME TypeOK, [Next]_vars PROVE TypeOK'
  OBVIOUS
<1> USE DebounceAssumption, BoundsAssumption
<1>1. CASE Tick
  <2>1. key' \in [Pairs -> Absent .. KeyLife - 1]
    BY <1>1 DEF Tick, TypeOK, Absent, KeyLife
  <2>2. steadyFor' \in [Pairs -> 0..Debounce]
    BY <1>1 DEF Tick, TypeOK, Longer
  <2>3. QED
    BY <1>1, <2>1, <2>2 DEF Tick, TypeOK
<1>2. ASSUME NEW p \in Pairs, Grow(p) PROVE TypeOK'
  BY <1>2 DEF Grow, TypeOK
<1>3. ASSUME NEW f \in Fires, Change(f) PROVE TypeOK'
  BY <1>3 DEF Change, TypeOK
<1>4. ASSUME NEW s \in Sweeps, List(s) PROVE TypeOK'
  <2>1. sweep' \in [Sweeps -> Work]
    BY <1>4 DEF List, TypeOK, Work, Idle
  <2>2. \A t \in Sweeps : sweep'[t].at = "idle" => sweep'[t] = Idle
    BY <1>4 DEF List, TypeOK, Idle
  <2>3. QED
    BY <1>4, <2>1, <2>2 DEF List, TypeOK, Finished
<1>5. ASSUME NEW s \in Sweeps, NEW p \in Pairs, Apart(s, p) PROVE TypeOK'
  BY <1>5, PassByType DEF Apart, Looks, TypeOK, Absent, KeyLife
<1>6. ASSUME NEW s \in Sweeps, NEW p \in Pairs, Await(s, p) PROVE TypeOK'
  BY <1>6, PassByType DEF Await, CandidateKey, Looks, TypeOK, Absent, KeyLife
<1>7. ASSUME NEW s \in Sweeps, NEW p \in Pairs, Persists(s, p) PROVE TypeOK'
  <2> DEFINE w == [sweep[s] EXCEPT !.at = "merging", !.pair = p]
  <2>1. sweep' = [sweep EXCEPT ![s] = w]
    BY <1>7 DEF Persists, TypeOK
  <2>2. w \in Work /\ w.at = "merging"
    BY DEF TypeOK, Work
  <2>3. /\ sweep' \in [Sweeps -> Work]
        /\ \A t \in Sweeps : sweep'[t].at = "idle" => sweep'[t] = Idle
    BY <2>1, <2>2 DEF TypeOK
  <2>4. QED
    BY <1>7, <2>3 DEF Persists, TypeOK
<1>8. ASSUME NEW s \in Sweeps, NEW p \in Pairs, Blind(s, p) PROVE TypeOK'
  <2>1. sweep' = [sweep EXCEPT ![s] = [sweep[s] EXCEPT !.at = "merging", !.pair = p,
                                                      !.blind = TRUE]]
    BY <1>8 DEF Blind, TypeOK
  <2>2. [sweep[s] EXCEPT !.at = "merging", !.pair = p, !.blind = TRUE] \in Work
    BY DEF TypeOK, Work
  <2>3. /\ sweep' \in [Sweeps -> Work]
        /\ \A t \in Sweeps : sweep'[t].at = "idle" => sweep'[t] = Idle
    BY <2>1, <2>2 DEF TypeOK
  <2>4. QED
    BY <1>8, <2>3 DEF Blind, TypeOK
<1>9. ASSUME NEW s \in Sweeps, Merge(s) PROVE TypeOK'
  <2>1. PICK primary \in Primaries(sweep[s].pair) :
          \E secondary \in sweep[s].pair \ {primary} :
             merged' = [merged EXCEPT ![secondary] = primary]
    BY <1>9 DEF Merge
  <2>2. primary \in Fires
    <3>1. sweep[s].pair \subseteq Fires
      BY DEF TypeOK, Work, Pairs
    <3>2. QED
      BY <2>1, <3>1 DEF Primaries
  <2>3. merged' \in [Fires -> Fires \cup {NoFire}]
    BY <2>1, <2>2 DEF TypeOK
  <2>4. /\ sweep' \in [Sweeps -> Work]
        /\ \A t \in Sweeps : sweep'[t].at = "idle" => sweep'[t] = Idle
    BY <1>9 DEF Merge, TypeOK, Work
  <2>5. QED
    BY <1>9, <2>3, <2>4 DEF Merge, TypeOK
<1>10. ASSUME NEW s \in Sweeps, Clear(s) PROVE TypeOK'
  <2>1. Idle \in Work
    BY DEF Idle, Work
  <2>2. /\ sweep' \in [Sweeps -> Work]
        /\ \A t \in Sweeps : sweep'[t].at = "idle" => sweep'[t] = Idle
    BY <1>10, <2>1 DEF Clear, TypeOK
  <2>3. key' \in [Pairs -> Absent .. KeyLife - 1]
    BY <1>10 DEF Clear, TypeOK, Absent, KeyLife
  <2>4. QED
    BY <1>10, <2>2, <2>3 DEF Clear, Finished, TypeOK
<1>11. CASE UNCHANGED vars
  BY <1>11 DEF vars, TypeOK
<1>12. QED
  BY <1>1, <1>2, <1>3, <1>4, <1>5, <1>6, <1>7, <1>8, <1>9, <1>10, <1>11 DEF Next, Sweep

(* No sweep leaves a pointer, an entry or its own work outside its type: a  *)
(* fire is merged into a fire, and an entry is never older than its expiry. *)
THEOREM TypesAreKept == Spec => []TypeOK
<1>1. QED
  BY TypeInit, TypeStep, PTL DEF Spec

-----------------------------------------------------------------------------
(***************************************************************************)
(* No circles: every link leads to an older fire, so that of the fires on  *)
(* a circle the oldest would have nowhere to point to.                     *)
(***************************************************************************)

OlderTakesYounger ==
  \A f \in Fires : merged[f] # NoFire => Age[merged[f]] < Age[f]

LEMMA OlderInit == Init => OlderTakesYounger
BY DEF Init, OlderTakesYounger

LEMMA OlderStep == TypeOK /\ OlderTakesYounger /\ [Next]_vars => OlderTakesYounger'
<1> SUFFICES ASSUME TypeOK, OlderTakesYounger, [Next]_vars PROVE OlderTakesYounger'
  OBVIOUS
<1>1. ASSUME NEW s \in Sweeps, Merge(s) PROVE OlderTakesYounger'
  <2> DEFINE p == sweep[s].pair
  <2>1. p \subseteq Fires
    BY DEF TypeOK, Work, Pairs
  <2>2. PICK primary \in Primaries(p) : \E secondary \in p \ {primary} :
          merged' = [merged EXCEPT ![secondary] = primary]
    BY <1>1 DEF Merge
  <2>3. PICK secondary \in p \ {primary} :
          merged' = [merged EXCEPT ![secondary] = primary]
    BY <2>2
  <2>4. primary \in p /\ Age[primary] <= Age[secondary]
    BY <2>2, <2>3 DEF Primaries
  <2>5. Age[primary] < Age[secondary]
    BY <2>1, <2>3, <2>4, AgeAssumption
  <2>6. QED
    BY <2>1, <2>3, <2>5 DEF OlderTakesYounger, TypeOK
<1>2. CASE UNCHANGED merged
  BY <1>2 DEF OlderTakesYounger
<1>3. QED
  BY <1>1, <1>2 DEF Next, Sweep, Tick, Grow, Change, List, Apart, Await, Persists, Blind,
                    Clear, vars

LEMMA OlderExcludesCircles == TypeOK /\ OlderTakesYounger => NoCircle
<1> SUFFICES ASSUME TypeOK, OlderTakesYounger,
                    NEW S \in SUBSET Fires, S # {}, \A f \in S : merged[f] \in S
             PROVE  FALSE
  BY DEF NoCircle
<1>1. PICK f \in S : \A g \in S : Age[f] <= Age[g]
  BY OldestFire
<1>2. merged[f] \in S /\ merged[f] # NoFire
  BY NoFireAssumption
<1>3. Age[merged[f]] < Age[f] /\ Age[f] <= Age[merged[f]]
  BY <1>1, <1>2 DEF OlderTakesYounger
<1>4. Age[f] \in Nat /\ Age[merged[f]] \in Nat
  BY <1>2, AgeAssumption
<1>5. QED
  BY <1>3, <1>4

(* Whatever sweeps merge at the same time, and from lists however old, no  *)
(* fire is merged, directly or through others, into itself.                *)
THEOREM NoFireVanishes == Spec => []NoCircle
<1>1. QED
  BY TypeInit, TypeStep, OlderInit, OlderStep, OlderExcludesCircles, PTL DEF Spec

-----------------------------------------------------------------------------
(***************************************************************************)
(* No hasty merge: as long as nobody has touched the two fires of a pair,  *)
(* its entry is never older than the time they have really overlapped.     *)
(***************************************************************************)

Untouched(p) == \A f \in p : changes[f] = 0

EntriesAreEarned ==
  \A p \in Pairs : Untouched(p) /\ key[p] # Absent =>
    Burning(p) /\ (key[p] <= steadyFor[p] \/ steadyFor[p] = Debounce)

ListsAreTrue ==
  \A s \in Sweeps :
    /\ sweep[s].touching \subseteq overlapping
    /\ \A p \in sweep[s].todo : Untouched(p) => p \subseteq open

MergesAreEarned ==
  \A s \in Sweeps : sweep[s].at = "merging" =>
    /\ sweep[s].pair \in Pairs
    /\ ~sweep[s].blind /\ Untouched(sweep[s].pair) =>
         Burning(sweep[s].pair) /\ steadyFor[sweep[s].pair] = Debounce

Earned == EntriesAreEarned /\ ListsAreTrue /\ MergesAreEarned

LEMMA EarnedInit == Init => Earned
BY DEF Init, Earned, EntriesAreEarned, ListsAreTrue, MergesAreEarned, Idle

(* The entry of a pair is old enough only after Debounce ticks. *)
LEMMA OldEntryIsEarned ==
  ASSUME TypeOK, EntriesAreEarned, NEW p \in Pairs, Untouched(p), key[p] >= Debounce
  PROVE  Burning(p) /\ steadyFor[p] = Debounce
<1>1. key[p] # Absent
  BY DebounceAssumption DEF Absent, TypeOK, KeyLife
<1>2. Burning(p) /\ (key[p] <= steadyFor[p] \/ steadyFor[p] = Debounce)
  BY <1>1 DEF EntriesAreEarned
<1>3. steadyFor[p] \in 0..Debounce /\ key[p] \in Absent .. KeyLife - 1
  BY DEF TypeOK
<1>4. QED
  BY <1>2, <1>3, DebounceAssumption DEF Absent, KeyLife

(* Passing by changes nothing but which pairs are left. *)
LEMMA PassByKeepsEarned ==
  ASSUME TypeOK, ListsAreTrue, MergesAreEarned, NEW s \in Sweeps, NEW p,
         sweep[s].at = "looking", PassBy(s, p),
         UNCHANGED <<open, overlapping, changes, steadyFor>>
  PROVE  ListsAreTrue' /\ MergesAreEarned'
<1> USE DEF ListsAreTrue, MergesAreEarned, Untouched, Burning, TypeOK
<1>1. \A t \in Sweeps \ {s} : sweep'[t] = sweep[t]
  BY DEF PassBy
<1>2. CASE sweep[s].todo \ {p} = {}
  <2>1. sweep'[s] = Idle
    BY <1>2 DEF PassBy
  <2>2. QED
    BY <1>1, <2>1 DEF Idle
<1>3. CASE sweep[s].todo \ {p} # {}
  <2>1. sweep'[s] = [sweep[s] EXCEPT !.todo = sweep[s].todo \ {p}]
    BY <1>3 DEF PassBy
  <2>2. /\ sweep'[s].at = "looking" /\ sweep'[s].touching = sweep[s].touching
        /\ sweep'[s].todo \subseteq sweep[s].todo
    BY <2>1 DEF Work
  <2>3. QED
    BY <1>1, <2>2
<1>4. QED
  BY <1>2, <1>3

LEMMA EarnedStep == TypeOK /\ Earned /\ [Next]_vars => Earned'
<1> SUFFICES ASSUME TypeOK, Earned, [Next]_vars PROVE Earned'
  OBVIOUS
<1> USE DEF Earned
<1>1. CASE Tick
  <2>1. \A p \in Pairs : Burning(p)' = Burning(p) /\ Untouched(p)' = Untouched(p)
    BY <1>1 DEF Tick, Burning, Untouched
  <2>2. ASSUME NEW p \in Pairs, Untouched(p)', key'[p] # Absent
        PROVE  Burning(p)' /\ (key'[p] <= steadyFor'[p] \/ steadyFor'[p] = Debounce)
    <3>1. key[p] # Absent /\ key'[p] = key[p] + 1
      BY <1>1, <2>2 DEF Tick
    <3>2. Burning(p) /\ (key[p] <= steadyFor[p] \/ steadyFor[p] = Debounce)
      BY <2>1, <2>2, <3>1 DEF EntriesAreEarned
    <3>3. steadyFor'[p] = Longer(steadyFor[p])
      BY <1>1, <3>2 DEF Tick
    <3>4. steadyFor[p] \in 0..Debounce /\ key[p] \in Absent .. KeyLife - 1
      BY DEF TypeOK
    <3>5. QED
      BY <2>1, <3>1, <3>2, <3>3, <3>4, DebounceAssumption DEF Longer, Absent, KeyLife
  <2>3. ASSUME NEW p \in Pairs, Burning(p), steadyFor[p] = Debounce
        PROVE  steadyFor'[p] = Debounce
    BY <1>1, <2>3, DebounceAssumption DEF Tick, Longer
  <2>4. QED
    BY <1>1, <2>1, <2>2, <2>3 DEF Tick, EntriesAreEarned, ListsAreTrue, MergesAreEarned,
                                Untouched, Burning
<1>2. ASSUME NEW p \in Pairs, Grow(p) PROVE Earned'
  BY <1>2 DEF Grow, EntriesAreEarned, ListsAreTrue, MergesAreEarned, Untouched, Burning
<1>3. ASSUME NEW f \in Fires, Change(f) PROVE Earned'
  <2>1. \A p \in Pairs : Untouched(p)' => f \notin p /\ Untouched(p)
    BY <1>3 DEF Change, Untouched, TypeOK, Pairs
  <2>2. \A p \in Pairs : f \notin p =>
          steadyFor'[p] = steadyFor[p] /\ (p \subseteq open => p \subseteq open')
    BY <1>3 DEF Change
  <2>3. \A s \in Sweeps : sweep[s].todo \subseteq Pairs
    BY DEF TypeOK, Work
  <2>4. ListsAreTrue'
    BY <1>3, <2>1, <2>2, <2>3 DEF Change, ListsAreTrue
  <2>5. EntriesAreEarned'
    BY <1>3, <2>1, <2>2 DEF Change, EntriesAreEarned, Burning
  <2>6. MergesAreEarned'
    BY <1>3, <2>1, <2>2 DEF Change, MergesAreEarned, Burning
  <2>7. QED
    BY <2>4, <2>5, <2>6
<1>4. ASSUME NEW s \in Sweeps, List(s) PROVE Earned'
  <2>1. /\ \A t \in Sweeps \ {s} : sweep'[t] = sweep[t]
        /\ sweep'[s].at # "merging" /\ sweep'[s].touching \subseteq overlapping
        /\ \A p \in sweep'[s].todo : p \subseteq open
    BY <1>4 DEF List, Listed, Idle, TypeOK
  <2>2. QED
    BY <1>4, <2>1 DEF List, EntriesAreEarned, ListsAreTrue, MergesAreEarned, Untouched, Burning
<1>5. ASSUME NEW s \in Sweeps, NEW p \in Pairs, Apart(s, p) PROVE Earned'
  <2>1. ListsAreTrue' /\ MergesAreEarned'
    BY <1>5, PassByKeepsEarned DEF Apart, Looks
  <2>2. EntriesAreEarned'
    BY <1>5 DEF Apart, EntriesAreEarned, Untouched, Burning, TypeOK
  <2>3. QED
    BY <2>1, <2>2
<1>6. ASSUME NEW s \in Sweeps, NEW p \in Pairs, Await(s, p) PROVE Earned'
  <2>1. ListsAreTrue' /\ MergesAreEarned'
    BY <1>6, PassByKeepsEarned DEF Await, Looks
  <2>2. Untouched(p) => Burning(p)
    BY <1>6 DEF Await, Looks, ListsAreTrue, Burning
  <2>3. /\ \A q \in Pairs \ {p} : key'[q] = key[q]
        /\ key'[p] = IF key[p] = Absent THEN 0 ELSE key[p]
    BY <1>6 DEF Await, CandidateKey, TypeOK
  <2>4. 0 <= steadyFor[p]
    BY DEF TypeOK
  <2>5. EntriesAreEarned'
    BY <1>6, <2>2, <2>3, <2>4 DEF Await, EntriesAreEarned, Untouched, Burning
  <2>6. QED
    BY <2>1, <2>5
<1>7. ASSUME NEW s \in Sweeps, NEW p \in Pairs, Persists(s, p) PROVE Earned'
  <2>1. Untouched(p) => Burning(p) /\ steadyFor[p] = Debounce
    BY <1>7, OldEntryIsEarned DEF Persists, CandidateKey
  <2>2. /\ \A t \in Sweeps \ {s} : sweep'[t] = sweep[t]
        /\ sweep'[s].touching = sweep[s].touching /\ sweep'[s].todo = sweep[s].todo
        /\ sweep'[s].pair = p
    BY <1>7 DEF Persists, TypeOK, Work
  <2>3. ListsAreTrue'
    BY <1>7, <2>2 DEF Persists, ListsAreTrue, Untouched
  <2>4. EntriesAreEarned'
    BY <1>7 DEF Persists, EntriesAreEarned, Untouched, Burning
  <2>5. MergesAreEarned'
    <3>1. ASSUME NEW t \in Sweeps, sweep'[t].at = "merging", ~sweep'[t].blind,
                 NEW q, q = sweep'[t].pair, Untouched(q)
          PROVE  Burning(q) /\ steadyFor[q] = Debounce
      <4>1. CASE t = s
        BY <2>1, <2>2, <3>1, <4>1
      <4>2. CASE t # s
        BY <2>1, <2>2, <3>1, <4>2 DEF MergesAreEarned
      <4>3. QED
        BY <4>1, <4>2
    <3>2. \A t \in Sweeps : sweep'[t].at = "merging" => sweep'[t].pair \in Pairs
      BY <2>1, <2>2 DEF MergesAreEarned
    <3>3. UNCHANGED <<open, overlapping, changes, steadyFor>>
      BY <1>7 DEF Persists
    <3>4. QED
      BY <3>1, <3>2, <3>3 DEF MergesAreEarned, Untouched, Burning
  <2>6. QED
    BY <2>3, <2>4, <2>5
<1>8. ASSUME NEW s \in Sweeps, NEW p \in Pairs, Blind(s, p) PROVE Earned'
  <2>1. /\ \A t \in Sweeps \ {s} : sweep'[t] = sweep[t]
        /\ sweep'[s].touching = sweep[s].touching /\ sweep'[s].todo = sweep[s].todo
        /\ sweep'[s].pair = p /\ sweep'[s].blind = TRUE
    BY <1>8 DEF Blind, TypeOK, Work
  <2>2. ListsAreTrue'
    BY <1>8, <2>1 DEF Blind, ListsAreTrue, Untouched
  <2>3. EntriesAreEarned'
    BY <1>8 DEF Blind, EntriesAreEarned, Untouched, Burning
  <2>4. MergesAreEarned'
    <3>1. ASSUME NEW t \in Sweeps, sweep'[t].at = "merging", ~sweep'[t].blind,
                 NEW q, q = sweep'[t].pair, Untouched(q)
          PROVE  Burning(q) /\ steadyFor[q] = Debounce
      <4>1. CASE t = s
        BY <2>1, <3>1, <4>1
      <4>2. CASE t # s
        BY <2>1, <3>1, <4>2 DEF MergesAreEarned
      <4>3. QED
        BY <4>1, <4>2
    <3>2. \A t \in Sweeps : sweep'[t].at = "merging" => sweep'[t].pair \in Pairs
      BY <2>1 DEF MergesAreEarned
    <3>3. UNCHANGED <<open, overlapping, changes, steadyFor>>
      BY <1>8 DEF Blind
    <3>4. QED
      BY <3>1, <3>2, <3>3 DEF MergesAreEarned, Untouched, Burning
  <2>5. QED
    BY <2>2, <2>3, <2>4
<1>9. ASSUME NEW s \in Sweeps, Merge(s) PROVE Earned'
  <2>1. /\ \A t \in Sweeps \ {s} : sweep'[t] = sweep[t]
        /\ sweep'[s].touching = sweep[s].touching /\ sweep'[s].todo = sweep[s].todo
        /\ sweep'[s].at = "merged"
    BY <1>9 DEF Merge, TypeOK, Work
  <2>2. ListsAreTrue'
    BY <1>9, <2>1 DEF Merge, ListsAreTrue, Untouched
  <2>3. EntriesAreEarned'
    BY <1>9 DEF Merge, EntriesAreEarned, Untouched, Burning
  <2>4. MergesAreEarned'
    BY <1>9, <2>1 DEF Merge, MergesAreEarned, Untouched, Burning
  <2>5. QED
    BY <2>2, <2>3, <2>4
<1>10. ASSUME NEW s \in Sweeps, Clear(s) PROVE Earned'
  <2>1. /\ \A t \in Sweeps \ {s} : sweep'[t] = sweep[t]
        /\ sweep'[s] = Idle
    BY <1>10 DEF Clear, TypeOK
  <2>2. \A p \in Pairs : key'[p] # Absent => key'[p] = key[p]
    BY <1>10 DEF Clear, TypeOK
  <2>3. EntriesAreEarned'
    BY <1>10, <2>2 DEF Clear, EntriesAreEarned, Untouched, Burning
  <2>4. QED
    BY <1>10, <2>1, <2>3 DEF Clear, ListsAreTrue, MergesAreEarned, Untouched, Burning, Idle
<1>11. CASE UNCHANGED vars
  BY <1>11 DEF vars, EntriesAreEarned, ListsAreTrue, MergesAreEarned, Untouched, Burning
<1>12. QED
  BY <1>1, <1>2, <1>3, <1>4, <1>5, <1>6, <1>7, <1>8, <1>9, <1>10, <1>11 DEF Next, Sweep

(* As long as Valkey answers, two fires nobody has touched are merged only *)
(* after they have overlapped for the whole time asked for.                *)
THEOREM MergesAreNotHasty == Spec => NoHastyMerge
<1>1. TypeOK /\ Earned /\ [Next]_vars =>
        [\A s \in Sweeps :
           Merges(s) /\ (\A f \in sweep[s].pair : changes[f] = 0)
             => steadyFor[sweep[s].pair] = Debounce]_vars
  BY DEF Earned, MergesAreEarned, Merges, Untouched
<1>2. QED
  BY <1>1, TypeInit, TypeStep, EarnedInit, EarnedStep, PTL DEF Spec, NoHastyMerge

=============================================================================
