------------------------ MODULE PartitionMatchProofs ------------------------
(***************************************************************************)
(* Proofs about matchTargetPartition, for lists of any length over any     *)
(* names and bounds.                                                       *)
(***************************************************************************)
EXTENDS PartitionMatch, TLAPS

(* A partition is matched by its bounds, or by its name if none has them.  *)
LEMMA HowMatched ==
  ASSUME NEW source, NEW targets, NEW i \in matchTargetPartition(source, targets)
  PROVE  /\ ~MatchFails(source, targets)
         /\ \/ i \in SameRange(source, targets)
            \/ /\ SameRange(source, targets) = {}
               /\ SameName(source, targets) # {} /\ i = Last(SameName(source, targets))
BY DEF matchTargetPartition

(* The last of a set of places in a list, where names differ.              *)
LEMMA LastNamed ==
  ASSUME NEW source, NEW n \in Nat, NEW targets, DOMAIN targets = 1..n, Distinct(targets),
         SameName(source, targets) # {}
  PROVE  /\ Last(SameName(source, targets)) \in SameName(source, targets)
         /\ \A i \in SameName(source, targets) : i = Last(SameName(source, targets))
<1>1. PICK i \in SameName(source, targets) : TRUE
  OBVIOUS
<1>2. \A j \in SameName(source, targets) : j = i
  BY DEF SameName, Distinct
<1>3. i \in 1..n
  BY DEF SameName
<1>4. \A j \in SameName(source, targets) : j <= i
  BY <1>2, <1>3
<1>5. Last(SameName(source, targets)) \in SameName(source, targets)
  BY <1>1, <1>4 DEF Last
<1>. QED
  BY <1>2, <1>5

(* Rows never go to a target partition of other bounds.                    *)
THEOREM BoundsCorrect ==
  ASSUME NEW source, NEW targets
  PROVE  BoundsRespected(source, targets)
<1>. SUFFICES ASSUME NEW i \in matchTargetPartition(source, targets)
              PROVE  \/ targets[i].bounds = {} \/ source.bounds = {}
                     \/ targets[i].bounds = source.bounds
  BY DEF BoundsRespected
<1>1. CASE i \in SameRange(source, targets)
  BY <1>1 DEF SameRange
<1>2. CASE /\ SameRange(source, targets) = {}
           /\ SameName(source, targets) # {} /\ i = Last(SameName(source, targets))
  BY <1>2, HowMatched DEF MatchFails
<1>. QED
  BY <1>1, <1>2, HowMatched

(* Each source partition of a table has a target partition of its own.     *)
THEOREM ApartCorrect ==
  ASSUME NEW sources, Distinct(sources), AllOrNone(sources),
         NEW n \in Nat, NEW targets, DOMAIN targets = 1..n, Distinct(targets)
  PROVE  MatchedApart(sources, targets)
<1>. SUFFICES ASSUME NEW i \in DOMAIN sources, NEW j \in DOMAIN sources, i # j,
                     NEW k \in matchTargetPartition(sources[i], targets),
                     k \in matchTargetPartition(sources[j], targets)
              PROVE  FALSE
  BY DEF MatchedApart
<1>. DEFINE s == sources[i]
            r == sources[j]
<1>1. s.name # r.name /\ (s.bounds = {} \/ s.bounds # r.bounds) /\ (s.bounds = {} <=> r.bounds = {})
  BY DEF Distinct, AllOrNone
<1>2. /\ k \in SameRange(s, targets) \/ (SameRange(s, targets) = {} /\ k \in SameName(s, targets))
      /\ k \in SameRange(r, targets) \/ (SameRange(r, targets) = {} /\ k \in SameName(r, targets))
  BY HowMatched, LastNamed
<1>3. ~(k \in SameName(s, targets) /\ k \in SameName(r, targets))
  BY <1>1 DEF SameName
<1>4. ~(k \in SameRange(s, targets) /\ k \in SameRange(r, targets))
  BY <1>1 DEF SameRange
<1>5. /\ targets[k].bounds = {} \/ s.bounds = {} \/ targets[k].bounds = s.bounds
      /\ targets[k].bounds = {} \/ r.bounds = {} \/ targets[k].bounds = r.bounds
  BY BoundsCorrect DEF BoundsRespected
<1>6. k \in SameRange(s, targets) => targets[k].bounds # {} /\ targets[k].bounds = s.bounds
  BY DEF SameRange
<1>7. k \in SameRange(r, targets) => targets[k].bounds # {} /\ targets[k].bounds = r.bounds
  BY DEF SameRange
<1>. QED
  BY <1>1, <1>2, <1>3, <1>4, <1>5, <1>6, <1>7

(* There is one match at most, by bounds if possible.                      *)
THEOREM OneCorrect ==
  ASSUME NEW source, NEW targets
  PROVE  OneMatch(source, targets)
BY DEF OneMatch, matchTargetPartition, MatchFails

(* The order in which SHOW PARTITIONS lists a table does not matter.       *)
THEOREM OrderCorrect ==
  ASSUME NEW source, NEW n \in Nat, NEW targets, DOMAIN targets = 1..n, Distinct(targets),
         NEW f \in [1..n -> 1..n], \A k \in 1..n : \E i \in 1..n : f[i] = k,
         \A i, j \in 1..n : f[i] = f[j] => i = j
  PROVE  OrderIrrelevant(source, targets, f)
<1>. DEFINE shuffled == [i \in DOMAIN targets |-> targets[f[i]]]
<1>1. DOMAIN shuffled = 1..n /\ \A i \in 1..n : shuffled[i] = targets[f[i]]
  OBVIOUS
<1>2. Distinct(shuffled)
  <2>. SUFFICES ASSUME NEW i \in 1..n, NEW j \in 1..n, i # j
                PROVE  /\ shuffled[i].name # shuffled[j].name
                       /\ shuffled[i].bounds = {} \/ shuffled[i].bounds # shuffled[j].bounds
    BY <1>1 DEF Distinct
  <2>1. f[i] # f[j] /\ f[i] \in DOMAIN targets /\ f[j] \in DOMAIN targets
    OBVIOUS
  <2>2. shuffled[i] = targets[f[i]] /\ shuffled[j] = targets[f[j]]
    OBVIOUS
  <2>. QED
    BY <2>1, <2>2 DEF Distinct
<1>. HIDE DEF shuffled
<1>3. \A i \in 1..n : /\ i \in SameRange(source, shuffled) <=> f[i] \in SameRange(source, targets)
                      /\ i \in SameName(source, shuffled) <=> f[i] \in SameName(source, targets)
  BY <1>1 DEF SameRange, SameName
<1>4. /\ SameRange(source, shuffled) \subseteq 1..n /\ SameRange(source, targets) \subseteq 1..n
      /\ SameName(source, shuffled) \subseteq 1..n /\ SameName(source, targets) \subseteq 1..n
  BY <1>1 DEF SameRange, SameName
<1>5. /\ SameRange(source, shuffled) = {} <=> SameRange(source, targets) = {}
      /\ SameName(source, shuffled) = {} <=> SameName(source, targets) = {}
  <2>1. \A k \in SameRange(source, targets) : \E i \in 1..n : i \in SameRange(source, shuffled)
    BY <1>3, <1>4
  <2>2. \A k \in SameName(source, targets) : \E i \in 1..n : i \in SameName(source, shuffled)
    BY <1>3, <1>4
  <2>3. /\ \A i \in SameRange(source, shuffled) : f[i] \in SameRange(source, targets)
        /\ \A i \in SameName(source, shuffled) : f[i] \in SameName(source, targets)
    BY <1>3, <1>4
  <2>. QED
    BY <2>1, <2>2, <2>3
<1>6. (\E i, j \in SameRange(source, shuffled) : i # j)
        <=> (\E i, j \in SameRange(source, targets) : i # j)
  <2>1. ASSUME NEW i \in SameRange(source, shuffled), NEW j \in SameRange(source, shuffled), i # j
        PROVE  \E k, l \in SameRange(source, targets) : k # l
    <3>1. i \in 1..n /\ j \in 1..n
      BY <1>4
    <3>2. f[i] \in SameRange(source, targets) /\ f[j] \in SameRange(source, targets)
      BY <1>3, <3>1
    <3>3. f[i] # f[j]
      BY <2>1, <3>1
    <3>. QED
      BY <3>2, <3>3
  <2>2. ASSUME NEW k \in SameRange(source, targets), NEW l \in SameRange(source, targets), k # l
        PROVE  \E i, j \in SameRange(source, shuffled) : i # j
    <3>1. PICK i \in 1..n, j \in 1..n : f[i] = k /\ f[j] = l
      BY <1>4
    <3>. QED
      BY <1>3, <2>2, <3>1
  <2>. QED
    BY <2>1, <2>2
<1>7. SameName(source, targets) # {} =>
        f[Last(SameName(source, shuffled))] = Last(SameName(source, targets))
  BY <1>1, <1>2, <1>3, <1>4, <1>5, LastNamed
<1>8. SameName(source, targets) # {} =>
        shuffled[Last(SameName(source, shuffled))] = targets[Last(SameName(source, targets))]
  <2>1. SameName(source, targets) # {} => Last(SameName(source, shuffled)) \in 1..n
    BY <1>1, <1>2, <1>4, <1>5, LastNamed
  <2>. QED
    BY <1>1, <1>7, <2>1
<1>9. MatchFails(source, shuffled) <=> MatchFails(source, targets)
  BY <1>5, <1>6, <1>8 DEF MatchFails
<1>10. SameName(source, targets) # {} =>
         \A i \in 1..n : i = Last(SameName(source, shuffled))
                           <=> f[i] = Last(SameName(source, targets))
  <2>. SUFFICES ASSUME SameName(source, targets) # {}, NEW i \in 1..n
                PROVE  i = Last(SameName(source, shuffled))
                         <=> f[i] = Last(SameName(source, targets))
    OBVIOUS
  <2>1. Last(SameName(source, shuffled)) \in 1..n
    BY <1>1, <1>2, <1>4, <1>5, LastNamed
  <2>. QED
    BY <1>7, <2>1
<1>11. \A i \in 1..n : i \in matchTargetPartition(source, shuffled)
                         <=> f[i] \in matchTargetPartition(source, targets)
  BY <1>3, <1>5, <1>9, <1>10 DEF matchTargetPartition
<1>. QED
  BY <1>9, <1>11 DEF OrderIrrelevant, shuffled
=============================================================================
