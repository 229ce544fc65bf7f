---------------------------- MODULE SitePortsProofs ----------------------------
(***************************************************************************)
(* That the ports of the websites are kept apart, for any number of sites, *)
(* any two ranges of ports and any number of ends of the panel.            *)
(*                                                                         *)
(* RecordedIsOwned does not carry itself: a creation records ports that it *)
(* was handed several awaits before.  The invariant says who answers for   *)
(* them meanwhile: the row of the port table, which the reclaim leaves     *)
(* alone as long as the site is configured with no pair.                   *)
(***************************************************************************)
EXTENDS SitePorts, FiniteSetTheorems, TLAPS

\* A site has its row from the first step of its creation, and no pair, for
\* which reclaimStalePorts would compare, before the last but one.
Staged == \A s \in Sites :
    /\ making[s] \in {"none", "pair", "look", "preview"} => pair[s] = {}
    /\ making[s] \in {"none", "failed"} => s \notin live
    /\ making[s] = "none" => preview[s] = None /\ s \notin missing /\ fixing # s

\* What a creation is about to record is in the table under its name.
HandedOver == \A s \in Sites :
    /\ s \in Static => handed[s] = {}
    /\ making[s] \in {"look", "preview"} =>
          /\ s \in live => \A p \in handed[s] : owner[p] = s
          /\ s \notin Static => handed[s] # {}

\* A site that was made has its pair.
Paired == \A s \in live \ Static : making[s] \in {"files", "done", "old"} => pair[s] # {}

\* A creation that failed has left no port behind.
Gone == \A s \in Sites : making[s] = "failed" => \A p \in Ports : owner[p] # s

\* Once the list was read, an older site that has a port it is not configured
\* with is still on it.
Listed == /\ boot \in {"ensure", "up"} => \A s \in live :
                making[s] \in {"old", "cut"} /\ preview[s] = None /\ s \notin missing
                    => \A p \in PreviewPorts : owner[p] # s
          /\ boot = "up" => missing = {}

IInv == TypeOK /\ RecordedIsOwned /\ Staged /\ HandedOver /\ Paired /\ Gone /\ Listed


LEMMA CoupleFacts ==
    /\ {} \in Couple
    /\ \A ps \in Couple : ps \subseteq AppPorts
    /\ \A ps \in SUBSET AppPorts : Cardinality(ps) = 2 => ps \in Couple
    /\ \A ps \in Couple : ps # {} => Cardinality(ps) = 2
<1>1. Cardinality({}) = 0
  BY FS_EmptySet
<1>2. ASSUME NEW ps \in Couple, Cardinality(ps) = 0 PROVE ps = {}
  <2>1. IsFiniteSet(ps)
    BY <1>2, FS_Subset, PortsAssumption DEF Couple
  <2> QED BY <1>2, <2>1, FS_EmptySet
<1> QED BY <1>1, <1>2 DEF Couple

\* The reclaim takes from no site what it is configured with, and from no
\* creation what it was handed.
LEMMA ReclaimSpares ==
    ASSUME IInv, Reclaim
    PROVE  /\ owner' \in [Ports -> Sites \cup {None}]
           /\ pair' \in [Sites -> Couple]
           /\ \A p \in Ports : owner'[p] = None \/ (owner'[p] = owner[p] /\ owner[p] \in live)
           /\ \A s \in Sites : pair'[s] = {} \/ pair'[s] = pair[s]
           /\ \A s \in Sites \ Static : pair'[s] = pair[s]
           /\ \A s \in live, p \in Ports : p \in pair'[s] \/ p = preview[s] => owner'[p] = s
           /\ \A s \in live : making[s] \in {"look", "preview"} => \A p \in handed[s] : owner'[p] = s
<1> USE DEF IInv
<1>1. owner' = [p \in Ports |-> IF Stale(p) THEN None ELSE owner[p]]
  BY DEF Reclaim
<1>2. pair' = Unpaired
  BY DEF Reclaim
<1>3. owner' \in [Ports -> Sites \cup {None}]
  BY <1>1 DEF TypeOK
<1>4. pair' \in [Sites -> Couple]
  BY <1>2, CoupleFacts DEF Unpaired, TypeOK
<1>5. ASSUME NEW p \in Ports PROVE owner'[p] = None \/ (owner'[p] = owner[p] /\ owner[p] \in live)
  <2>1. CASE Stale(p)
    BY <1>1, <2>1
  <2>2. CASE ~Stale(p)
    <3>1. owner'[p] = owner[p]
      BY <1>1, <2>2
    <3>2. owner[p] = None \/ owner[p] \in live
      BY <2>2 DEF Stale
    <3> QED BY <3>1, <3>2
  <2> QED BY <2>1, <2>2
<1>6. \A s \in Sites : pair'[s] = {} \/ pair'[s] = pair[s]
  BY <1>2 DEF Unpaired
<1>7. \A s \in Sites \ Static : pair'[s] = pair[s]
  BY <1>2 DEF Unpaired
<1>8. ASSUME NEW s \in live, NEW p \in Ports, p \in pair'[s] \/ p = preview[s]
      PROVE  owner'[p] = s
  <2>1. s \in Sites /\ s # None
    BY PortsAssumption DEF TypeOK
  <2>2. p \in pair[s] \/ p = preview[s]
    BY <1>6, <1>8, <2>1
  <2>3. owner[p] = s
    BY <2>1, <2>2 DEF RecordedIsOwned, Recorded
  <2>4. CASE p \in AppPorts
    <3>1. p # preview[s] \/ p \notin PreviewPorts
      BY <2>4, PortsAssumption
    <3>2. preview[s] \in PreviewPorts \cup {None} /\ p # None
      BY <2>1, PortsAssumption DEF TypeOK
    <3>3. p \in pair'[s]
      BY <1>8, <3>1, <3>2
    <3>4. s \notin Static
      BY <1>2, <2>1, <2>3, <2>4, <3>3 DEF Unpaired
    <3>5. ~Stale(p)
      BY <2>3, <2>4, <3>3, <3>4, <1>7, <2>1, PortsAssumption DEF Stale, StaleApp
    <3> QED BY <1>1, <2>3, <3>5
  <2>5. CASE p \in PreviewPorts
    <3>1. p \notin AppPorts
      BY <2>5, PortsAssumption
    <3>2. p = preview[s]
      BY <2>1, <2>2, <3>1, CoupleFacts DEF TypeOK
    <3>3. ~Stale(p)
      BY <2>3, <3>1, <3>2 DEF Stale, StalePreview
    <3> QED BY <1>1, <2>3, <3>3
  <2> QED BY <2>4, <2>5 DEF Ports
<1>9. ASSUME NEW s \in live, making[s] \in {"look", "preview"}, NEW p \in handed[s]
      PROVE  owner'[p] = s
  <2>1. s \in Sites
    BY DEF TypeOK
  <2>2. p \in AppPorts /\ p \in Ports /\ p \notin PreviewPorts
    BY <2>1, CoupleFacts, PortsAssumption DEF TypeOK, Ports
  <2>3. owner[p] = s /\ pair[s] = {} /\ s \notin Static
    BY <1>9, <2>1 DEF HandedOver, Staged
  <2>4. ~Stale(p)
    BY <2>2, <2>3 DEF Stale, StaleApp
  <2> QED BY <1>1, <2>2, <2>3, <2>4
<1> QED BY <1>3, <1>4, <1>5, <1>6, <1>7, <1>8, <1>9

\* What the types say of one site.
LEMMA Sorts ==
    ASSUME TypeOK, NEW s \in Sites
    PROVE  /\ s # None
           /\ handed[s] \subseteq AppPorts /\ handed[s] \subseteq Ports
           /\ pair[s] \subseteq AppPorts /\ pair[s] \subseteq Ports
           /\ preview[s] \in Ports \cup {None} /\ preview[s] \notin AppPorts
           /\ making[s] \in Makings
<1>1. handed[s] \in Couple /\ pair[s] \in Couple /\ preview[s] \in PreviewPorts \cup {None}
  BY DEF TypeOK
<1>2. None \notin AppPorts /\ AppPorts \cap PreviewPorts = {} /\ s # None
  BY PortsAssumption DEF Ports
<1>3. making[s] \in Makings
  BY DEF TypeOK
<1> QED BY <1>1, <1>2, <1>3, CoupleFacts DEF Ports

LEMMA InitHolds == Init => IInv
<1> SUFFICES ASSUME Init PROVE IInv
  OBVIOUS
<1>1. Old \subseteq Sites /\ Static \subseteq Sites /\ MaxCrashes \in Nat
  BY PortsAssumption
<1>2. TypeOK
  BY <1>1, CoupleFacts DEF Init, TypeOK, Makings, Boots, Seekers
<1>3. RecordedIsOwned
  BY DEF Init, RecordedIsOwned
<1>4. Staged
  <2> SUFFICES ASSUME NEW s \in Sites,
                      making[s] \in {"none", "failed", "pair", "look", "preview"}
               PROVE  pair[s] = {} /\ s \notin live /\ preview[s] = None /\ s \notin missing /\ fixing # s
    BY DEF Staged
  <2>1. s \notin Old
    BY DEF Init
  <2>2. s \notin live /\ fixing # s /\ s \notin missing
    BY <2>1, PortsAssumption DEF Init
  <2>3. pair[s] = {} /\ preview[s] = None
    BY <2>2 DEF Init
  <2> QED BY <2>2, <2>3
<1>5. HandedOver
  BY DEF Init, HandedOver
<1>6. Paired
  BY <1>1 DEF Init, Paired
<1>7. Gone
  BY DEF Init, Gone
<1>8. Listed
  BY DEF Init, Listed
<1> QED BY <1>2, <1>3, <1>4, <1>5, <1>6, <1>7, <1>8 DEF IInv

LEMMA InsertKeeps ==
    ASSUME IInv, NEW s \in Sites, Insert(s)
    PROVE  IInv'
<1> USE PortsAssumption DEF IInv
<1>0. /\ Reclaim
      /\ owner' \in [Ports -> Sites \cup {None}]
      /\ pair' \in [Sites -> Couple]
      /\ \A p \in Ports : owner'[p] = None \/ (owner'[p] = owner[p] /\ owner[p] \in live)
      /\ \A x \in Sites : pair'[x] = {} \/ pair'[x] = pair[x]
      /\ \A x \in Sites \ Static : pair'[x] = pair[x]
      /\ \A x \in live, p \in Ports : p \in pair'[x] \/ p = preview[x] => owner'[p] = x
      /\ \A x \in live : making[x] \in {"look", "preview"} => \A p \in handed[x] : owner'[p] = x
  BY ReclaimSpares DEF Insert
<1>1. TypeOK'
  <2>1. handed' \in [Sites -> Couple]
    <3>1. CASE s \in Static
      BY <3>1 DEF Insert, TypeOK
    <3>2. CASE s \notin Static
      <4>1. PICK ps \in Pairs({p \in Taken : ~Stale(p)}) : handed' = [handed EXCEPT ![s] = ps]
        BY <3>2 DEF Insert
      <4>2. ps \in Couple
        BY CoupleFacts DEF Pairs
      <4> QED BY <4>1, <4>2 DEF TypeOK
    <3> QED BY <3>1, <3>2
  <2>2. making' \in [Sites -> Makings]
    BY DEF Insert, Goto, TypeOK, Makings, Creating
  <2> QED BY <1>0, <2>1, <2>2 DEF Insert, TypeOK, repair
<1>2. RecordedIsOwned'
  <2> SUFFICES ASSUME NEW x \in Sites, NEW p \in Ports, x \in live', p \in pair'[x] \/ p = preview'[x]
               PROVE  owner'[p] = x
    BY DEF RecordedIsOwned, Recorded
  <2>0. x # None /\ p # None /\ (x \in live /\ (p \in pair[x] \/ p = preview[x]) => owner[p] = x)
    BY Sorts DEF RecordedIsOwned, Recorded, Ports
  <2>1. preview' = preview /\ live' = live \cup {s} /\ making[s] = "none"
    BY DEF Insert
  <2>2. CASE x \in live
    BY <1>0, <2>1, <2>2
  <2>3. CASE x \notin live
    <3>1. x = s /\ pair[s] = {} /\ preview[s] = None
      BY <2>1, <2>3 DEF Staged
    <3>2. pair'[s] = {}
      BY <1>0, <3>1
    <3> QED BY <2>0, <2>1, <3>1, <3>2
  <2> QED BY <2>2, <2>3
<1>3. Staged'
  <2>1. making[s] = "none" /\ live' = live \cup {s} /\ preview' = preview /\ UNCHANGED repair
    BY DEF Insert
  <2>2. \E step \in {"pair", "look"} : making' = [making EXCEPT ![s] = step]
    BY DEF Insert, Goto
  <2> QED BY <1>0, <2>1, <2>2 DEF Staged, TypeOK, repair
<1>4. HandedOver'
  BY <1>0, Sorts DEF Insert, Goto, Pairs, HandedOver, TypeOK, Ports
<1>5. Paired'
  BY <1>0, Sorts DEF Insert, Goto, Pairs, Paired, TypeOK
<1>6. Gone'
  BY <1>0, Sorts DEF Insert, Goto, Pairs, Gone, TypeOK
<1>7. Listed'
  <2>1. making[s] = "none" /\ live' = live \cup {s} /\ preview' = preview /\ UNCHANGED repair
    BY DEF Insert
  <2>2. \E step \in {"pair", "look"} : making' = [making EXCEPT ![s] = step]
    BY DEF Insert, Goto
  <2>3. \A x \in Sites : x # None
    BY PortsAssumption
  <2> QED BY <1>0, <2>1, <2>2, <2>3 DEF Listed, TypeOK, repair, Ports
<1> QED BY <1>1, <1>2, <1>3, <1>4, <1>5, <1>6, <1>7

LEMMA PairKeeps ==
    ASSUME IInv, NEW s \in Sites, Pair(s)
    PROVE  IInv'
<1> USE PortsAssumption DEF IInv
<1>1. TypeOK'
  <2>1. CASE Insertable(s)
    <3>1. owner' \in [Ports -> Sites \cup {None}]
      BY <2>1 DEF Pair, TypeOK
    <3>2. making' \in [Sites -> Makings]
      BY <2>1 DEF Pair, Goto, TypeOK, Makings, Creating
    <3> QED BY <2>1, <3>1, <3>2 DEF Pair, TypeOK, rows, repair
  <2>2. CASE Fail(s)
    <3>1. /\ live' \in SUBSET Sites /\ pair' \in [Sites -> Couple]
          /\ preview' \in [Sites -> PreviewPorts \cup {None}]
          /\ owner' \in [Ports -> Sites \cup {None}]
      BY <2>2, CoupleFacts DEF Fail, TypeOK
    <3>2. making' \in [Sites -> Makings]
      BY <2>2 DEF Fail, Goto, TypeOK, Makings
    <3> QED BY <3>1, <3>2 DEF Pair, TypeOK, repair
  <2> QED BY <2>1, <2>2 DEF Pair
<1>2. RecordedIsOwned'
  <2> SUFFICES ASSUME NEW x \in Sites, NEW p \in Ports, x \in live', p \in pair'[x] \/ p = preview'[x]
               PROVE  owner'[p] = x
    BY DEF RecordedIsOwned, Recorded
  <2>0. x # None /\ p # None /\ (x \in live /\ (p \in pair[x] \/ p = preview[x]) => owner[p] = x)
    BY Sorts DEF RecordedIsOwned, Recorded, Ports
  <2>1. making[s] = "pair" /\ pair[s] = {}
    BY DEF Pair, Staged
  <2>2. CASE Insertable(s)
    <3>1. UNCHANGED rows
      BY <2>2 DEF Pair
    <3>2. owner' = [q \in Ports |-> IF q \in handed[s] THEN s
                                    ELSE IF q \in AppPorts /\ owner[q] = s THEN None ELSE owner[q]]
      BY <2>2 DEF Pair
    <3>3. owner[p] = x /\ (p \in pair[x] \/ p = preview[x])
      BY <2>0, <3>1 DEF rows
    <3>4. CASE x = s
      <4>1. p \notin AppPorts
        BY <2>1, <3>3, <3>4, Sorts
      <4> QED BY <3>2, <3>3, <3>4, <4>1
    <3>5. CASE x # s
      <4>1. p \notin handed[s]
        BY <2>0, <2>2, <3>3, <3>5 DEF Insertable
      <4> QED BY <3>2, <3>3, <3>5, <4>1
    <3> QED BY <3>4, <3>5
  <2>3. CASE Fail(s)
    BY <2>0, <2>3 DEF Fail, TypeOK
  <2> QED BY <2>2, <2>3 DEF Pair
<1>3. Staged'
  BY Sorts DEF Pair, Goto, Fail, Insertable, rows, repair, Staged, TypeOK
<1>4. HandedOver'
  BY Sorts DEF Pair, Goto, Fail, Insertable, rows, repair, HandedOver, TypeOK, Ports
<1>5. Paired'
  BY Sorts DEF Pair, Goto, Fail, Insertable, rows, repair, Paired, TypeOK
<1>6. Gone'
  BY Sorts DEF Pair, Goto, Fail, Insertable, rows, repair, Gone, TypeOK
<1>7. Listed'
  <2>1. making[s] = "pair" /\ UNCHANGED repair
    BY DEF Pair
  <2>2. s # None /\ handed[s] \subseteq Ports /\ handed[s] \cap PreviewPorts = {}
    BY Sorts
  <2>3. CASE Insertable(s)
    BY <2>1, <2>2, <2>3 DEF Pair, Goto, rows, repair, Listed, TypeOK, Ports
  <2>4. CASE Fail(s)
    BY <2>1, <2>2, <2>4 DEF Fail, Goto, repair, Listed, TypeOK, Ports
  <2> QED BY <2>3, <2>4 DEF Pair
<1> QED BY <1>1, <1>2, <1>3, <1>4, <1>5, <1>6, <1>7

LEMMA LookKeeps ==
    ASSUME IInv, NEW s \in Sites, Look(s)
    PROVE  IInv'
<1> USE PortsAssumption DEF IInv
<1>1. TypeOK'
  <2>1. making' \in [Sites -> Makings]
    BY DEF Look, Record, Goto, TypeOK, Makings, Creating
  <2>2. found' \in [Seekers -> PreviewPorts \cup {None}]
    BY DEF Look, TypeOK, Seekers
  <2>3. pair' \in [Sites -> Couple]
    BY DEF Look, Record, TypeOK
  <2>4. preview' \in [Sites -> PreviewPorts \cup {None}]
    BY DEF Look, Record, Existing, TypeOK
  <2> QED BY <2>1, <2>2, <2>3, <2>4 DEF Look, TypeOK, repair
<1>2. RecordedIsOwned'
  <2> SUFFICES ASSUME NEW x \in Sites, NEW p \in Ports, x \in live', p \in pair'[x] \/ p = preview'[x]
               PROVE  owner'[p] = x
    BY DEF RecordedIsOwned, Recorded
  <2>0. x # None /\ p # None /\ (x \in live /\ (p \in pair[x] \/ p = preview[x]) => owner[p] = x)
    BY Sorts DEF RecordedIsOwned, Recorded, Ports
  <2>1. CASE Existing(s) # {}
    <3>0. making[s] = "look" /\ x \in live /\ owner' = owner
      BY DEF Look
    <3>1. PICK q \in Existing(s) : Record(s, q)
      BY <2>1 DEF Look
    <3>2. CASE x = s
      <4>1. x \in live
        BY <3>0
      <4>2. pair'[x] = handed[s] /\ preview'[x] = q
        BY <3>1, <3>2, <4>1 DEF Record, TypeOK
      <4>3. p \in handed[s] => owner[p] = s
        BY <3>0, <3>2, <4>1 DEF HandedOver
      <4> QED BY <2>0, <3>0, <3>1, <3>2, <4>2, <4>3 DEF Existing
    <3>3. CASE x # s
      <4>1. pair'[x] = pair[x] /\ preview'[x] = preview[x]
        BY <3>1, <3>3 DEF Record, TypeOK
      <4> QED BY <2>0, <3>0, <3>3, <4>1
    <3> QED BY <3>2, <3>3
  <2>2. CASE Existing(s) = {}
    BY <2>0, <2>2 DEF Look
  <2> QED BY <2>1, <2>2
<1>3. Staged'
  BY Sorts DEF Look, Record, Goto, repair, Staged, TypeOK
<1>4. HandedOver'
  BY Sorts DEF Look, Record, Goto, repair, HandedOver, TypeOK, Ports
<1>5. Paired'
  <2>1. making[s] = "look" /\ live' = live
    BY DEF Look
  <2>2. s \in live \ Static => handed[s] # {}
    BY <2>1 DEF HandedOver
  <2>3. ASSUME NEW q, Record(s, q) PROVE Paired'
    BY <2>1, <2>2, <2>3 DEF Record, Goto, Paired, TypeOK
  <2>4. CASE Existing(s) # {}
    BY <2>3, <2>4 DEF Look
  <2>5. CASE Existing(s) = {}
    BY <2>1, <2>5 DEF Look, Goto, Paired, TypeOK
  <2> QED BY <2>4, <2>5
<1>6. Gone'
  BY Sorts DEF Look, Record, Goto, repair, Gone, TypeOK
<1>7. Listed'
  BY Sorts DEF Look, Record, Goto, repair, Listed, TypeOK, RecordedIsOwned, Recorded, Existing
<1> QED BY <1>1, <1>2, <1>3, <1>4, <1>5, <1>6, <1>7

LEMMA PreviewKeeps ==
    ASSUME IInv, NEW s \in Sites, Preview(s)
    PROVE  IInv'
<1> USE PortsAssumption DEF IInv
<1>1. TypeOK'
  BY CoupleFacts DEF Preview, Record, Goto, Free, repair, TypeOK, Makings, Creating, Boots, Seekers, Ports
<1>2. RecordedIsOwned'
  <2> SUFFICES ASSUME NEW x \in Sites, NEW p \in Ports, x \in live', p \in pair'[x] \/ p = preview'[x]
               PROVE  owner'[p] = x
    BY DEF RecordedIsOwned, Recorded
  <2>0. x # None /\ p # None /\ (x \in live /\ (p \in pair[x] \/ p = preview[x]) => owner[p] = x)
    BY Sorts DEF RecordedIsOwned, Recorded, Ports
  <2> DEFINE f == found[s]
  <2>1. making[s] = "preview" /\ live' = live
    BY DEF Preview
  <2>2. CASE Free(f, s)
    <3>0. making[s] = "preview" /\ x \in live /\ owner' = [owner EXCEPT ![f] = s] /\ owner[f] = None
      BY <2>1, <2>2 DEF Preview, Free
    <3>1. Record(s, f) /\ f \in Ports
      BY <2>2 DEF Preview, Free, TypeOK, Seekers, Ports
    <3>2. CASE x = s
      <4>1. x \in live
        BY <3>0
      <4>2. pair'[x] = handed[s] /\ preview'[x] = f
        BY <3>1, <3>2, <4>1 DEF Record, TypeOK
      <4>3. p \in handed[s] => owner[p] = s
        BY <3>0, <3>2, <4>1 DEF HandedOver
      <4> QED BY <2>0, <3>0, <3>1, <3>2, <4>2, <4>3 DEF TypeOK
    <3>3. CASE x # s
      <4>1. pair'[x] = pair[x] /\ preview'[x] = preview[x]
        BY <3>1, <3>3 DEF Record, TypeOK
      <4> QED BY <2>0, <3>0, <3>3, <4>1, <3>1 DEF TypeOK
    <3> QED BY <3>2, <3>3
  <2>3. CASE ~Free(f, s)
    <3>0. making[s] = "preview" /\ x \in live /\ owner' = owner
      BY <2>1, <2>3 DEF Preview
    <3>1. Record(s, None)
      BY <2>3 DEF Preview
    <3>2. CASE x = s
      <4>1. x \in live
        BY <3>0
      <4>2. pair'[x] = handed[s] /\ preview'[x] = None
        BY <3>1, <3>2, <4>1 DEF Record, TypeOK
      <4>3. p \in handed[s] => owner[p] = s
        BY <3>0, <3>2, <4>1 DEF HandedOver
      <4> QED BY <2>0, <3>0, <3>1, <3>2, <4>2, <4>3
    <3>3. CASE x # s
      <4>1. pair'[x] = pair[x] /\ preview'[x] = preview[x]
        BY <3>1, <3>3 DEF Record, TypeOK
      <4> QED BY <2>0, <3>0, <3>3, <4>1
    <3> QED BY <3>2, <3>3
  <2> QED BY <2>2, <2>3
<1>3. Staged'
  BY Sorts DEF Preview, Record, Goto, Free, repair, Staged, TypeOK
<1>4. HandedOver'
  BY Sorts DEF Preview, Record, Goto, Free, repair, HandedOver, TypeOK, Ports
<1>5. Paired'
  <2>1. making[s] = "preview" /\ live' = live
    BY DEF Preview
  <2>2. s \in live \ Static => handed[s] # {}
    BY <2>1 DEF HandedOver
  <2>3. ASSUME NEW q, Record(s, q) PROVE Paired'
    BY <2>1, <2>2, <2>3 DEF Record, Goto, Paired, TypeOK
  <2> QED BY <2>3 DEF Preview
<1>6. Gone'
  BY Sorts DEF Preview, Record, Goto, Free, repair, Gone, TypeOK
<1>7. Listed'
  <2>1. making[s] = "preview" /\ live' = live /\ UNCHANGED repair
    BY DEF Preview
  <2>2. making' = [making EXCEPT ![s] = "files"]
    BY DEF Preview, Record, Goto
  <2>3. \A x \in Sites : x # s => preview'[x] = preview[x]
    BY DEF Preview, Record, TypeOK
  <2>4. \A x \in Sites, p \in PreviewPorts : x # s /\ owner[p] # x => owner'[p] # x
    BY DEF Preview, TypeOK, Ports
  <2> QED BY <2>1, <2>2, <2>3, <2>4 DEF Listed, TypeOK, repair
<1> QED BY <1>1, <1>2, <1>3, <1>4, <1>5, <1>6, <1>7

LEMMA FilesKeeps ==
    ASSUME IInv, NEW s \in Sites, Files(s)
    PROVE  IInv'
<1> USE PortsAssumption DEF IInv
<1>1. TypeOK'
  <2>1. CASE Goto(s, "done") /\ UNCHANGED <<rows, owner>>
    BY <2>1 DEF Files, Goto, rows, repair, TypeOK, Makings
  <2>2. CASE Fail(s)
    <3>1. /\ live' \in SUBSET Sites /\ pair' \in [Sites -> Couple]
          /\ preview' \in [Sites -> PreviewPorts \cup {None}]
          /\ owner' \in [Ports -> Sites \cup {None}]
      BY <2>2, CoupleFacts DEF Fail, TypeOK
    <3>2. making' \in [Sites -> Makings]
      BY <2>2 DEF Fail, Goto, TypeOK, Makings
    <3> QED BY <3>1, <3>2 DEF Files, TypeOK, repair
  <2> QED BY <2>1, <2>2 DEF Files
<1>2. RecordedIsOwned'
  BY Sorts DEF Files, Goto, Fail, rows, repair, RecordedIsOwned, Recorded, TypeOK, Ports
<1>3. Staged'
  BY Sorts DEF Files, Goto, Fail, rows, repair, Staged, TypeOK
<1>4. HandedOver'
  BY Sorts DEF Files, Goto, Fail, rows, repair, HandedOver, TypeOK, Ports
<1>5. Paired'
  BY Sorts DEF Files, Goto, Fail, rows, repair, Paired, TypeOK
<1>6. Gone'
  BY Sorts DEF Files, Goto, Fail, rows, repair, Gone, TypeOK
<1>7. Listed'
  <2>1. CASE Goto(s, "done") /\ UNCHANGED <<rows, owner>>
    BY <2>1 DEF Files, Goto, rows, repair, Listed, TypeOK
  <2>2. CASE Fail(s)
    BY <2>2, Sorts DEF Files, Fail, Goto, repair, Listed, TypeOK, Ports
  <2> QED BY <2>1, <2>2 DEF Files
<1> QED BY <1>1, <1>2, <1>3, <1>4, <1>5, <1>6, <1>7

LEMMA RemoveKeeps ==
    ASSUME IInv, NEW s \in Sites, Remove(s)
    PROVE  IInv'
<1> USE PortsAssumption DEF IInv
<1>1. TypeOK'
  BY CoupleFacts DEF Remove, repair, TypeOK, Makings, Creating, Boots, Seekers, Ports
<1>2. RecordedIsOwned'
  BY Sorts DEF Remove, repair, RecordedIsOwned, Recorded, TypeOK, Ports
<1>3. Staged'
  BY Sorts DEF Remove, repair, Staged, TypeOK
<1>4. HandedOver'
  BY Sorts DEF Remove, repair, HandedOver, TypeOK, Ports
<1>5. Paired'
  BY Sorts DEF Remove, repair, Paired, TypeOK
<1>6. Gone'
  BY Sorts DEF Remove, repair, Gone, TypeOK
<1>7. Listed'
  BY Sorts DEF Remove, repair, Listed, TypeOK, Ports
<1> QED BY <1>1, <1>2, <1>3, <1>4, <1>5, <1>6, <1>7

LEMMA BootReclaimKeeps ==
    ASSUME IInv, BootReclaim
    PROVE  IInv'
<1> USE PortsAssumption DEF IInv
<1>0. /\ Reclaim
      /\ owner' \in [Ports -> Sites \cup {None}]
      /\ pair' \in [Sites -> Couple]
      /\ \A p \in Ports : owner'[p] = None \/ (owner'[p] = owner[p] /\ owner[p] \in live)
      /\ \A x \in Sites : pair'[x] = {} \/ pair'[x] = pair[x]
      /\ \A x \in Sites \ Static : pair'[x] = pair[x]
      /\ \A x \in live, p \in Ports : p \in pair'[x] \/ p = preview[x] => owner'[p] = x
      /\ \A x \in live : making[x] \in {"look", "preview"} => \A p \in handed[x] : owner'[p] = x
  BY ReclaimSpares DEF BootReclaim
<1>1. TypeOK'
  BY <1>0, CoupleFacts DEF BootReclaim, TypeOK, Makings, Creating, Boots, Seekers, Ports
<1>2. RecordedIsOwned'
  BY <1>0, Sorts DEF BootReclaim, RecordedIsOwned, Recorded, TypeOK, Ports
<1>3. Staged'
  BY <1>0, Sorts DEF BootReclaim, Staged, TypeOK
<1>4. HandedOver'
  BY <1>0, Sorts DEF BootReclaim, HandedOver, TypeOK, Ports
<1>5. Paired'
  BY <1>0, Sorts DEF BootReclaim, Paired, TypeOK
<1>6. Gone'
  BY <1>0, Sorts DEF BootReclaim, Gone, TypeOK
<1>7. Listed'
  BY <1>0, Sorts DEF BootReclaim, Listed, TypeOK, RecordedIsOwned, Recorded, Existing
<1> QED BY <1>1, <1>2, <1>3, <1>4, <1>5, <1>6, <1>7

LEMMA EnsureReadKeeps ==
    ASSUME IInv, EnsureRead
    PROVE  IInv'
<1> USE PortsAssumption DEF IInv
<1>1. TypeOK'
  BY CoupleFacts DEF EnsureRead, rows, TypeOK, Makings, Creating, Boots, Seekers, Ports
<1>2. RecordedIsOwned'
  BY Sorts DEF EnsureRead, rows, RecordedIsOwned, Recorded, TypeOK, Ports
<1>3. Staged'
  BY Sorts DEF EnsureRead, rows, Staged, TypeOK
<1>4. HandedOver'
  BY Sorts DEF EnsureRead, rows, HandedOver, TypeOK, Ports
<1>5. Paired'
  BY Sorts DEF EnsureRead, rows, Paired, TypeOK
<1>6. Gone'
  BY Sorts DEF EnsureRead, rows, Gone, TypeOK
<1>7. Listed'
  BY Sorts DEF EnsureRead, rows, Listed, TypeOK, RecordedIsOwned, Recorded, Existing
<1> QED BY <1>1, <1>2, <1>3, <1>4, <1>5, <1>6, <1>7

LEMMA EnsureLookKeeps ==
    ASSUME IInv, EnsureLook
    PROVE  IInv'
<1> USE PortsAssumption DEF IInv
<1>1. TypeOK'
  <2>1. preview' \in [Sites -> PreviewPorts \cup {None}]
    BY DEF EnsureLook, Existing, TypeOK
  <2>2. found' \in [Seekers -> PreviewPorts \cup {None}]
    BY DEF EnsureLook, TypeOK, Seekers
  <2>3. missing' \in SUBSET Sites /\ fixing' \in Sites \cup {None}
    BY DEF EnsureLook, TypeOK
  <2> QED BY <2>1, <2>2, <2>3 DEF EnsureLook, TypeOK
<1>2. RecordedIsOwned'
  <2> SUFFICES ASSUME NEW x \in Sites, NEW p \in Ports, x \in live', p \in pair'[x] \/ p = preview'[x]
               PROVE  owner'[p] = x
    BY DEF RecordedIsOwned, Recorded
  <2>0. x # None /\ p # None /\ (x \in live /\ (p \in pair[x] \/ p = preview[x]) => owner[p] = x)
    BY Sorts DEF RecordedIsOwned, Recorded, Ports
  <2> QED BY <2>0 DEF EnsureLook, Existing, TypeOK
<1>3. Staged'
  BY Sorts DEF EnsureLook, Staged, TypeOK
<1>4. HandedOver'
  BY Sorts DEF EnsureLook, HandedOver, TypeOK, Ports
<1>5. Paired'
  BY Sorts DEF EnsureLook, Paired, TypeOK
<1>6. Gone'
  BY Sorts DEF EnsureLook, Gone, TypeOK
<1>7. Listed'
  <2>1. PICK t \in missing : /\ missing' = missing \ {t}
                             /\ \/ Existing(t) = {} /\ UNCHANGED preview
                                \/ \E q \in Existing(t) : preview' = [preview EXCEPT ![t] = q]
    BY DEF EnsureLook
  <2>2. boot = "ensure" /\ UNCHANGED <<live, owner, making, boot>>
    BY DEF EnsureLook
  <2>3. \A q \in Existing(t) : q # None
    BY DEF Existing, Ports
  <2> QED BY <2>1, <2>2, <2>3 DEF Listed, TypeOK, Existing
<1> QED BY <1>1, <1>2, <1>3, <1>4, <1>5, <1>6, <1>7

LEMMA EnsureAssignKeeps ==
    ASSUME IInv, EnsureAssign
    PROVE  IInv'
<1> USE PortsAssumption DEF IInv
<1>1. TypeOK'
  BY CoupleFacts DEF EnsureAssign, Free, TypeOK, Makings, Creating, Boots, Seekers, Ports
<1>2. RecordedIsOwned'
  BY Sorts DEF EnsureAssign, Free, RecordedIsOwned, Recorded, TypeOK, Ports
<1>3. Staged'
  BY Sorts DEF EnsureAssign, Free, Staged, TypeOK
<1>4. HandedOver'
  BY Sorts DEF EnsureAssign, Free, HandedOver, TypeOK, Ports
<1>5. Paired'
  BY Sorts DEF EnsureAssign, Free, Paired, TypeOK
<1>6. Gone'
  <2>1. making' = making /\ fixing # None
    BY DEF EnsureAssign
  <2>2. \A x \in Sites, p \in Ports : owner'[p] = x => owner[p] = x \/ (x = fixing /\ fixing \in live)
    BY DEF EnsureAssign, Free, TypeOK
  <2>3. \A x \in live : making[x] # "failed"
    BY DEF Staged, TypeOK
  <2> QED BY <2>1, <2>2, <2>3 DEF Gone, TypeOK
<1>7. Listed'
  <2>1. UNCHANGED <<live, making, boot, missing>>
    BY DEF EnsureAssign
  <2>2. CASE Free(found[None], fixing)
    <3>1. /\ owner' = [owner EXCEPT ![found[None]] = fixing]
          /\ preview' = [preview EXCEPT ![fixing] = found[None]]
          /\ found[None] # None
      BY <2>2 DEF EnsureAssign, Free
    <3>2. \A x \in Sites : x # fixing => preview'[x] = preview[x]
      BY <3>1 DEF TypeOK
    <3>3. fixing \in Sites => preview'[fixing] # None
      BY <3>1 DEF TypeOK
    <3>4. \A x \in Sites, p \in PreviewPorts : x # fixing /\ owner[p] # x => owner'[p] # x
      BY <3>1 DEF TypeOK, Ports
    <3> QED BY <2>1, <3>2, <3>3, <3>4 DEF Listed, TypeOK
  <2>3. CASE ~Free(found[None], fixing)
    BY <2>1, <2>3 DEF EnsureAssign, Listed
  <2> QED BY <2>2, <2>3
<1> QED BY <1>1, <1>2, <1>3, <1>4, <1>5, <1>6, <1>7

LEMMA EnsureDoneKeeps ==
    ASSUME IInv, EnsureDone
    PROVE  IInv'
<1> USE PortsAssumption DEF IInv
<1>1. TypeOK'
  BY CoupleFacts DEF EnsureDone, rows, TypeOK, Makings, Creating, Boots, Seekers, Ports
<1>2. RecordedIsOwned'
  BY Sorts DEF EnsureDone, rows, RecordedIsOwned, Recorded, TypeOK, Ports
<1>3. Staged'
  BY Sorts DEF EnsureDone, rows, Staged, TypeOK
<1>4. HandedOver'
  BY Sorts DEF EnsureDone, rows, HandedOver, TypeOK, Ports
<1>5. Paired'
  BY Sorts DEF EnsureDone, rows, Paired, TypeOK
<1>6. Gone'
  BY Sorts DEF EnsureDone, rows, Gone, TypeOK
<1>7. Listed'
  BY Sorts DEF EnsureDone, rows, Listed, TypeOK, RecordedIsOwned, Recorded, Existing
<1> QED BY <1>1, <1>2, <1>3, <1>4, <1>5, <1>6, <1>7

LEMMA CrashKeeps ==
    ASSUME IInv, Crash
    PROVE  IInv'
<1> USE PortsAssumption DEF IInv
<1>1. TypeOK'
  BY CoupleFacts DEF Crash, rows, TypeOK, Makings, Creating, Boots, Seekers, Ports
<1>2. RecordedIsOwned'
  BY Sorts DEF Crash, rows, RecordedIsOwned, Recorded, TypeOK, Ports
<1>3. Staged'
  BY Sorts DEF Crash, rows, Staged, TypeOK
<1>4. HandedOver'
  <2>1. \A x \in Sites : handed'[x] = {}
    BY DEF Crash
  <2>2. \A x \in Sites : making'[x] \notin {"look", "preview"}
    BY DEF Crash, Creating
  <2> QED BY <2>1, <2>2 DEF HandedOver
<1>5. Paired'
  BY Sorts DEF Crash, rows, Paired, TypeOK
<1>6. Gone'
  BY Sorts DEF Crash, rows, Gone, TypeOK
<1>7. Listed'
  BY Sorts DEF Crash, rows, Listed, TypeOK, RecordedIsOwned, Recorded, Existing
<1> QED BY <1>1, <1>2, <1>3, <1>4, <1>5, <1>6, <1>7

\* Every step of the requests, of start-up and of the panel keeps the invariant.
LEMMA StepKeeps == IInv /\ [Next]_vars => IInv'
<1>1. ASSUME IInv, Next PROVE IInv'
  BY <1>1, InsertKeeps, PairKeeps, LookKeeps, PreviewKeeps, FilesKeeps, RemoveKeeps, BootReclaimKeeps,
     EnsureReadKeeps, EnsureLookKeeps, EnsureAssignKeeps, EnsureDoneKeeps, CrashKeeps DEF Next, Create
<1>2. ASSUME IInv, UNCHANGED vars PROVE IInv'
  BY <1>2 DEF vars, rows, repair, IInv, TypeOK, RecordedIsOwned, Recorded, Staged, HandedOver, Paired,
     Gone, Listed
<1> QED BY <1>1, <1>2

LEMMA Invariance == Spec => []IInv
<1> QED BY InitHolds, StepKeeps, PTL DEF Spec

\* Types, for any sites and ranges of ports.
THEOREM TypeCorrect == Spec => []TypeOK
<1>1. IInv => TypeOK
  BY DEF IInv
<1> QED BY <1>1, Invariance, PTL

\* No two websites are configured with one port, and none with a port that
\* the allocator may hand to another, whatever creations, removals and start-up
\* repairs do between each other's awaits.
THEOREM PortsAreOwned == Spec => []RecordedIsOwned
<1>1. IInv => RecordedIsOwned
  BY DEF IInv
<1> QED BY <1>1, Invariance, PTL

\* A creation that ends has given its site a pair, or has left no trace.
THEOREM CreationIsWhole == Spec => []AllOrNothing
<1>1. ASSUME IInv PROVE AllOrNothing
  <2>1. ASSUME NEW s \in Sites, making[s] = "done", s \in live \ Static PROVE Cardinality(pair[s]) = 2
    BY <1>1, <2>1, CoupleFacts DEF IInv, Paired, TypeOK
  <2>2. ASSUME NEW s \in Sites, making[s] = "failed"
        PROVE  s \notin live /\ \A p \in Ports : owner[p] # s
    BY <1>1, <2>2 DEF IInv, Staged, Gone
  <2> QED BY <2>1, <2>2 DEF AllOrNothing
<1> QED BY <1>1, Invariance, PTL

\* After start-up every site that was there before it is configured with the
\* preview port that is kept for it.
THEOREM StartUpRepairs == Spec => []Repaired
<1>1. ASSUME IInv, boot = "up", NEW s \in live, making[s] \in {"old", "cut"}, Existing(s) # {}
      PROVE  preview[s] \in Existing(s)
  <2>1. s \in Sites /\ missing = {}
    BY <1>1 DEF IInv, TypeOK, Listed
  <2>2. preview[s] # None
    BY <1>1, <2>1 DEF IInv, Listed, Existing
  <2>3. preview[s] \in PreviewPorts /\ preview[s] \in Ports
    BY <1>1, <2>1, <2>2 DEF IInv, TypeOK, Ports
  <2> QED BY <1>1, <2>1, <2>3 DEF IInv, RecordedIsOwned, Recorded, Existing
<1>2. IInv => Repaired
  BY <1>1 DEF Repaired
<1> QED BY <1>2, Invariance, PTL

\* What a reclaim leaves is a port its site is configured with, or is about to be.
LEMMA ReclaimBurnsNone ==
    ASSUME IInv, IInv', Reclaim, live \subseteq live', preview' = preview,
           \A s \in live : making'[s] = making[s]
    PROVE  \A p \in Ports : ~Burned(p)'
<1> SUFFICES ASSUME NEW p \in Ports, owner'[p] # None, making'[owner'[p]] \notin Creating \cup {"cut"},
                    p \in PreviewPorts /\ owner'[p] \in live' => preview'[owner'[p]] # None
             PROVE  owner'[p] \in live' /\ (p \in pair'[owner'[p]] \/ p = preview'[owner'[p]])
  BY DEF Burned, Recorded
<1> DEFINE s == owner[p]
<1>1. ~Stale(p) /\ owner'[p] = s /\ s \in live /\ s \in live'
  <2>1. owner' = [q \in Ports |-> IF Stale(q) THEN None ELSE owner[q]]
    BY DEF Reclaim
  <2>2. ~Stale(p) /\ owner'[p] = s
    BY <2>1
  <2> QED BY <2>2 DEF Stale
<1>2. s \in Sites
  BY <1>1 DEF IInv, TypeOK
<1>3. CASE p \in AppPorts
  <2>1. ~StaleApp(s, p) /\ s # None
    BY <1>1, <1>2, <1>3, PortsAssumption DEF Stale
  <2>2. s \notin Static /\ (pair[s] = {} \/ p \in pair[s])
    BY <2>1 DEF StaleApp
  <2>3. making[s] \in {"none", "done", "failed", "old"}
    BY <1>1, <1>2 DEF IInv, TypeOK, Makings, Creating
  <2>4. pair[s] # {}
    BY <1>1, <1>2, <2>2, <2>3 DEF IInv, Paired, Staged
  <2>5. pair'[s] = pair[s]
    BY <1>2, <2>2, ReclaimSpares
  <2> QED BY <1>1, <2>2, <2>4, <2>5
<1>4. CASE p \in PreviewPorts
  <2>1. ~StalePreview(s, p)
    BY <1>1, <1>2, <1>4, PortsAssumption DEF Stale
  <2> QED BY <1>1, <1>4, <2>1 DEF StalePreview
<1> QED BY <1>3, <1>4 DEF Ports

\* No reclaim leaves a port that is lost to the machine and serves no site, but
\* for those the property names.
THEOREM NoPortBurned == Spec => NoneBurned
<1>1. ASSUME IInv, IInv', \E s \in Sites : Insert(s) PROVE \A p \in Ports : ~Burned(p)'
  <2>1. PICK s \in Sites : Insert(s)
    BY <1>1
  <2>2. /\ Reclaim /\ live \subseteq live' /\ preview' = preview
        /\ \A x \in Sites : x # s => making'[x] = making[x]
    BY <1>1, <2>1 DEF Insert, Goto, IInv, TypeOK
  <2>3. s \notin live /\ live \subseteq Sites
    BY <1>1, <2>1 DEF Insert, IInv, Staged, TypeOK
  <2> QED BY <1>1, <2>2, <2>3, ReclaimBurnsNone
<1>2. ASSUME IInv, IInv', BootReclaim PROVE \A p \in Ports : ~Burned(p)'
  BY <1>2, ReclaimBurnsNone DEF BootReclaim
<1>3. IInv /\ IInv' => ((\E s \in Sites : Insert(s)) \/ BootReclaim => \A p \in Ports : ~Burned(p)')
  BY <1>1, <1>2
<1> QED BY <1>3, Invariance, PTL DEF Spec, NoneBurned
================================================================================
