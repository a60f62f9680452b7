-------------------------- MODULE SwarmFetchProofs --------------------------
(***************************************************************************)
(* Proofs about SwarmFetch, for every roster, every number of groups and   *)
(* every value of the limits.                                              *)
(***************************************************************************)
EXTENDS SwarmFetch, FiniteSetTheorems, SequenceTheorems, TLAPS

-----------------------------------------------------------------------------
(* The inductive invariant.                                                *)

\* A handle in the channel has a roster slot waiting for it.
SlotsInv ==
    /\ sent <= MaxJoins
    /\ roster + queue <= NEntry + sent

\* The window's ledgers, with what makes them countable.
LedgerInv ==
    /\ LedgerExact
    /\ IsFiniteSet(futs)
    /\ \A b \in futs : b.groups # {} /\ b.primary \in Roster

\* The order lists a group once, lists only groups some roster peer holds,
\* and has nothing needed before the cursor.
OrderInv ==
    /\ \A i, j \in 1 .. Len(order) : order[i] = order[j] => i = j
    /\ \A i \in 1 .. Len(order) : order[i] \in HeldBy(Roster)
    /\ cursor <= Len(order) + 1
    /\ \A i \in 1 .. Len(order) : i < cursor => order[i] \notin remaining
    /\ \A g \in remaining \cap HeldBy(Roster) :
          \E i \in 1 .. Len(order) : order[i] = g

\* What is left of the slice is needed and not yet booked, and is in one of
\* the two work lists only.
SliceInv ==
    /\ pend \subseteq 1 .. Len(order)
    /\ \A i \in pend : order[i] \in (remaining \ inflight) \ sub
    /\ sub \subseteq remaining \ inflight
    /\ pc # "assign" => pend = {} /\ sub = {}

IInv == /\ TypeOK
        /\ SlotsInv
        /\ LedgerInv
        /\ OrderInv
        /\ SliceInv
        /\ ReportExact

-----------------------------------------------------------------------------
(* Facts about the constants and the operators.                            *)

LEMMA GroupsFinite == IsFiniteSet(Groups) /\ Groups \subseteq Nat
<1>1. NGroups - 1 \in Int
  BY ConstantsAssumption
<1> QED
  BY <1>1, FS_Interval DEF Groups

\* A listing of S is a sequence over S without repetition that misses nothing.
LEMMA ListingsPlay ==
    ASSUME NEW S \in SUBSET Groups, NEW s \in Listings(S, PlayOrder)
    PROVE  /\ s \in Seq(S)
           /\ \A i, j \in 1 .. Len(s) : s[i] = s[j] => i = j
           /\ \A g \in S : \E i \in 1 .. Len(s) : s[i] = g
<1>1. Cardinality(S) \in Nat /\ S \subseteq Nat
  BY GroupsFinite, FS_Subset, FS_CardinalityType
<1>2. s \in [1 .. Cardinality(S) -> S]
  BY DEF Listings
<1>3. s \in Seq(S) /\ Len(s) = Cardinality(S) /\ DOMAIN s = 1 .. Len(s)
  BY <1>1, <1>2, IsASeq
<1>4. ASSUME NEW i \in 1 .. Len(s), NEW j \in 1 .. Len(s), s[i] = s[j]
      PROVE  i = j
  <2>1. s[i] \in Nat /\ s[j] \in Nat
    BY <1>1, <1>2, <1>3
  <2>2. \A k, l \in DOMAIN s : k < l => s[k] < s[l]
    BY DEF Listings, PlayOrder
  <2> QED
    BY <2>1, <2>2, <1>3, <1>4
<1>5. \A g \in S : \E i \in 1 .. Len(s) : s[i] = g
  BY <1>3 DEF Listings
<1> QED
  BY <1>3, <1>4, <1>5

LEMMA RarestIrreflexive == \A g \in Nat : ~RarestFirst(g, g)
<1> SUFFICES ASSUME NEW g \in Nat PROVE ~RarestFirst(g, g)
  OBVIOUS
<1> DEFINE n == Cardinality(Holders(g, 1 .. NEntry))
<1>1. n \in Nat
  <2>1. IsFiniteSet(1 .. NEntry)
    BY ConstantsAssumption, FS_Interval
  <2>2. Holders(g, 1 .. NEntry) \subseteq 1 .. NEntry
    BY DEF Holders
  <2> QED
    BY <2>1, <2>2, FS_Subset, FS_CardinalityType
<1>2. RarestFirst(g, g) <=> (n < n \/ (n = n /\ g < g))
  BY Zenon DEF RarestFirst
<1> HIDE DEF n
<1> QED
  BY <1>1, <1>2

LEMMA ListingsRarest ==
    ASSUME NEW S \in SUBSET Groups, NEW s \in Listings(S, RarestFirst)
    PROVE  /\ s \in Seq(S)
           /\ \A i, j \in 1 .. Len(s) : s[i] = s[j] => i = j
           /\ \A g \in S : \E i \in 1 .. Len(s) : s[i] = g
<1>1. Cardinality(S) \in Nat /\ S \subseteq Nat
  BY GroupsFinite, FS_Subset, FS_CardinalityType
<1>2. s \in [1 .. Cardinality(S) -> S]
  BY DEF Listings
<1>3. s \in Seq(S) /\ Len(s) = Cardinality(S) /\ DOMAIN s = 1 .. Len(s)
  BY <1>1, <1>2, IsASeq
<1>4. ASSUME NEW i \in 1 .. Len(s), NEW j \in 1 .. Len(s), s[i] = s[j]
      PROVE  i = j
  <2>2. \A k, l \in DOMAIN s : k < l => RarestFirst(s[k], s[l])
    BY DEF Listings
  <2>3. s[i] \in Nat
    BY <1>1, <1>2, <1>3
  <2>4. i < j \/ j < i \/ i = j
    OBVIOUS
  <2> QED
    BY RarestIrreflexive, <2>2, <2>3, <2>4, <1>3, <1>4, Zenon
<1>5. \A g \in S : \E i \in 1 .. Len(s) : s[i] = g
  BY <1>3 DEF Listings
<1> QED
  BY <1>3, <1>4, <1>5

\* pick_peer returns a roster slot with room that holds the whole batch.
LEMMA PickPeerSound ==
    ASSUME NEW gs, NEW p \in PickPeer(gs)
    PROVE  p \in Roster /\ PipelineRoom(p) /\ gs \subseteq bits[p]
BY DEF PickPeer, Eligible

-----------------------------------------------------------------------------
(* The three ways the window's ledgers move.                               *)

\* Booking a batch of needed, uncovered groups.
LEMMA BookStep ==
    ASSUME TypeOK, LedgerInv, UNCHANGED <<remaining, roster>>,
           NEW p \in Roster, PipelineRoom(p),
           NEW run \in SUBSET (remaining \ inflight), Schedule(p, run)
    PROVE  /\ LedgerInv'
           /\ load' \in [Peers -> Nat]
           /\ inflight' \subseteq Groups
           /\ inflight' \subseteq inflight \cup run
           /\ futs' \subseteq Batches
           /\ assigned' = TRUE
<1>1. PICK first \in run :
        /\ \A g \in run : first <= g
        /\ load' = [load EXCEPT ![p] = @ + 1]
        /\ inflight' = inflight \cup {g \in run : g < first + ReqSize[Class[p]]}
        /\ futs' = futs \cup
             {[groups |-> {g \in run : g < first + ReqSize[Class[p]]},
               primary |-> p, racers |-> {p}, raced |-> FALSE,
               refused |-> FALSE]}
        /\ assigned' = TRUE
  BY Zenon DEF Schedule
<1> DEFINE T == {g \in run : g < first + ReqSize[Class[p]]}
           new == [groups |-> T, primary |-> p, racers |-> {p},
                   raced |-> FALSE, refused |-> FALSE]
<1>2. p \in Peers /\ Class[p] \in Classes /\ ReqSize[Class[p]] \in Nat \ {0}
  BY PeersAssumption DEF TypeOK
<1>3. first \in T /\ T \subseteq run /\ run \subseteq Groups
  BY <1>2, GroupsFinite DEF TypeOK
<1>4. new \in Batches
  BY <1>2, <1>3 DEF Batches
<1>5. new \notin futs
  <2>1. new.groups = T
    OBVIOUS
  <2>2. ~(T \subseteq inflight)
    BY <1>3
  <2> QED
    BY <2>1, <2>2 DEF LedgerInv, LedgerExact
<1> HIDE DEF T, new
<1>6. futs' = futs \cup {new} /\ inflight' = inflight \cup T
  BY <1>1 DEF T, new
<1>7. new.groups = T /\ new.primary = p
  BY DEF new
<1>8. ASSUME NEW q \in Peers
      PROVE  /\ load'[q] = Cardinality({b \in futs' : b.primary = q})
             /\ load'[q] <= Depth[Class[q]]
  <2> DEFINE Q == {b \in futs : b.primary = q}
             Q2 == {b \in futs' : b.primary = q}
  <2>1. IsFiniteSet(Q) /\ load[q] = Cardinality(Q) /\ load[q] <= Depth[Class[q]]
        /\ load[q] \in Nat
    <3>1. Q \in SUBSET futs
      OBVIOUS
    <3>2. IsFiniteSet(futs)
      BY DEF LedgerInv
    <3>3. IsFiniteSet(Q)
      BY ONLY <3>1, <3>2, FS_Subset
    <3> QED
      BY <3>3 DEF LedgerInv, LedgerExact, TypeOK
  <2>2. CASE q = p
    <3>1. Q2 = Q \cup {new} /\ new \notin Q
      BY <2>2, <1>5, <1>6, <1>7
    <3>2. Cardinality(Q2) = Cardinality(Q) + 1
      BY <2>1, <3>1, FS_AddElement
    <3>3. load'[q] = load[q] + 1
      BY <1>1, <2>2 DEF TypeOK
    <3>4. load[q] < Depth[Class[q]] /\ Depth[Class[q]] \in Nat
      BY <2>2, <1>2, PeersAssumption DEF PipelineRoom
    <3> QED
      BY <3>2, <3>3, <3>4, <2>1
  <2>3. CASE q # p
    <3>1. Q2 = Q
      BY <2>3, <1>6, <1>7
    <3>2. load'[q] = load[q]
      BY <1>1, <2>3 DEF TypeOK
    <3> QED
      BY <3>1, <3>2, <2>1
  <2> QED
    BY <2>2, <2>3
<1>9. inflight' = UNION {b.groups : b \in futs'}
  BY <1>6, <1>7 DEF LedgerInv, LedgerExact
<1>10. \A a, b \in futs' : a # b => a.groups \cap b.groups = {}
  <2>1. \A b \in futs : b.groups \cap T = {}
    BY <1>3 DEF LedgerInv, LedgerExact
  <2> QED
    BY <2>1, <1>6, <1>7 DEF LedgerInv, LedgerExact
<1>11. inflight' \subseteq remaining' /\ inflight' \subseteq Groups
       /\ inflight' \subseteq inflight \cup run
  BY <1>3, <1>6 DEF LedgerInv, LedgerExact, TypeOK
<1>12. IsFiniteSet(futs')
  BY <1>6, FS_AddElement DEF LedgerInv
<1>13. \A b \in futs' : b.groups # {} /\ b.primary \in Roster'
  BY <1>3, <1>6, <1>7 DEF LedgerInv, Roster
<1>14. load' \in [Peers -> Nat] /\ futs' \subseteq Batches /\ assigned' = TRUE
  <2>1. load' \in [Peers -> Nat]
    BY <1>1, <1>2 DEF TypeOK
  <2>2. futs' \subseteq Batches
    BY <1>4, <1>6 DEF TypeOK
  <2> QED
    BY <2>1, <2>2, <1>1
<1> QED
  BY <1>8, <1>9, <1>10, <1>11, <1>12, <1>13, <1>14 DEF LedgerInv, LedgerExact

\* Giving a finished batch's slot and groups back, `gs' of them fetched.
LEMMA ReleaseStep ==
    ASSUME TypeOK, LedgerInv, UNCHANGED roster,
           NEW b \in futs, Release(b),
           NEW gs \in SUBSET b.groups, remaining' = remaining \ gs
    PROVE  /\ LedgerInv'
           /\ load' \in [Peers -> Nat]
           /\ inflight' \subseteq inflight
           /\ futs' \subseteq Batches
<1>1. /\ b \in Batches /\ b.primary \in Peers /\ b.groups \subseteq inflight
      /\ IsFiniteSet(futs)
  BY DEF LedgerInv, LedgerExact, TypeOK, Batches
<1>2. futs' = futs \ {b} /\ inflight' = inflight \ b.groups
      /\ load' = [load EXCEPT ![b.primary] = @ - 1]
  BY DEF Release
<1>3. ASSUME NEW q \in Peers
      PROVE  /\ load'[q] = Cardinality({a \in futs' : a.primary = q})
             /\ load'[q] <= Depth[Class[q]]
             /\ load'[q] \in Nat
  <2> DEFINE Q == {a \in futs : a.primary = q}
             Q2 == {a \in futs' : a.primary = q}
  <2>1. IsFiniteSet(Q)
    <3>1. Q \in SUBSET futs
      OBVIOUS
    <3> QED
      BY ONLY <1>1, <3>1, FS_Subset
  <2>2. load[q] = Cardinality(Q) /\ load[q] <= Depth[Class[q]] /\ load[q] \in Nat
        /\ Depth[Class[q]] \in Nat
    BY PeersAssumption DEF LedgerInv, LedgerExact, TypeOK
  <2>3. CASE q = b.primary
    <3>1. Q2 = Q \ {b} /\ b \in Q
      BY <2>3, <1>2
    <3>2. Cardinality(Q2) = Cardinality(Q) - 1 /\ IsFiniteSet(Q2)
      BY <2>1, <3>1, FS_RemoveElement
    <3>3. load'[q] = load[q] - 1
      BY <1>1, <1>2, <2>3 DEF TypeOK
    <3>4. Cardinality(Q2) \in Nat
      BY <3>2, FS_CardinalityType
    <3> QED
      BY <3>2, <3>3, <3>4, <2>2
  <2>4. CASE q # b.primary
    <3>1. Q2 = Q
      BY <2>4, <1>2
    <3>2. load'[q] = load[q]
      BY <1>1, <1>2, <2>4 DEF TypeOK
    <3> QED
      BY <3>1, <3>2, <2>2
  <2> QED
    BY <2>3, <2>4
<1>4. load' \in [Peers -> Nat]
  BY <1>2, <1>3 DEF TypeOK
<1>5. inflight' = UNION {a.groups : a \in futs'}
  BY <1>2 DEF LedgerInv, LedgerExact
<1>6. \A a, c \in futs' : a # c => a.groups \cap c.groups = {}
  BY <1>2 DEF LedgerInv, LedgerExact
<1>7. inflight' \subseteq remaining' /\ inflight' \subseteq inflight
  BY <1>2 DEF LedgerInv, LedgerExact
<1>8. IsFiniteSet(futs') /\ futs' \subseteq Batches
  BY <1>1, <1>2, FS_RemoveElement DEF TypeOK
<1>9. \A a \in futs' : a.groups # {} /\ a.primary \in Roster'
  BY <1>2 DEF LedgerInv, Roster
<1> QED
  BY <1>3, <1>4, <1>5, <1>6, <1>7, <1>8, <1>9 DEF LedgerInv, LedgerExact

\* Turning a batch into a race, or dropping one of its racers.
LEMMA RaceStep ==
    ASSUME TypeOK, LedgerInv, UNCHANGED <<load, inflight, remaining, roster>>,
           NEW b \in futs, NEW rs \in SUBSET Peers, NEW ref \in BOOLEAN,
           futs' = (futs \ {b}) \cup
              {[b EXCEPT !.racers = rs, !.raced = TRUE, !.refused = ref]}
    PROVE  LedgerInv' /\ futs' \subseteq Batches
<1> DEFINE c == [b EXCEPT !.racers = rs, !.raced = TRUE, !.refused = ref]
<1>1. b \in Batches /\ b.groups # {} /\ b.primary \in Roster /\ IsFiniteSet(futs)
  BY DEF LedgerInv, TypeOK
<1>2. c \in Batches /\ c.groups = b.groups /\ c.primary = b.primary
  BY <1>1 DEF Batches
<1>3. futs' = (futs \ {b}) \cup {c}
  OBVIOUS
<1>4. c \in futs => c = b
  <2>1. c \in futs /\ c # b => c.groups \cap b.groups = {}
    BY DEF LedgerInv, LedgerExact
  <2> QED
    BY <2>1, <1>1, <1>2
<1> HIDE DEF c
<1>5. ASSUME NEW q \in Peers
      PROVE  Cardinality({a \in futs' : a.primary = q})
                = Cardinality({a \in futs : a.primary = q})
  <2> DEFINE Q == {a \in futs : a.primary = q}
             Q2 == {a \in futs' : a.primary = q}
  <2>1. IsFiniteSet(Q)
    <3>1. Q \in SUBSET futs
      OBVIOUS
    <3> QED
      BY ONLY <1>1, <3>1, FS_Subset
  <2>2. CASE q = b.primary
    <3>1. Q2 = (Q \ {b}) \cup {c} /\ b \in Q /\ c \notin Q \ {b}
      BY <2>2, <1>2, <1>3, <1>4
    <3>2. IsFiniteSet(Q \ {b}) /\ Cardinality(Q \ {b}) = Cardinality(Q) - 1
      BY <2>1, <3>1, FS_RemoveElement
    <3>3. Cardinality(Q2) = Cardinality(Q \ {b}) + 1
      BY <3>1, <3>2, FS_AddElement
    <3>4. Cardinality(Q) \in Nat
      BY <2>1, FS_CardinalityType
    <3> QED
      BY <3>2, <3>3, <3>4
  <2>3. CASE q # b.primary
    BY <2>3, <1>2, <1>3
  <2> QED
    BY <2>2, <2>3
<1>6. UNION {a.groups : a \in futs'} = UNION {a.groups : a \in futs}
  BY <1>2, <1>3
<1>7. \A x, y \in futs' : x # y => x.groups \cap y.groups = {}
  BY <1>2, <1>3, <1>4 DEF LedgerInv, LedgerExact
<1>8. IsFiniteSet(futs')
  <2>1. IsFiniteSet(futs \ {b})
    BY <1>1, FS_RemoveElement
  <2> QED
    BY <2>1, <1>3, FS_AddElement
<1>9. \A x \in futs' : x.groups # {} /\ x.primary \in Roster'
  BY <1>1, <1>2, <1>3 DEF LedgerInv, Roster
<1>10. futs' \subseteq Batches
  BY <1>2, <1>3 DEF TypeOK
<1> QED
  BY <1>5, <1>6, <1>7, <1>8, <1>9, <1>10 DEF LedgerInv, LedgerExact

\* Accounting for needed groups that are in the store.
LEMMA LandStep ==
    ASSUME TypeOK, ReportExact,
           NEW gs \in SUBSET remaining, Landed(gs),
           present \cup gs \subseteq present'
    PROVE  ReportExact' /\ remaining' \subseteq Groups /\ fetched' \in Nat
<1> DEFINE R == Groups \ remaining
<1>1. IsFiniteSet(R) /\ IsFiniteSet(gs)
  BY GroupsFinite, FS_Subset DEF TypeOK
<1>2. Cardinality(R \cup gs) = Cardinality(R) + Cardinality(gs)
  <2>1. R \cap gs = {}
    OBVIOUS
  <2>2. Cardinality({}) = 0
    BY FS_EmptySet
  <2>3. Cardinality(R) \in Nat /\ Cardinality(gs) \in Nat
    BY <1>1, FS_CardinalityType
  <2>4. Cardinality(R \cup gs)
          = Cardinality(R) + Cardinality(gs) - Cardinality(R \cap gs)
    BY ONLY <1>1, FS_Union
  <2>5. Cardinality(R \cap gs) = 0
    BY <2>1, <2>2, Zenon
  <2> HIDE DEF R
  <2> QED
    BY <2>3, <2>4, <2>5
<1>3. Groups \ remaining' = R \cup gs
  BY DEF Landed, TypeOK
<1>4. fetched' = fetched + Cardinality(gs) /\ Cardinality(gs) \in Nat
  BY <1>1, FS_CardinalityType DEF Landed
<1>5. fetched' = Cardinality(Groups \ remaining')
  BY <1>2, <1>3, <1>4 DEF ReportExact
<1>6. Groups \ remaining' \subseteq present'
  BY <1>3 DEF ReportExact
<1>7. remaining' \subseteq Groups /\ fetched' \in Nat
  BY <1>4 DEF Landed, TypeOK
<1> QED
  BY <1>5, <1>6, <1>7 DEF ReportExact

\* Admitting the next handle of the channel.
LEMMA AdmitStep ==
    ASSUME IInv, queue > 0, queue' = queue - 1, AdmitJoiner,
           UNCHANGED <<sent, bits, remaining, cursor, inflight, futs, pend, sub>>
    PROVE  /\ SlotsInv' /\ LedgerInv' /\ OrderInv'
           /\ roster' \in Nat /\ Roster' \subseteq Peers
           /\ order' \in Seq(Groups) /\ cut' \in Nat \ {0}
           /\ load' \in [Peers -> Nat] /\ fails' \in [Peers -> Nat]
           /\ busy' \in [Peers -> Nat]
           /\ cooling' \in [Peers -> BOOLEAN]
           /\ probed' \in [Peers -> BOOLEAN]
           /\ Len(order) <= Len(order')
           /\ \A i \in 1 .. Len(order) : order'[i] = order[i]
<1> DEFINE p == roster + 1
           New == (remaining \cap bits[p]) \ HeldBy(Roster)
<1>1. /\ TypeOK /\ SlotsInv /\ LedgerInv /\ OrderInv
  BY DEF IInv
<1>2. /\ p \in Peers /\ roster' = p /\ p \notin Roster
      /\ Roster' = Roster \cup {p} /\ roster' \in Nat
  <2>1. roster \in Nat /\ queue \in Nat /\ sent \in Nat /\ roster' = roster + 1
    BY <1>1 DEF TypeOK, AdmitJoiner
  <2>2. roster + 1 <= NEntry + MaxJoins
    BY <2>1, <1>1, ConstantsAssumption DEF SlotsInv
  <2>3. roster + 1 \in Peers
    BY <2>1, <2>2, ConstantsAssumption DEF Peers
  <2>4. roster + 1 \notin Roster /\ Roster' = Roster \cup {roster + 1}
    BY <2>1 DEF Roster
  <2> QED
    BY <2>1, <2>3, <2>4
<1>3. SlotsInv'
  BY <1>1, ConstantsAssumption DEF SlotsInv, AdmitJoiner, TypeOK
<1>4. PICK new \in Listings(New, PlayOrder) : order' = order \o new
  BY DEF AdmitJoiner, SortedSeqs
<1>5. New \subseteq Groups
  BY <1>1, <1>2 DEF TypeOK
<1>7. New = (remaining \cap bits[p]) \ HeldBy(Roster)
  OBVIOUS
<1> HIDE DEF New, p
<1>6. /\ new \in Seq(New)
      /\ \A i, j \in 1 .. Len(new) : new[i] = new[j] => i = j
      /\ \A g \in New : \E i \in 1 .. Len(new) : new[i] = g
  BY <1>4, <1>5, ListingsPlay, Zenon
<1>8. order \in Seq(Groups) /\ new \in Seq(Groups)
  BY <1>1, <1>5, <1>6, SeqMonotonic DEF TypeOK
<1>9. /\ order' \in Seq(Groups)
      /\ Len(order') = Len(order) + Len(new)
      /\ \A i \in 1 .. Len(order) + Len(new) :
            order'[i] = IF i <= Len(order) THEN order[i] ELSE new[i - Len(order)]
  BY <1>4, <1>8, ConcatProperties
<1>10. Len(order) \in Nat /\ Len(new) \in Nat
  BY <1>8, LenProperties
<1>11. HeldBy(Roster)' = HeldBy(Roster) \cup bits[p]
  BY <1>2 DEF HeldBy
<1>12. \A i \in 1 .. Len(new) : new[i] \in New
  BY <1>6, ElementOfSeq
<1>13. OrderInv'
  <2>1. ASSUME NEW i \in 1 .. Len(order'), NEW j \in 1 .. Len(order'),
               order'[i] = order'[j]
        PROVE  i = j
    <3>1. CASE i <= Len(order) /\ j <= Len(order)
      BY <3>1, <2>1, <1>1, <1>9, <1>10 DEF OrderInv
    <3>2. CASE i > Len(order) /\ j > Len(order)
      <4>1. i - Len(order) \in 1 .. Len(new) /\ j - Len(order) \in 1 .. Len(new)
        BY <3>2, <1>9, <1>10
      <4>2. new[i - Len(order)] = new[j - Len(order)]
        BY <3>2, <2>1, <1>9, <1>10
      <4>3. i - Len(order) = j - Len(order)
        BY <4>1, <4>2, <1>6
      <4> QED
        BY <4>3, <1>9, <1>10
    <3>3. \A k \in 1 .. Len(order), l \in 1 .. Len(new) : order[k] # new[l]
      BY <1>1, <1>7, <1>12 DEF OrderInv
    <3>4. CASE i <= Len(order) /\ j > Len(order)
      <4>1. i \in 1 .. Len(order) /\ j - Len(order) \in 1 .. Len(new)
        BY <3>4, <1>9, <1>10
      <4>2. order[i] = new[j - Len(order)]
        BY <3>4, <2>1, <1>9, <1>10
      <4> QED
        BY <4>1, <4>2, <3>3
    <3>5. CASE i > Len(order) /\ j <= Len(order)
      <4>1. j \in 1 .. Len(order) /\ i - Len(order) \in 1 .. Len(new)
        BY <3>5, <1>9, <1>10
      <4>2. order[j] = new[i - Len(order)]
        BY <3>5, <2>1, <1>9, <1>10
      <4> QED
        BY <4>1, <4>2, <3>3
    <3> QED
      BY <3>1, <3>2, <3>4, <3>5, <1>10
  <2>2. ASSUME NEW i \in 1 .. Len(order')
        PROVE  order'[i] \in HeldBy(Roster)'
    <3>1. CASE i <= Len(order)
      BY <3>1, <1>1, <1>9, <1>10, <1>11 DEF OrderInv
    <3>2. CASE i > Len(order)
      <4>1. i - Len(order) \in 1 .. Len(new) /\ order'[i] = new[i - Len(order)]
        BY <3>2, <1>9, <1>10
      <4> QED
        BY <4>1, <1>7, <1>11, <1>12
    <3> QED
      BY <3>1, <3>2, <1>10
  <2>3. ASSUME NEW i \in 1 .. Len(order'), i < cursor'
        PROVE  order'[i] \notin remaining'
    <3>1. i <= Len(order)
      BY <2>3, <1>1, <1>10 DEF OrderInv, TypeOK
    <3> QED
      BY <3>1, <2>3, <1>1, <1>9, <1>10 DEF OrderInv
  <2>4. ASSUME NEW g \in remaining' \cap HeldBy(Roster)'
        PROVE  \E i \in 1 .. Len(order') : order'[i] = g
    <3>1. CASE g \in HeldBy(Roster)
      <4>1. PICK i \in 1 .. Len(order) : order[i] = g
        BY <3>1, <1>1 DEF OrderInv
      <4> QED
        BY <4>1, <1>9, <1>10
    <3>2. CASE g \notin HeldBy(Roster)
      <4>1. g \in New
        BY <3>2, <1>7, <1>11
      <4>2. PICK i \in 1 .. Len(new) : new[i] = g
        BY <4>1, <1>6
      <4> DEFINE k == i + Len(order)
      <4>3. /\ k \in 1 .. Len(order) + Len(new) /\ ~(k <= Len(order))
            /\ k - Len(order) = i
        BY <4>2, <1>10
      <4>4. order'[k] = new[k - Len(order)]
        BY <4>3, <1>9
      <4>5. k \in 1 .. Len(order') /\ order'[k] = g
        BY <4>2, <4>3, <4>4, <1>9
      <4> QED
        BY <4>5
    <3> QED
      BY <3>1, <3>2
  <2>5. cursor' <= Len(order') + 1
    BY <1>1, <1>9, <1>10 DEF OrderInv, TypeOK
  <2> QED
    BY <2>1, <2>2, <2>3, <2>4, <2>5 DEF OrderInv
<1>14. load' = [load EXCEPT ![p] = 0] /\ load' \in [Peers -> Nat]
  BY <1>1, <1>2 DEF AdmitJoiner, TypeOK, p
<1>15. LedgerInv'
  <2>1. {b \in futs : b.primary = p} = {}
    BY <1>1, <1>2 DEF LedgerInv
  <2>2. ASSUME NEW q \in Peers
        PROVE  /\ load'[q] = Cardinality({b \in futs' : b.primary = q})
               /\ load'[q] <= Depth[Class[q]]
    <3>1. CASE q = p
      <4>1. load'[q] = 0 /\ Depth[Class[q]] \in Nat
        BY <3>1, <1>1, <1>14, PeersAssumption DEF TypeOK
      <4>2. {b \in futs' : b.primary = q} = {}
        BY <2>1, <3>1
      <4> QED
        BY <4>1, <4>2, FS_EmptySet
    <3>2. CASE q # p
      BY <3>2, <1>1, <1>14 DEF LedgerInv, LedgerExact, TypeOK
    <3> QED
      BY <3>1, <3>2
  <2>3. \A b \in futs' : b.groups # {} /\ b.primary \in Roster'
    BY <1>1, <1>2 DEF LedgerInv
  <2> QED
    BY <1>1, <2>2, <2>3 DEF LedgerInv, LedgerExact
<1>16. /\ fails' \in [Peers -> Nat] /\ busy' \in [Peers -> Nat]
       /\ cooling' \in [Peers -> BOOLEAN] /\ probed' \in [Peers -> BOOLEAN]
  BY <1>1, <1>2 DEF AdmitJoiner, TypeOK
<1>17. cut' \in Nat \ {0}
  <2>1. ReqSize[Class[p]] \in Nat \ {0}
    BY <1>2, PeersAssumption
  <2> QED
    BY <2>1, <1>1 DEF AdmitJoiner, TypeOK, p
<1>18. Roster' \subseteq Peers
  BY <1>1, <1>2 DEF TypeOK
<1>19. Len(order) <= Len(order') /\ \A i \in 1 .. Len(order) : order'[i] = order[i]
  BY <1>9, <1>10
<1> QED
  BY <1>2, <1>3, <1>9, <1>13, <1>14, <1>15, <1>16, <1>17, <1>18, <1>19

-----------------------------------------------------------------------------
(* The initial states.                                                     *)

LEMMA InitIInv == Init => IInv
<1> SUFFICES ASSUME Init PROVE IInv
  OBVIOUS
<1> DEFINE held == Groups \cap HeldBy(1 .. NEntry)
<1>1. /\ order \in Seq(held)
      /\ \A i, j \in 1 .. Len(order) : order[i] = order[j] => i = j
      /\ \A g \in held : \E i \in 1 .. Len(order) : order[i] = g
  <2>1. held \in SUBSET Groups
    OBVIOUS
  <2>2. CASE streaming
    <3>1. order \in Listings(held, PlayOrder)
      BY <2>2 DEF Init, InitialOrder
    <3> HIDE DEF held
    <3> QED
      BY <2>1, <3>1, ListingsPlay, Zenon
  <2>3. CASE ~streaming
    <3>1. order \in Listings(held, RarestFirst)
      BY <2>3 DEF Init, InitialOrder
    <3> HIDE DEF held
    <3> QED
      BY <2>1, <3>1, ListingsRarest, Zenon
  <2> QED
    BY <2>2, <2>3
<1>2. roster = NEntry /\ Roster = 1 .. NEntry /\ Roster \subseteq Peers
  BY ConstantsAssumption DEF Init, Roster, Peers
<1>3. order \in Seq(Groups) /\ Len(order) \in Nat
  BY <1>1, SeqMonotonic, LenProperties
<1>4. cut \in Nat \ {0}
  <2>1. \A p \in 1 .. NEntry : ReqSize[Class[p]] \in Nat \ {0}
    BY <1>2, PeersAssumption
  <2> QED
    BY <2>1, ConstantsAssumption DEF Init, BatchGroupsFor
<1>5. TypeOK
  <2>1. bits \in [Peers -> SUBSET Groups]
    BY PeersAssumption DEF Init
  <2>2. futs \subseteq Batches /\ pc \in {"cut", "done"}
    BY DEF Init
  <2>6. /\ streaming \in BOOLEAN /\ joining \in BOOLEAN /\ open \in BOOLEAN
        /\ tick \in BOOLEAN /\ assigned \in BOOLEAN
    BY Zenon DEF Init
  <2>3. /\ queue \in Nat /\ sent \in Nat /\ present \subseteq Groups
        /\ remaining \subseteq Groups /\ fetched \in Nat
        /\ satWaits \in Nat /\ joinWaits \in Nat
        /\ pend \subseteq Nat \ {0} /\ sub \subseteq Groups
        /\ inflight \subseteq Groups
        /\ cursor \in Nat \ {0}
    BY DEF Init
  <2>4. /\ ext \in [Peers -> Nat] /\ load \in [Peers -> Nat]
        /\ fails \in [Peers -> Nat] /\ busy \in [Peers -> Nat]
        /\ cooling \in [Peers -> BOOLEAN] /\ probed \in [Peers -> BOOLEAN]
    BY DEF Init
  <2>5. roster \in Nat /\ Roster \subseteq Peers
    BY <1>2, ConstantsAssumption
  <2> QED
    BY <2>1, <2>2, <2>3, <2>4, <2>5, <2>6, <1>3, <1>4 DEF TypeOK
<1>6. SlotsInv
  BY ConstantsAssumption DEF Init, SlotsInv
<1>7. LedgerInv
  <2>1. \A p \in Peers : {b \in futs : b.primary = p} = {}
    BY DEF Init
  <2>2. \A p \in Peers : load[p] = 0 /\ Depth[Class[p]] \in Nat
    BY PeersAssumption DEF Init
  <2>3. IsFiniteSet(futs) /\ Cardinality({}) = 0
    BY FS_EmptySet DEF Init
  <2>4. \A p \in Peers : /\ load[p] = Cardinality({b \in futs : b.primary = p})
                         /\ load[p] <= Depth[Class[p]]
    BY <2>1, <2>2, <2>3
  <2> QED
    BY <2>3, <2>4 DEF Init, LedgerInv, LedgerExact
<1>8. OrderInv
  <2>1. \A i \in 1 .. Len(order) : order[i] \in HeldBy(Roster)
    BY <1>1, <1>2, ElementOfSeq
  <2>2. cursor = 1 /\ remaining = Groups
    BY DEF Init
  <2>3. \A g \in remaining \cap HeldBy(Roster) :
           \E i \in 1 .. Len(order) : order[i] = g
    BY <1>1, <1>2, <2>2
  <2> QED
    BY <1>1, <1>3, <2>1, <2>2, <2>3 DEF OrderInv
<1>9. SliceInv
  BY DEF Init, SliceInv
<1>10. ReportExact
  <2>1. Groups \ remaining = {} /\ fetched = 0
    BY DEF Init
  <2>2. Cardinality(Groups \ remaining) = 0
    BY <2>1, FS_EmptySet
  <2> QED
    BY <2>1, <2>2 DEF ReportExact
<1> QED
  BY <1>5, <1>6, <1>7, <1>8, <1>9, <1>10 DEF IInv

-----------------------------------------------------------------------------
(* Every step keeps the invariant.                                         *)

LEMMA CutSliceInv == IInv /\ CutSlice => IInv'
<1> SUFFICES ASSUME IInv, CutSlice PROVE IInv'
  OBVIOUS
<1> USE DEF fixedVars, envVars, chanVars, sliceVars, healthVars, bookVars, loopVars,
            idleVars
<1>1. TypeOK /\ SlotsInv /\ LedgerInv /\ OrderInv /\ SliceInv /\ ReportExact
  BY DEF IInv
<1>2. UNCHANGED <<fixedVars, envVars, roster, joining, order, cut, remaining,
                  fetched, bookVars, healthVars>>
  BY DEF CutSlice
<1>3. SlotsInv' /\ LedgerInv' /\ ReportExact' /\ Roster' = Roster
  BY <1>1, <1>2 DEF SlotsInv, LedgerInv, LedgerExact, ReportExact, Roster
<1>5. pc = "cut" /\ pend = {} /\ sub = {}
  BY <1>1 DEF CutSlice, SliceInv
<1>4. /\ cursor' \in cursor .. Len(order) + 1
      /\ \A i \in 1 .. Len(order) :
            cursor <= i /\ i < cursor' => order[i] \notin remaining
      /\ pc' \in {"idle", "wait", "assign"}
      /\ pend' \subseteq {i \in cursor' .. Len(order) :
                               order[i] \in remaining \ inflight}
      /\ pc' # "assign" => pend' = {}
      /\ sub' = {} /\ assigned' \in {FALSE, assigned}
      /\ satWaits' \in {0, satWaits} /\ joinWaits' \in {0, joinWaits}
      /\ tick' = tick
  <2>1. CASE FreeSlots = 0
    <3>1. LeaveRefill /\ UNCHANGED <<cursor, sliceVars>>
      BY <2>1 DEF CutSlice
    <3>2. cursor' = cursor /\ cursor \in Nat \ {0} /\ cursor <= Len(order) + 1
          /\ Len(order) \in Nat
      BY <3>1, <1>1, LenProperties DEF TypeOK, OrderInv
    <3> QED
      BY <3>1, <3>2, <1>5 DEF LeaveRefill
  <2>2. CASE FreeSlots # 0
    <3>1. PICK c \in cursor .. Len(order) + 1 :
            /\ Advanced(c) /\ cursor' = c
            /\ IF Slice(c, FreeSlots * cut) = {}
               THEN LeaveRefill /\ UNCHANGED sliceVars
               ELSE /\ pend' = Slice(c, FreeSlots * cut)
                    /\ assigned' = FALSE
                    /\ pc' = "assign"
                    /\ UNCHANGED <<sub, idleVars>>
      BY <2>2 DEF CutSlice
    <3>2. ASSUME NEW i \in 1 .. Len(order), cursor <= i, i < cursor'
          PROVE  order[i] \notin remaining
      <4>1. Len(order) \in Nat /\ cursor \in Nat
        BY <1>1, LenProperties DEF TypeOK
      <4>2. i < c
        BY <3>1, <3>2
      <4>3. i \in cursor .. c - 1
        BY <4>1, <4>2, <3>2
      <4> QED
        BY <4>3, <3>1 DEF Advanced
    <3>3. Slice(c, FreeSlots * cut) \subseteq
             {i \in cursor' .. Len(order) : order[i] \in remaining \ inflight}
      BY <3>1 DEF Slice
    <3>4. CASE Slice(c, FreeSlots * cut) = {}
      BY <3>1, <3>2, <3>4, <1>5 DEF LeaveRefill
    <3>5. CASE Slice(c, FreeSlots * cut) # {}
      BY <3>1, <3>2, <3>3, <3>5, <1>5
    <3> QED
      BY <3>4, <3>5
  <2> QED
    BY <2>1, <2>2
<1>6. Len(order) \in Nat /\ cursor \in Nat \ {0} /\ cursor' \in Nat \ {0}
  BY <1>1, <1>4, LenProperties DEF TypeOK
<1>7. TypeOK'
  <2>1. pend' \subseteq Nat \ {0} /\ sub' \subseteq Groups
        /\ assigned' \in BOOLEAN
    <3>1. cursor' .. Len(order) \subseteq Nat \ {0}
      BY <1>6
    <3>2. pend' \subseteq cursor' .. Len(order) /\ sub' = {}
      BY <1>4
    <3>3. assigned' \in BOOLEAN
      BY <1>1, <1>4 DEF TypeOK
    <3> QED
      BY <3>1, <3>2, <3>3
  <2>2. /\ satWaits' \in Nat /\ joinWaits' \in Nat /\ tick' \in BOOLEAN
        /\ pc' \in {"cut", "assign", "idle", "idle_wait", "wait", "done",
                    "aborted"}
    BY <1>1, <1>4 DEF TypeOK
  <2> QED
    BY <1>1, <1>2, <1>3, <1>6, <2>1, <2>2 DEF TypeOK
<1>8. OrderInv'
  <2>1. ASSUME NEW i \in 1 .. Len(order), i < cursor'
        PROVE  order[i] \notin remaining
    <3>1. CASE i < cursor
      BY <3>1, <1>1 DEF OrderInv
    <3>2. CASE i >= cursor
      BY <3>2, <2>1, <1>4
    <3> QED
      BY <3>1, <3>2, <1>6
  <2>2. HeldBy(Roster)' = HeldBy(Roster)
    BY <1>2, <1>3 DEF HeldBy
  <2> QED
    BY <1>1, <1>2, <1>4, <1>6, <2>1, <2>2 DEF OrderInv
<1>9. SliceInv'
  BY <1>2, <1>4, <1>5, <1>6 DEF SliceInv
<1> QED
  BY <1>3, <1>7, <1>8, <1>9 DEF IInv

LEMMA AssignBatchInv == IInv /\ AssignBatch => IInv'
<1> SUFFICES ASSUME IInv, AssignBatch PROVE IInv'
  OBVIOUS
<1> USE DEF fixedVars, envVars, chanVars, healthVars, bookVars, loopVars, idleVars
<1>1. TypeOK /\ SlotsInv /\ LedgerInv /\ OrderInv /\ SliceInv /\ ReportExact
  BY DEF IInv
<1>2. UNCHANGED <<fixedVars, envVars, pc, loopVars, idleVars, healthVars>>
      /\ pc = "assign" /\ sub = {}
  BY DEF AssignBatch
<1>3. PICK last \in pend :
        LET run == {order[i] : i \in RunUpTo(last)} IN
        /\ pend' = pend \ RunUpTo(last)
        /\ \/ \E p \in PickPeer(run) : Schedule(p, run) /\ sub' = {}
           \/ /\ sub' = run
              /\ UNCHANGED <<bookVars, assigned>>
  BY DEF AssignBatch
<1> DEFINE run == {order[i] : i \in RunUpTo(last)}
<1>4. /\ pend' \subseteq pend /\ pend \subseteq 1 .. Len(order)
      /\ run \subseteq remaining \ inflight
      /\ \A i \in pend' : order[i] \in (remaining \ inflight) \ run
  <2>1. pend \subseteq 1 .. Len(order) /\ RunUpTo(last) \subseteq pend
    BY <1>1 DEF SliceInv, RunUpTo
  <2>2. \A i \in pend : order[i] \in remaining \ inflight
    BY <1>1 DEF SliceInv
  <2>3. \A i, j \in pend : order[i] = order[j] => i = j
    BY <1>1, <2>1 DEF OrderInv
  <2> QED
    BY <1>3, <2>1, <2>2, <2>3
<1> HIDE DEF run
<1>5. SlotsInv' /\ ReportExact' /\ OrderInv'
  <2>1. HeldBy(Roster)' = HeldBy(Roster)
    BY <1>2 DEF HeldBy, Roster
  <2> QED
    BY <1>1, <1>2, <2>1 DEF SlotsInv, ReportExact, OrderInv
<1>6. CASE \E p \in PickPeer(run) : Schedule(p, run) /\ sub' = {}
  <2>1. PICK p \in PickPeer(run) : Schedule(p, run) /\ sub' = {}
    BY <1>6
  <2>2. p \in Roster /\ PipelineRoom(p)
    BY PickPeerSound
  <2>3. UNCHANGED <<remaining, roster>>
    BY <1>2
  <2>4. /\ LedgerInv' /\ load' \in [Peers -> Nat] /\ inflight' \subseteq Groups
        /\ inflight' \subseteq inflight \cup run /\ futs' \subseteq Batches
        /\ assigned' = TRUE
    BY <1>1, <1>4, <2>1, <2>2, <2>3, BookStep
  <2>5. SliceInv'
    BY <1>2, <1>4, <2>1, <2>4 DEF SliceInv
  <2>6. TypeOK'
    <3>1. pend' \subseteq Nat \ {0}
      BY <1>1, <1>4 DEF TypeOK
    <3> QED
      BY <1>1, <1>2, <2>1, <2>4, <3>1 DEF TypeOK, Roster
  <2> QED
    BY <1>5, <2>4, <2>5, <2>6 DEF IInv
<1>7. CASE sub' = run /\ UNCHANGED <<bookVars, assigned>>
  <2>1. LedgerInv'
    BY <1>1, <1>2, <1>7 DEF LedgerInv, LedgerExact, Roster
  <2>2. SliceInv'
    BY <1>2, <1>4, <1>7 DEF SliceInv
  <2>3. TypeOK'
    <3>1. pend' \subseteq Nat \ {0} /\ run \subseteq Groups
      BY <1>1, <1>4 DEF TypeOK
    <3> QED
      BY <1>1, <1>2, <1>7, <3>1 DEF TypeOK, Roster
  <2> QED
    BY <1>5, <2>1, <2>2, <2>3 DEF IInv
<1> QED
  BY <1>3, <1>6, <1>7 DEF run

LEMMA SplitBatchInv == IInv /\ SplitBatch => IInv'
<1> SUFFICES ASSUME IInv, SplitBatch PROVE IInv'
  OBVIOUS
<1> USE DEF fixedVars, envVars, chanVars, healthVars, bookVars, loopVars, idleVars
<1>1. TypeOK /\ SlotsInv /\ LedgerInv /\ OrderInv /\ SliceInv /\ ReportExact
  BY DEF IInv
<1>2. UNCHANGED <<fixedVars, envVars, pc, loopVars, idleVars, pend, healthVars>>
      /\ pc = "assign"
  BY DEF SplitBatch
<1>3. PICK last \in sub :
        /\ sub' = sub \ SpanUpTo(last)
        /\ \/ \E p \in PickPeer(SpanUpTo(last)) : Schedule(p, SpanUpTo(last))
           \/ UNCHANGED <<bookVars, assigned>>
  BY DEF SplitBatch
<1> DEFINE run == SpanUpTo(last)
<1>4. run \subseteq sub /\ sub \subseteq remaining \ inflight
  BY <1>1 DEF SliceInv, SpanUpTo
<1>5. SlotsInv' /\ ReportExact' /\ OrderInv'
  <2>1. HeldBy(Roster)' = HeldBy(Roster)
    BY <1>2 DEF HeldBy, Roster
  <2> QED
    BY <1>1, <1>2, <2>1 DEF SlotsInv, ReportExact, OrderInv
<1> HIDE DEF run
<1>6. CASE \E p \in PickPeer(run) : Schedule(p, run)
  <2>1. PICK p \in PickPeer(run) : Schedule(p, run)
    BY <1>6
  <2>2. p \in Roster /\ PipelineRoom(p)
    BY PickPeerSound
  <2>3. UNCHANGED <<remaining, roster>> /\ run \subseteq remaining \ inflight
    BY <1>2, <1>4
  <2>4. /\ LedgerInv' /\ load' \in [Peers -> Nat] /\ inflight' \subseteq Groups
        /\ inflight' \subseteq inflight \cup run /\ futs' \subseteq Batches
        /\ assigned' = TRUE
    BY <1>1, <2>1, <2>2, <2>3, BookStep
  <2>5. SliceInv'
    BY <1>1, <1>2, <1>3, <1>4, <2>4 DEF SliceInv, run
  <2>6. TypeOK'
    BY <1>1, <1>2, <1>3, <2>4 DEF TypeOK, Roster
  <2> QED
    BY <1>5, <2>4, <2>5, <2>6 DEF IInv
<1>7. CASE UNCHANGED <<bookVars, assigned>>
  <2>1. LedgerInv'
    BY <1>1, <1>2, <1>7 DEF LedgerInv, LedgerExact, Roster
  <2>2. SliceInv'
    BY <1>1, <1>2, <1>3, <1>7 DEF SliceInv
  <2>3. TypeOK'
    BY <1>1, <1>2, <1>3, <1>7 DEF TypeOK, Roster
  <2> QED
    BY <1>5, <2>1, <2>2, <2>3 DEF IInv
<1> QED
  BY <1>3, <1>6, <1>7 DEF run

LEMMA EndSliceInv == IInv /\ EndSlice => IInv'
<1> SUFFICES ASSUME IInv, EndSlice PROVE IInv'
  OBVIOUS
<1> USE DEF fixedVars, envVars, chanVars, healthVars, bookVars, loopVars, idleVars
<1>1. TypeOK /\ SlotsInv /\ LedgerInv /\ OrderInv /\ SliceInv /\ ReportExact
  BY DEF IInv
<1>2. /\ UNCHANGED <<fixedVars, envVars, loopVars, pend, sub, bookVars,
                     healthVars>>
      /\ assigned' = FALSE /\ pend = {} /\ sub = {}
  BY DEF EndSlice
<1>3. /\ pc' \in {"cut", "idle", "wait"}
      /\ satWaits' \in {0, satWaits} /\ joinWaits' \in {0, joinWaits}
      /\ tick' = tick
  BY DEF EndSlice, LeaveRefill
<1>4. SlotsInv' /\ LedgerInv' /\ OrderInv' /\ ReportExact'
  <2>1. Roster' = Roster /\ HeldBy(Roster)' = HeldBy(Roster)
    BY <1>2 DEF HeldBy, Roster
  <2> QED
    BY <1>1, <1>2, <2>1
       DEF SlotsInv, LedgerInv, LedgerExact, OrderInv, ReportExact
<1>5. SliceInv'
  BY <1>2 DEF SliceInv
<1>6. TypeOK'
  <2>1. satWaits' \in Nat /\ joinWaits' \in Nat
    BY <1>1, <1>3 DEF TypeOK
  <2>2. tick' \in BOOLEAN /\ assigned' \in BOOLEAN
    BY <1>1, <1>2, <1>3 DEF TypeOK
  <2>3. pc' \in {"cut", "assign", "idle", "idle_wait", "wait", "done",
                 "aborted"}
    BY <1>3
  <2>4. roster' = roster /\ Roster' = Roster
    BY <1>2 DEF Roster
  <2> QED
    BY <1>1, <1>2, <2>1, <2>2, <2>3, <2>4 DEF TypeOK
<1> QED
  BY <1>4, <1>5, <1>6 DEF IInv

\* The health ledgers stay well typed whatever an outcome notes.
LEMMA NotesTyped ==
    ASSUME TypeOK, NEW p \in Peers, NEW w \in Peers, NEW r \in BOOLEAN,
           \/ NoteBusy(p) \/ NoteFailed(p) \/ NoteDelivered(w)
           \/ NoteRescued(p, w, r)
    PROVE  /\ fails' \in [Peers -> Nat] /\ busy' \in [Peers -> Nat]
           /\ cooling' \in [Peers -> BOOLEAN] /\ probed' \in [Peers -> BOOLEAN]
<1>1. /\ fails \in [Peers -> Nat] /\ busy \in [Peers -> Nat]
      /\ cooling \in [Peers -> BOOLEAN] /\ probed \in [Peers -> BOOLEAN]
      /\ PeerFailLimit \in Nat /\ PeerFailLimit - 1 \in Nat
  BY ConstantsAssumption DEF TypeOK
<1>2. CASE NoteBusy(p)
  <2>1. busy' \in [Peers -> Nat] /\ probed' = probed
    BY <1>1, <1>2 DEF NoteBusy
  <2>2. \/ fails' = [fails EXCEPT ![p] = PeerFailLimit] /\ cooling' = cooling
        \/ cooling' = [cooling EXCEPT ![p] = TRUE] /\ fails' = fails
    BY <1>2 DEF NoteBusy
  <2>3. fails' \in [Peers -> Nat]
    BY <1>1, <2>2
  <2>4. cooling' \in [Peers -> BOOLEAN]
    BY <1>1, <2>2
  <2> QED
    BY <1>1, <2>1, <2>3, <2>4
<1>3. CASE NoteFailed(p)
  <2>1. busy' = busy
        /\ \/ /\ probed' = [probed EXCEPT ![p] = TRUE]
              /\ fails' = [fails EXCEPT ![p] = PeerFailLimit - 1]
              /\ cooling' = [cooling EXCEPT ![p] = TRUE]
           \/ /\ fails' = [fails EXCEPT ![p] = @ + 1]
              /\ probed' = probed /\ cooling' = cooling
    BY <1>3 DEF NoteFailed
  <2>2. fails' \in [Peers -> Nat]
    BY <1>1, <2>1
  <2>3. probed' \in [Peers -> BOOLEAN]
    BY <1>1, <2>1
  <2>4. cooling' \in [Peers -> BOOLEAN]
    BY <1>1, <2>1
  <2> QED
    BY <1>1, <2>1, <2>2, <2>3, <2>4
<1>4. CASE NoteDelivered(w)
  BY <1>1, <1>4 DEF NoteDelivered
<1>5. CASE NoteRescued(p, w, r)
  <2>1. LastPeerProbe(p) \in BOOLEAN
    BY DEF LastPeerProbe
  <2>2. fails' \in [Peers -> Nat]
    BY <1>1, <1>5 DEF NoteRescued
  <2>3. busy' \in [Peers -> Nat]
    BY <1>1, <1>5 DEF NoteRescued
  <2>4. cooling' \in [Peers -> BOOLEAN] /\ probed' \in [Peers -> BOOLEAN]
    BY <1>1, <1>5, <2>1 DEF NoteRescued
  <2> QED
    BY <2>2, <2>3, <2>4
<1> QED
  BY <1>2, <1>3, <1>4, <1>5

\* A batch that ends, won or lost, keeps the invariant.
LEMMA OutcomeInv ==
    ASSUME IInv, pc = "wait", NEW b \in futs, NEW gs \in SUBSET b.groups,
           Release(b), Landed(gs), OutcomeFrame,
           present \cup gs \subseteq present', present' \subseteq Groups,
           /\ fails' \in [Peers -> Nat] /\ busy' \in [Peers -> Nat]
           /\ cooling' \in [Peers -> BOOLEAN] /\ probed' \in [Peers -> BOOLEAN]
    PROVE  IInv'
<1> USE DEF OutcomeFrame, fixedVars, chanVars, sliceVars, idleVars
<1>1. TypeOK /\ SlotsInv /\ LedgerInv /\ OrderInv /\ SliceInv /\ ReportExact
  BY DEF IInv
<1>2. gs \subseteq remaining /\ remaining' = remaining \ gs
      /\ pc' \in {"done", "cut"}
  <2>1. b.groups \subseteq remaining
    BY <1>1 DEF LedgerInv, LedgerExact
  <2> QED
    BY <2>1 DEF Landed
<1>3. UNCHANGED roster
  OBVIOUS
<1>4. /\ LedgerInv' /\ load' \in [Peers -> Nat] /\ inflight' \subseteq inflight
      /\ futs' \subseteq Batches
  BY <1>1, <1>2, <1>3, ReleaseStep
<1>5. ReportExact' /\ remaining' \subseteq Groups /\ fetched' \in Nat
  BY <1>1, <1>2, LandStep
<1>6. Roster' = Roster /\ HeldBy(Roster)' = HeldBy(Roster)
  BY DEF Roster, HeldBy
<1>7. SlotsInv'
  BY <1>1 DEF SlotsInv
<1>8. OrderInv'
  BY <1>1, <1>2, <1>6 DEF OrderInv
<1>9. SliceInv'
  BY <1>1, <1>2 DEF SliceInv
<1>10. TypeOK'
  <2>1. inflight' \subseteq Groups /\ pc' \in {"cut", "done"}
    BY <1>1, <1>2, <1>4 DEF TypeOK
  <2> QED
    BY <1>1, <1>4, <1>5, <1>6, <2>1 DEF TypeOK
<1> QED
  BY <1>4, <1>5, <1>7, <1>8, <1>9, <1>10 DEF IInv

LEMMA WonInv ==
    ASSUME IInv, pc = "wait", NEW b \in futs, NEW w \in Peers, Won(b, w)
    PROVE  IInv'
<1>1. TypeOK /\ b \in Batches
  BY DEF IInv, TypeOK
<1>2. b.primary \in Peers /\ b.refused \in BOOLEAN /\ b.groups \subseteq Groups
  BY <1>1 DEF Batches
<1>3. NoteDelivered(w) \/ NoteRescued(b.primary, w, b.refused)
  BY DEF Won
<1>4. /\ fails' \in [Peers -> Nat] /\ busy' \in [Peers -> Nat]
      /\ cooling' \in [Peers -> BOOLEAN] /\ probed' \in [Peers -> BOOLEAN]
  BY <1>1, <1>2, <1>3, NotesTyped
<1>5. Release(b) /\ Landed(b.groups) /\ OutcomeFrame
      /\ present' = present \cup b.groups
  BY DEF Won
<1>6. present \cup b.groups \subseteq present' /\ present' \subseteq Groups
  BY <1>1, <1>2, <1>5 DEF TypeOK
<1>7. b.groups \in SUBSET b.groups
  OBVIOUS
<1> QED
  BY <1>4, <1>5, <1>6, <1>7, OutcomeInv

LEMMA LostInv ==
    ASSUME IInv, pc = "wait", NEW b \in futs, NEW r \in BOOLEAN, Lost(b, r)
    PROVE  IInv'
<1>1. TypeOK /\ b \in Batches
  BY DEF IInv, TypeOK
<1>2. b.primary \in Peers
  BY <1>1 DEF Batches
<1>3. NoteBusy(b.primary) \/ NoteFailed(b.primary)
  BY DEF Lost
<1>4. /\ fails' \in [Peers -> Nat] /\ busy' \in [Peers -> Nat]
      /\ cooling' \in [Peers -> BOOLEAN] /\ probed' \in [Peers -> BOOLEAN]
  BY <1>1, <1>2, <1>3, NotesTyped
<1>5. Release(b) /\ Landed(b.groups \cap present) /\ OutcomeFrame
      /\ present' = present
  BY DEF Lost
<1>6. present \cup (b.groups \cap present) \subseteq present'
      /\ present' \subseteq Groups
  BY <1>1, <1>5 DEF TypeOK
<1>7. b.groups \cap present \in SUBSET b.groups
  OBVIOUS
<1> QED
  BY <1>4, <1>5, <1>6, <1>7, OutcomeInv

LEMMA StartRaceInv ==
    ASSUME IInv, pc = "wait", NEW b \in futs, NEW rs \in SUBSET Peers,
           NEW r \in BOOLEAN, StartRace(b, rs, r)
    PROVE  IInv'
<1> USE DEF fixedVars, envVars, sliceVars, healthVars, loopVars, idleVars
<1>1. TypeOK /\ SlotsInv /\ LedgerInv /\ OrderInv /\ SliceInv /\ ReportExact
  BY DEF IInv
<1>2. UNCHANGED <<fixedVars, envVars, pc, loopVars, idleVars, sliceVars, load,
                   inflight, healthVars>>
  BY DEF StartRace
<1>3. UNCHANGED <<load, inflight, remaining, roster>>
  BY <1>2
<1>4. LedgerInv' /\ futs' \subseteq Batches
  BY <1>1, <1>3, RaceStep DEF StartRace
<1>5. Roster' = Roster /\ HeldBy(Roster)' = HeldBy(Roster)
  BY <1>2 DEF Roster, HeldBy
<1>6. SlotsInv' /\ OrderInv' /\ SliceInv' /\ ReportExact'
  BY <1>1, <1>2, <1>5 DEF SlotsInv, OrderInv, SliceInv, ReportExact
<1>7. TypeOK'
  BY <1>1, <1>2, <1>4, <1>5 DEF TypeOK
<1> QED
  BY <1>4, <1>6, <1>7 DEF IInv

LEMMA BatchStepInv == IInv /\ BatchStep => IInv'
<1> SUFFICES ASSUME IInv, pc = "wait", NEW b \in futs,
                    \/ PrimaryOk(b)
                    \/ PrimaryCap(b)
                    \/ \E how \in {"stall", "error", "busy"} :
                           PrimaryGivesOut(b, how)
                    \/ \E w \in b.racers : RaceWon(b, w)
                    \/ \E r \in b.racers : RacerErrs(b, r)
                    \/ RaceDry(b)
             PROVE  IInv'
  BY DEF BatchStep
<1>1. /\ b.primary \in Peers /\ b.racers \subseteq Peers /\ b.refused \in BOOLEAN
      /\ Roster \subseteq Peers
  BY DEF IInv, TypeOK, Batches
<1>2. CASE PrimaryOk(b)
  BY <1>1, <1>2, WonInv DEF PrimaryOk
<1>3. CASE PrimaryCap(b)
  BY <1>3, LostInv DEF PrimaryCap
<1>4. ASSUME NEW how \in {"stall", "error", "busy"}, PrimaryGivesOut(b, how)
      PROVE  IInv'
  <2>1. CASE Lost(b, how = "busy")
    BY <2>1, LostInv
  <2>2. ASSUME NEW faster \in SUBSET Classes,
               StartRace(b, Targets(b, faster \cup {Class[b.primary]})
                              \cup (IF how = "stall" THEN {b.primary} ELSE {}),
                         how = "busy")
        PROVE  IInv'
    <3>1. Targets(b, faster \cup {Class[b.primary]})
            \cup (IF how = "stall" THEN {b.primary} ELSE {}) \in SUBSET Peers
      BY <1>1 DEF Targets
    <3> QED
      BY <2>2, <3>1, StartRaceInv
  <2> QED
    BY <1>4, <2>1, <2>2 DEF PrimaryGivesOut
<1>5. ASSUME NEW w \in b.racers, RaceWon(b, w) PROVE IInv'
  BY <1>1, <1>5, WonInv DEF RaceWon
<1>6. ASSUME NEW r \in b.racers, RacerErrs(b, r) PROVE IInv'
  <2>1. b.racers \ {r} \in SUBSET Peers
    BY <1>1
  <2>2. Lost(b, b.refused) \/ StartRace(b, b.racers \ {r}, b.refused)
    BY <1>6 DEF RacerErrs
  <2> QED
    BY <1>1, <2>1, <2>2, LostInv, StartRaceInv
<1>7. CASE RaceDry(b)
  BY <1>1, <1>7, LostInv DEF RaceDry
<1> QED
  BY <1>2, <1>3, <1>4, <1>5, <1>6, <1>7

\* What the join channel yields, in the select! or in the idle sleep.
LEMMA RecvInv ==
    ASSUME IInv, RecvHandle \/ RecvClosed, pc # "assign", pc' = "cut",
           UNCHANGED <<fixedVars, ext, present, cursor, remaining, fetched,
                       sliceVars, inflight, futs>>,
           satWaits' \in Nat, joinWaits' \in Nat, tick' \in BOOLEAN
    PROVE  IInv'
<1> USE DEF fixedVars, chanVars, sliceVars, healthVars
<1>1. TypeOK /\ SlotsInv /\ LedgerInv /\ OrderInv /\ SliceInv /\ ReportExact
  BY DEF IInv
<1>2. SliceInv' /\ ReportExact'
  BY <1>1 DEF SliceInv, ReportExact
<1>3. CASE RecvHandle /\ AdmitJoiner
  <2>1. queue > 0 /\ queue' = queue - 1 /\ UNCHANGED <<open, sent, joining>>
    BY <1>3 DEF RecvHandle
  <2>2. UNCHANGED <<sent, bits, remaining, cursor, inflight, futs, pend, sub>>
    BY <2>1
  <2>3. /\ SlotsInv' /\ LedgerInv' /\ OrderInv'
        /\ roster' \in Nat /\ Roster' \subseteq Peers
        /\ order' \in Seq(Groups) /\ cut' \in Nat \ {0}
        /\ load' \in [Peers -> Nat] /\ fails' \in [Peers -> Nat]
        /\ busy' \in [Peers -> Nat]
        /\ cooling' \in [Peers -> BOOLEAN]
        /\ probed' \in [Peers -> BOOLEAN]
    BY <1>3, <2>1, <2>2, AdmitStep
  <2>4. queue' \in Nat
    BY <1>1, <2>1 DEF TypeOK
  <2>5. TypeOK'
    BY <1>1, <2>1, <2>3, <2>4 DEF TypeOK
  <2> QED
    BY <1>2, <2>3, <2>5 DEF IInv
<1>4. CASE RecvHandle /\ IgnoreJoiner
  <2>1. queue > 0 /\ queue' = queue - 1 /\ UNCHANGED <<open, sent, joining>>
        /\ UNCHANGED <<order, cut, roster, load, healthVars>>
    BY <1>4 DEF RecvHandle, IgnoreJoiner
  <2>2. queue' \in Nat
    BY <1>1, <2>1 DEF TypeOK
  <2>3. SlotsInv'
    BY <1>1, <2>1, ConstantsAssumption DEF SlotsInv, TypeOK
  <2>4. Roster' = Roster /\ HeldBy(Roster)' = HeldBy(Roster)
    BY <2>1 DEF Roster, HeldBy
  <2>5. LedgerInv' /\ OrderInv'
    BY <1>1, <2>1, <2>4 DEF LedgerInv, LedgerExact, OrderInv
  <2>6. TypeOK'
    BY <1>1, <2>1, <2>2, <2>4 DEF TypeOK
  <2> QED
    BY <1>2, <2>3, <2>5, <2>6 DEF IInv
<1>5. CASE RecvClosed
  <2>1. joining' = FALSE
        /\ UNCHANGED <<chanVars, order, cut, roster, load, healthVars>>
    BY <1>5 DEF RecvClosed
  <2>2. Roster' = Roster /\ HeldBy(Roster)' = HeldBy(Roster)
    BY <2>1 DEF Roster, HeldBy
  <2>3. SlotsInv' /\ LedgerInv' /\ OrderInv'
    BY <1>1, <2>1, <2>2 DEF SlotsInv, LedgerInv, LedgerExact, OrderInv
  <2>4. TypeOK'
    BY <1>1, <2>1, <2>2 DEF TypeOK
  <2> QED
    BY <1>2, <2>3, <2>4 DEF IInv
<1> QED
  BY <1>3, <1>4, <1>5 DEF RecvHandle

\* Steps that move only timers, the channel's sender, the store or the links.
LEMMA QuietInv ==
    ASSUME IInv,
           UNCHANGED <<fixedVars, loopVars, sliceVars, bookVars, fails, busy,
                       probed>>,
           pc' = pc \/ pc # "assign",
           pc' \in {"cut", "assign", "idle", "idle_wait", "wait", "done",
                    "aborted"},
           cooling' \in [Peers -> BOOLEAN],
           satWaits' \in Nat, joinWaits' \in Nat, tick' \in BOOLEAN,
           open' \in BOOLEAN, queue' \in Nat, sent' \in Nat, SlotsInv',
           ext' \in [Peers -> Nat],
           present \subseteq present', present' \subseteq Groups
    PROVE  IInv'
<1> USE DEF fixedVars, sliceVars, bookVars, loopVars
<1>1. TypeOK /\ LedgerInv /\ OrderInv /\ SliceInv /\ ReportExact
  BY DEF IInv
<1>2. Roster' = Roster /\ HeldBy(Roster)' = HeldBy(Roster)
  BY DEF Roster, HeldBy
<1>3. LedgerInv' /\ OrderInv' /\ ReportExact'
  BY <1>1, <1>2 DEF LedgerInv, LedgerExact, OrderInv, ReportExact
<1>4. SliceInv'
  BY <1>1 DEF SliceInv
<1>5. TypeOK'
  BY <1>1, <1>2 DEF TypeOK
<1> QED
  BY <1>3, <1>4, <1>5 DEF IInv

LEMMA IdleInv == IInv /\ (IdleAbort \/ IdleWait \/ IdleTimer) => IInv'
<1> SUFFICES ASSUME IInv, IdleAbort \/ IdleWait \/ IdleTimer PROVE IInv'
  OBVIOUS
<1> USE DEF fixedVars, envVars, sliceVars, bookVars, healthVars, loopVars, idleVars
<1>1. TypeOK /\ SlotsInv
  BY DEF IInv
<1>2. CASE IdleAbort
  <2>1. /\ UNCHANGED <<fixedVars, envVars, loopVars, idleVars, sliceVars,
                       bookVars, healthVars>>
        /\ pc = "idle" /\ pc' = "aborted"
    BY <1>2 DEF IdleAbort
  <2>2. SlotsInv'
    BY <1>1, <2>1 DEF SlotsInv
  <2> QED
    BY <1>1, <2>1, <2>2, QuietInv DEF TypeOK
<1>3. CASE IdleWait
  <2>1. /\ UNCHANGED <<fixedVars, envVars, loopVars, sliceVars, bookVars,
                       healthVars>>
        /\ pc = "idle" /\ pc' = "idle_wait"
        /\ satWaits' \in {satWaits, satWaits + 1}
        /\ joinWaits' \in {joinWaits, joinWaits + 1}
    BY <1>3 DEF IdleWait
  <2>2. satWaits' \in Nat /\ joinWaits' \in Nat
    BY <1>1, <2>1 DEF TypeOK
  <2>3. tick' \in BOOLEAN
    BY <1>3 DEF IdleWait
  <2>4. SlotsInv'
    BY <1>1, <2>1 DEF SlotsInv
  <2> QED
    BY <1>1, <2>1, <2>2, <2>3, <2>4, QuietInv DEF TypeOK
<1>4. CASE IdleTimer
  <2>1. /\ UNCHANGED <<fixedVars, envVars, loopVars, satWaits, joinWaits,
                       sliceVars, bookVars, fails, busy, probed>>
        /\ pc = "idle_wait" /\ pc' = "cut" /\ tick' = FALSE
    BY <1>4 DEF IdleTimer
  <2>2. cooling' = cooling
        \/ \E p \in Roster : cooling' = [cooling EXCEPT ![p] = FALSE]
    BY <1>4 DEF IdleTimer
  <2>3. cooling' \in [Peers -> BOOLEAN]
    BY <1>1, <2>2 DEF TypeOK
  <2>4. SlotsInv'
    BY <1>1, <2>1 DEF SlotsInv
  <2> QED
    BY <1>1, <2>1, <2>3, <2>4, QuietInv DEF TypeOK
<1> QED
  BY <1>2, <1>3, <1>4

LEMMA EnvInv ==
    IInv /\ (CooldownEnds \/ StoreCommit \/ LinkTraffic \/ Dialer) => IInv'
<1> SUFFICES ASSUME IInv, CooldownEnds \/ StoreCommit \/ LinkTraffic \/ Dialer
             PROVE  IInv'
  OBVIOUS
<1> USE DEF fixedVars, envVars, chanVars, sliceVars, bookVars, healthVars,
            loopVars, idleVars
<1>1. TypeOK /\ SlotsInv
  BY DEF IInv
<1>2. CASE CooldownEnds
  <2>1. UNCHANGED <<fixedVars, envVars, pc, loopVars, idleVars, sliceVars,
                    bookVars, fails, busy, probed>>
    BY <1>2 DEF CooldownEnds
  <2>2. cooling' \in [Peers -> BOOLEAN]
    BY <1>1, <1>2 DEF CooldownEnds, TypeOK
  <2>3. SlotsInv'
    BY <1>1, <2>1 DEF SlotsInv
  <2> QED
    BY <1>1, <2>1, <2>2, <2>3, QuietInv DEF TypeOK
<1>3. CASE StoreCommit
  <2>1. UNCHANGED <<fixedVars, chanVars, ext, pc, loopVars, idleVars,
                    sliceVars, bookVars, healthVars>>
    BY <1>3 DEF StoreCommit
  <2>2. present \subseteq present' /\ present' \subseteq Groups
    BY <1>1, <1>3 DEF StoreCommit, TypeOK
  <2>3. SlotsInv'
    BY <1>1, <2>1 DEF SlotsInv
  <2> QED
    BY <1>1, <2>1, <2>2, <2>3, QuietInv DEF TypeOK
<1>4. CASE LinkTraffic
  <2>1. UNCHANGED <<fixedVars, chanVars, present, pc, loopVars, idleVars,
                    sliceVars, bookVars, healthVars>>
    BY <1>4 DEF LinkTraffic
  <2>2. PICK p \in Roster :
          \/ ext' = [ext EXCEPT ![p] = @ + 1]
          \/ ext[p] > 0 /\ ext' = [ext EXCEPT ![p] = @ - 1]
    BY <1>4 DEF LinkTraffic
  <2>3. ext' \in [Peers -> Nat]
    <3>1. p \in Peers /\ ext \in [Peers -> Nat]
      BY <1>1 DEF TypeOK
    <3>2. ext[p] \in Nat
      BY <3>1
    <3>3. CASE ext' = [ext EXCEPT ![p] = @ + 1]
      BY <3>1, <3>2, <3>3
    <3>4. CASE ext[p] > 0 /\ ext' = [ext EXCEPT ![p] = @ - 1]
      <4>1. ext[p] - 1 \in Nat
        BY <3>2, <3>4
      <4> QED
        BY <3>1, <3>4, <4>1
    <3> QED
      BY <2>2, <3>3, <3>4
  <2>4. SlotsInv'
    BY <1>1, <2>1 DEF SlotsInv
  <2> QED
    BY <1>1, <2>1, <2>3, <2>4, QuietInv DEF TypeOK
<1>5. CASE Dialer
  <2>1. UNCHANGED <<fixedVars, ext, present, pc, loopVars, idleVars,
                    sliceVars, bookVars, healthVars>>
    BY <1>5 DEF Dialer
  <2>2. \/ sent < MaxJoins /\ sent' = sent + 1 /\ queue' = queue + 1
           /\ open' = open
        \/ open' = FALSE /\ queue' = queue /\ sent' = sent
    BY <1>5 DEF Dialer
  <2>3. queue' \in Nat /\ sent' \in Nat
    BY <1>1, <2>2 DEF TypeOK
  <2>4. open' \in BOOLEAN
    BY <1>1, <2>2, Zenon DEF TypeOK
  <2>5. SlotsInv'
    BY <1>1, <2>1, <2>2, ConstantsAssumption DEF SlotsInv, TypeOK
  <2> QED
    BY <1>1, <2>1, <2>3, <2>4, <2>5, QuietInv DEF TypeOK
<1> QED
  BY <1>2, <1>3, <1>4, <1>5

-----------------------------------------------------------------------------
(* The theorems.                                                           *)

LEMMA StepIInv == IInv /\ [Next]_vars => IInv'
<1> SUFFICES ASSUME IInv, [Next]_vars PROVE IInv'
  OBVIOUS
<1> USE DEF idleVars
<1>1. CASE WaitJoin
  <2>1. UNCHANGED <<fixedVars, ext, present, cursor, remaining, fetched,
                    sliceVars, inflight, futs>>
        /\ pc = "wait" /\ pc' = "cut" /\ (RecvHandle \/ RecvClosed)
    BY <1>1 DEF WaitJoin
  <2>2. satWaits' = satWaits /\ joinWaits' = joinWaits /\ tick' = tick
    BY <1>1 DEF WaitJoin
  <2>3. satWaits' \in Nat /\ joinWaits' \in Nat /\ tick' \in BOOLEAN
    BY <2>2 DEF IInv, TypeOK
  <2> QED
    BY <2>1, <2>3, RecvInv
<1>2. CASE IdleJoin
  <2>1. UNCHANGED <<fixedVars, ext, present, cursor, remaining, fetched,
                    sliceVars, inflight, futs>>
        /\ pc = "idle_wait" /\ pc' = "cut" /\ (RecvHandle \/ RecvClosed)
    BY <1>2 DEF IdleJoin
  <2>2. satWaits' = satWaits /\ joinWaits' \in {0, joinWaits}
        /\ tick' = FALSE
    BY <1>2 DEF IdleJoin
  <2>3. satWaits' \in Nat /\ joinWaits' \in Nat
    BY <2>2 DEF IInv, TypeOK
  <2>4. tick' \in BOOLEAN
    BY <2>2
  <2> QED
    BY <2>1, <2>3, <2>4, RecvInv
<1>3. CASE UNCHANGED vars
  <2>1. Roster' = Roster /\ HeldBy(Roster)' = HeldBy(Roster)
    BY <1>3 DEF vars, fixedVars, loopVars, Roster, HeldBy
  <2>2. SlotsInv /\ TypeOK
    BY DEF IInv
  <2>3. SlotsInv'
    BY <1>3, <2>2 DEF vars, envVars, loopVars, SlotsInv
  <2> QED
    BY <1>3, <2>2, <2>3, QuietInv
       DEF vars, envVars, healthVars, TypeOK
<1> QED
  BY <1>1, <1>2, <1>3, CutSliceInv, AssignBatchInv, SplitBatchInv, EndSliceInv,
     BatchStepInv, IdleInv, EnvInv DEF Next, Loop, Returned

\* The inductive invariant holds of every behaviour of the fetch loop of
\* fetch_growable: the other theorems are read off it.
THEOREM Invariance == Spec => []IInv
<1>1. Init => IInv
  BY InitIInv
<1>2. IInv /\ [Next]_vars => IInv'
  BY StepIInv
<1> QED
  BY <1>1, <1>2, PTL DEF Spec

\* Every variable of the fetch loop keeps its type, whatever the roster, the
\* order and the answers: no load count goes below zero, no slot index leaves
\* the roster, no batch names a group that was not asked for.
THEOREM TypeCorrect == Spec => []TypeOK
<1>1. IInv => TypeOK
  BY DEF IInv
<1> QED
  BY <1>1, Invariance, PTL

\* Window's load and inflight ledgers agree with the futures in flight, and no
\* group is fetched by two batches, in every interleaving of refill, batch
\* outcomes and joins (schedule, release, apply_outcome).
THEOREM LedgerCorrect == Spec => []LedgerExact
<1>1. IInv => LedgerExact
  BY DEF IInv, LedgerInv
<1> QED
  BY <1>1, Invariance, PTL

\* A needed group held by a roster peer is always ahead of the cursor:
\* next_unassigned never skips one and admit_joiner never forgets one.
THEOREM NothingStranded == Spec => []NoStrandedGroup
<1>1. IInv => NoStrandedGroup
  <2> SUFFICES ASSUME IInv, NEW g \in remaining \cap HeldBy(Roster)
               PROVE  \E i \in cursor .. Len(order) : order[i] = g
    BY DEF NoStrandedGroup
  <2>1. OrderInv /\ cursor \in Nat /\ Len(order) \in Nat
    BY DEF IInv, TypeOK
  <2>2. PICK i \in 1 .. Len(order) : order[i] = g
    BY <2>1 DEF OrderInv
  <2>3. ~(i < cursor)
    BY <2>1, <2>2 DEF OrderInv
  <2>4. i \in cursor .. Len(order)
    BY <2>1, <2>3
  <2> QED
    BY <2>2, <2>4
<1> QED
  BY <1>1, Invariance, PTL

\* FetchReport.groups_fetched counts each landed group once, and every landed
\* group is in the store, whatever duplicates and salvaged prefixes did.
THEOREM ReportCorrect == Spec => []ReportExact
<1>1. IInv => ReportExact
  BY DEF IInv
<1> QED
  BY <1>1, Invariance, PTL

-----------------------------------------------------------------------------
(* Refinement: a fetch implements the contract its caller is given.        *)

DoneInv == pc = "done" <=> remaining = {}

\* What a step of the fetch can be, for the caller.
Outcome ==
    /\ pc = "wait" /\ pc' = (IF remaining' = {} THEN "done" ELSE "cut")
    /\ remaining' \subseteq remaining
    /\ remaining \ remaining' \subseteq present'
    /\ present \subseteq present' /\ present' \subseteq Groups
Quiet ==
    /\ UNCHANGED <<remaining, present>>
    /\ pc' = pc \/ (Running /\ Running')
Commit ==
    /\ pc = "wait" /\ pc' = pc /\ remaining' = remaining
    /\ present \subseteq present' /\ present' \subseteq Groups
Abort ==
    /\ pc = "idle" /\ pc' = "aborted"
    /\ UNCHANGED <<remaining, present>>

LEMMA WonOutcome ==
    ASSUME TypeOK, pc = "wait", NEW b \in futs, NEW w, Won(b, w)
    PROVE  Outcome
<1>1. b.groups \subseteq Groups
  BY DEF TypeOK, Batches
<1>2. /\ present' = present \cup b.groups
      /\ remaining' = remaining \ b.groups
      /\ pc' = IF remaining \ b.groups = {} THEN "done" ELSE "cut"
  BY DEF Won, Landed
<1>3. present \subseteq Groups
  BY DEF TypeOK
<1> QED
  BY <1>1, <1>2, <1>3 DEF Outcome

LEMMA LostOutcome ==
    ASSUME TypeOK, pc = "wait", NEW b \in futs, NEW r, Lost(b, r)
    PROVE  Outcome
<1>2. /\ present' = present
      /\ remaining' = remaining \ (b.groups \cap present)
      /\ pc' = IF remaining \ (b.groups \cap present) = {} THEN "done"
               ELSE "cut"
  BY DEF Lost, Landed
<1>3. present \subseteq Groups
  BY DEF TypeOK
<1> QED
  BY <1>2, <1>3 DEF Outcome

LEMMA RaceQuiet ==
    ASSUME pc = "wait", NEW b, NEW rs, NEW r, StartRace(b, rs, r)
    PROVE  Quiet
  BY DEF StartRace, Quiet, envVars, loopVars

LEMMA BatchShape ==
    ASSUME TypeOK, BatchStep
    PROVE  Outcome \/ Quiet
<1>1. pc = "wait"
  BY DEF BatchStep
<1>2. PICK b \in futs :
          \/ PrimaryOk(b)
          \/ PrimaryCap(b)
          \/ \E how \in {"stall", "error", "busy"} : PrimaryGivesOut(b, how)
          \/ \E w \in b.racers : RaceWon(b, w)
          \/ \E r \in b.racers : RacerErrs(b, r)
          \/ RaceDry(b)
  BY DEF BatchStep
<1>3. CASE PrimaryOk(b)
  BY <1>1, <1>3, WonOutcome DEF PrimaryOk
<1>4. CASE PrimaryCap(b)
  BY <1>1, <1>4, LostOutcome DEF PrimaryCap
<1>5. CASE \E how \in {"stall", "error", "busy"} : PrimaryGivesOut(b, how)
  <2>1. PICK how \in {"stall", "error", "busy"} : PrimaryGivesOut(b, how)
    BY <1>5
  <2> QED
    BY <1>1, <2>1, LostOutcome, RaceQuiet, Zenon DEF PrimaryGivesOut
<1>6. CASE \E w \in b.racers : RaceWon(b, w)
  BY <1>1, <1>6, WonOutcome DEF RaceWon
<1>7. CASE \E r \in b.racers : RacerErrs(b, r)
  BY <1>1, <1>7, LostOutcome, RaceQuiet DEF RacerErrs
<1>8. CASE RaceDry(b)
  BY <1>1, <1>8, LostOutcome DEF RaceDry
<1> QED
  BY <1>2, <1>3, <1>4, <1>5, <1>6, <1>7, <1>8

LEMMA StepShape ==
    ASSUME TypeOK, [Next]_vars
    PROVE  Outcome \/ Quiet \/ Commit \/ Abort
<1> USE DEF envVars, loopVars
<1>1. CASE CutSlice \/ AssignBatch \/ SplitBatch \/ EndSlice
  BY <1>1 DEF CutSlice, AssignBatch, SplitBatch, EndSlice, LeaveRefill, Quiet,
              Running
<1>2. CASE IdleAbort
  BY <1>2 DEF IdleAbort, Abort
<1>3. CASE IdleWait \/ IdleTimer \/ WaitJoin \/ IdleJoin
  BY <1>3 DEF IdleWait, IdleTimer, WaitJoin, IdleJoin, Quiet, Running
<1>4. CASE CooldownEnds \/ LinkTraffic \/ Dialer
  BY <1>4 DEF CooldownEnds, LinkTraffic, Dialer, Quiet
<1>5. CASE StoreCommit
  BY <1>5 DEF StoreCommit, Commit, TypeOK
<1>6. CASE Returned \/ UNCHANGED vars
  BY <1>6 DEF Returned, Quiet, vars
<1>7. CASE BatchStep
  BY <1>7, BatchShape
<1> QED
  BY <1>1, <1>2, <1>3, <1>4, <1>5, <1>6, <1>7 DEF Next, Loop

\* The fetch keeps the contract of Swarm::fetch: it accounts only for groups
\* whose verified bytes are stored, never takes one back, completes exactly
\* when nothing is missing, and does nothing more once it has returned.
THEOREM Refinement == Spec => ImplementsContract
<1> USE DEF Running, Contract!StatusOf
<1>1. Init => DoneInv
  BY DEF Init, DoneInv
<1>2. TypeOK /\ DoneInv /\ [Next]_vars => DoneInv'
  BY StepShape DEF DoneInv, Outcome, Quiet, Commit, Abort
<1>3. Init => Contract!Init
  BY DEF Init, Contract!Init
<1>4. TypeOK /\ DoneInv /\ [Next]_vars => [Contract!Next]_(Contract!vars)
  <2> SUFFICES ASSUME TypeOK, DoneInv, [Next]_vars
               PROVE  [Contract!Next]_(Contract!vars)
    OBVIOUS
  <2>1. CASE Outcome
    <3>1. Contract!Deliver
      BY <2>1 DEF Outcome, Contract!Deliver
    <3> QED
      BY <3>1 DEF Contract!Next
  <2>2. CASE Quiet
    BY <2>2 DEF Quiet, Contract!vars
  <2>3. CASE Commit
    <3>1. Contract!Deliver
      BY <2>3 DEF Commit, Contract!Deliver, DoneInv
    <3> QED
      BY <3>1 DEF Contract!Next
  <2>4. CASE Abort
    <3>1. Contract!GiveUp
      BY <2>4 DEF Abort, Contract!GiveUp, DoneInv
    <3> QED
      BY <3>1 DEF Contract!Next
  <2> QED
    BY <2>1, <2>2, <2>3, <2>4, StepShape
<1> QED
  BY <1>1, <1>2, <1>3, <1>4, TypeCorrect, PTL
     DEF Spec, ImplementsContract, Contract!Spec

-----------------------------------------------------------------------------
(***************************************************************************)
(* Who races for a batch.                                                  *)
(***************************************************************************)

\* RacersHoldBatch of one batch.
Racing(b) ==
    /\ b.groups # {}
    /\ b.primary \in Roster /\ b.racers \subseteq Roster /\ b.racers # {}
    /\ \A r \in b.racers \cup {b.primary} : b.groups \subseteq bits[r]
    /\ Cardinality(b.groups) <= ReqSize[Class[b.primary]]
    /\ Cardinality(b.racers \ {b.primary}) <= MaxDuplicates

LEMMA RacingAll == RacersHoldBatch <=> \A b \in futs : Racing(b)
  BY DEF RacersHoldBatch, Racing

\* Taking the first k elements of a set of numbers takes at most k.
LEMMA FirstFew ==
    ASSUME NEW fit \in SUBSET Nat, IsFiniteSet(fit), NEW k \in Nat,
           NEW T,
           T = {p \in fit : Cardinality({q \in fit : q <= p}) <= k}
    PROVE  IsFiniteSet(T) /\ Cardinality(T) <= k
<1> DEFINE upTo(p) == {q \in fit : q <= p}
           rank == [p \in T |-> Cardinality(upTo(p))]
<1>1. \A p : IsFiniteSet(upTo(p)) /\ Cardinality(upTo(p)) \in Nat
  <2>1. \A p : upTo(p) \in SUBSET fit
    OBVIOUS
  <2> QED
    BY ONLY <2>1, IsFiniteSet(fit), FS_Subset, FS_CardinalityType
<1>2. \A p \in T : rank[p] \in 1 .. k
  <2>1. SUFFICES ASSUME NEW p \in T
                 PROVE  Cardinality(upTo(p)) \in 1 .. k
    OBVIOUS
  <2>2. p \in upTo(p) /\ Cardinality(upTo(p)) <= k
    OBVIOUS
  <2>3. Cardinality(upTo(p)) # 0
    BY <1>1, <2>2, FS_EmptySet
  <2> HIDE DEF upTo
  <2> QED
    BY <1>1, <2>2, <2>3
<1>3. \A p, q \in T : rank[p] = rank[q] => p = q
  <2>1. ASSUME NEW p \in T, NEW q \in T, p < q
        PROVE  Cardinality(upTo(p)) # Cardinality(upTo(q))
    <3>a. p \in Nat /\ q \in Nat /\ q \in fit /\ fit \subseteq Nat
      OBVIOUS
    <3>b. \A x \in Nat : x <= p => x <= q
      BY <2>1, <3>a
    <3>c. ~(q <= p) /\ q <= q
      BY <2>1, <3>a
    <3>1. upTo(p) \in SUBSET upTo(q) /\ q \in upTo(q) /\ q \notin upTo(p)
      BY <3>a, <3>b, <3>c
    <3> HIDE DEF upTo
    <3> QED
      BY <1>1, <3>1, FS_Subset
  <2>2. \A p, q \in T : p < q \/ q < p \/ p = q
    OBVIOUS
  <2> QED
    BY <2>1, <2>2
<1>4. rank \in Injection(T, 1 .. k)
  <2> HIDE DEF upTo
  <2> QED
    BY <1>2, <1>3 DEF Injection, IsInjective
<1>5. IsFiniteSet(1 .. k) /\ Cardinality(1 .. k) = k
  BY FS_Interval
<1> HIDE DEF rank
<1> QED
  BY <1>4, <1>5, FS_Injection

\* The duplicate targets are few, and each holds the whole batch.
LEMMA TargetsSound ==
    ASSUME TypeOK, NEW b \in futs, NEW cs
    PROVE  /\ Targets(b, cs) \subseteq Roster \ {b.primary}
           /\ \A r \in Targets(b, cs) : b.groups \subseteq bits[r]
           /\ IsFiniteSet(Targets(b, cs))
           /\ Cardinality(Targets(b, cs)) <= MaxDuplicates
<1> DEFINE fit == {p \in Roster : /\ p # b.primary
                                  /\ Label[p] # Label[b.primary]
                                  /\ Class[p] \in cs
                                  /\ b.groups \subseteq bits[p]}
<1>1. Targets(b, cs) =
         {p \in fit : Cardinality({q \in fit : q <= p}) <= MaxDuplicates}
  BY DEF Targets
<1>2. IsFiniteSet(Roster) /\ Roster \in SUBSET Nat
  BY FS_Interval DEF Roster, TypeOK
<1>3. fit \in SUBSET Roster /\ fit \in SUBSET Nat
  BY <1>2
<1>4. IsFiniteSet(fit)
  BY <1>2, <1>3, FS_Subset
<1>5. Targets(b, cs) \subseteq fit
  BY <1>1
<1>6. MaxDuplicates \in Nat
  BY ConstantsAssumption
<1>7. /\ fit \subseteq Roster \ {b.primary}
      /\ \A r \in fit : b.groups \subseteq bits[r]
  OBVIOUS
<1> HIDE DEF fit
<1>8. IsFiniteSet(Targets(b, cs)) /\ Cardinality(Targets(b, cs)) <= MaxDuplicates
  BY <1>1, <1>3, <1>4, <1>6, FirstFew
<1> QED
  BY <1>5, <1>7, <1>8

\* Window::schedule books what the picked peer holds, trimmed to its size.
LEMMA ScheduleRacers ==
    ASSUME TypeOK, RacersHoldBatch, NEW run \in SUBSET Groups,
           NEW p \in PickPeer(run), Schedule(p, run), UNCHANGED <<bits, roster>>
    PROVE  RacersHoldBatch'
<1>1. p \in Roster /\ run \subseteq bits[p] /\ p \in Peers
  BY DEF PickPeer, Eligible, TypeOK
<1>2. PICK first \in run :
         /\ \A g \in run : first <= g
         /\ futs' = futs \cup
               {[groups |-> {g \in run : g < first + ReqSize[Class[p]]},
                 primary |-> p, racers |-> {p}, raced |-> FALSE,
                 refused |-> FALSE]}
  BY DEF Schedule
<1>3. PICK size \in Nat \ {0} : size = ReqSize[Class[p]]
  BY <1>1, PeersAssumption
<1>4. PICK trimmed : trimmed = {g \in run : g < first + size}
  OBVIOUS
<1>5. first \in Nat /\ run \subseteq Nat
  BY GroupsFinite
<1>a. PICK last \in Int : last = first + size - 1 /\ first <= last
  BY <1>3, <1>5
<1>6. trimmed \in SUBSET (first .. last)
  <2>1. ASSUME NEW g \in trimmed
        PROVE  g \in first .. last
    <3>1. g \in Nat /\ first <= g /\ g < first + size
      BY <1>2, <1>4, <1>5, <2>1
    <3> QED
      BY <1>3, <1>5, <1>a, <3>1
  <2> QED
    BY <2>1
<1>7. Cardinality(trimmed) <= size
  <2>1. IsFiniteSet(first .. last)
    BY <1>5, <1>a, FS_Interval
  <2>2. Cardinality(first .. last) = last - first + 1
    BY <1>5, <1>a, FS_Interval
  <2>3. last - first + 1 = size
    BY <1>3, <1>5, <1>a
  <2> QED
    BY <1>6, <2>1, <2>2, <2>3, FS_Subset
<1>8. first \in trimmed /\ trimmed \subseteq run
  BY <1>3, <1>4, <1>5
<1>9. PICK b : b = [groups |-> trimmed, primary |-> p, racers |-> {p},
                    raced |-> FALSE, refused |-> FALSE]
  OBVIOUS
<1>10. futs' = futs \cup {b} /\ b.groups = trimmed /\ b.primary = p
       /\ b.racers = {p}
  BY <1>2, <1>3, <1>4, <1>9
<1>11. Cardinality({p} \ {p}) <= MaxDuplicates
  <2>1. {p} \ {p} = {}
    OBVIOUS
  <2> QED
    BY <2>1, FS_EmptySet, ConstantsAssumption
<1>12. Racing(b)
  <2>1. b.racers \ {b.primary} = {p} \ {p}
    BY <1>10
  <2> QED
    BY <1>1, <1>3, <1>7, <1>8, <1>10, <1>11, <2>1 DEF Racing
<1>13. \A a \in futs' : Racing(a)
  BY <1>10, <1>12, RacingAll
<1>14. Roster' = Roster
  BY DEF Roster
<1> QED
  BY <1>13, <1>14 DEF RacersHoldBatch, Racing

\* Turning a batch into a race, or dropping one of its racers.
LEMMA RaceRacers ==
    ASSUME TypeOK, RacersHoldBatch, NEW b \in futs, NEW rs \in SUBSET Roster,
           rs # {}, \A r \in rs : b.groups \subseteq bits[r],
           Cardinality(rs \ {b.primary}) <= MaxDuplicates,
           NEW ref, StartRace(b, rs, ref)
    PROVE  RacersHoldBatch'
<1>1. PICK c : c = [b EXCEPT !.racers = rs, !.raced = TRUE, !.refused = ref]
  OBVIOUS
<1>2. futs' = (futs \ {b}) \cup {c} /\ UNCHANGED <<bits, roster>>
  BY <1>1 DEF StartRace, fixedVars, loopVars
<1>3. c.groups = b.groups /\ c.primary = b.primary /\ c.racers = rs
  BY <1>1 DEF TypeOK, Batches
<1>4. Racing(b)
  BY RacingAll
<1>5. Racing(c)
  BY <1>3, <1>4 DEF Racing
<1>6. \A a \in futs' : Racing(a)
  BY <1>2, <1>5, RacingAll
<1>7. Roster' = Roster
  BY <1>2 DEF Roster
<1> QED
  BY <1>2, <1>6, <1>7 DEF RacersHoldBatch, Racing

\* Batches that leave, and peers that join, change nothing for the others.
LEMMA KeptRacers ==
    ASSUME TypeOK, RacersHoldBatch, futs' \subseteq futs, bits' = bits,
           roster' = roster \/ roster' = roster + 1
    PROVE  RacersHoldBatch'
<1>1. Roster \subseteq Roster'
  BY DEF Roster, TypeOK
<1> QED
  BY <1>1 DEF RacersHoldBatch

LEMMA BatchRacers ==
    ASSUME TypeOK, RacersHoldBatch, BatchStep
    PROVE  RacersHoldBatch'
<1>1. PICK b \in futs :
          \/ PrimaryOk(b)
          \/ PrimaryCap(b)
          \/ \E how \in {"stall", "error", "busy"} : PrimaryGivesOut(b, how)
          \/ \E w \in b.racers : RaceWon(b, w)
          \/ \E r \in b.racers : RacerErrs(b, r)
          \/ RaceDry(b)
  BY DEF BatchStep
<1>2. Racing(b)
  BY RacingAll
<1>3. ASSUME NEW w, Won(b, w)
      PROVE  RacersHoldBatch'
  BY <1>3, KeptRacers DEF Won, Release, OutcomeFrame, fixedVars
<1>4. ASSUME NEW ref, Lost(b, ref)
      PROVE  RacersHoldBatch'
  BY <1>4, KeptRacers DEF Lost, Release, OutcomeFrame, fixedVars
<1>5. ASSUME NEW how \in {"stall", "error", "busy"}, PrimaryGivesOut(b, how)
      PROVE  RacersHoldBatch'
  <2>1. CASE Lost(b, how = "busy")
    BY <1>4, <2>1
  <2>2. CASE ~Lost(b, how = "busy")
    <3>1. PICK faster \in SUBSET Classes :
            LET targets == Targets(b, faster \cup {Class[b.primary]})
            IN  /\ targets # {}
                /\ StartRace(b, targets \cup (IF how = "stall"
                                              THEN {b.primary} ELSE {}),
                             how = "busy")
      BY <1>5, <2>2 DEF PrimaryGivesOut
    <3>2. PICK ts : ts = Targets(b, faster \cup {Class[b.primary]})
      OBVIOUS
    <3>3. /\ ts # {} /\ ts \subseteq Roster \ {b.primary}
          /\ \A r \in ts : b.groups \subseteq bits[r]
          /\ Cardinality(ts) <= MaxDuplicates
      BY <3>1, <3>2, TargetsSound
    <3>4. PICK rs : rs = ts \cup (IF how = "stall" THEN {b.primary} ELSE {})
      OBVIOUS
    <3>5. rs \ {b.primary} = ts /\ rs \in SUBSET Roster /\ rs # {}
      BY <1>2, <3>3, <3>4 DEF Racing
    <3>6. \A r \in rs : b.groups \subseteq bits[r]
      BY <1>2, <3>3, <3>4 DEF Racing
    <3>7. StartRace(b, rs, how = "busy")
      BY <3>1, <3>2, <3>4
    <3> QED
      BY <3>3, <3>5, <3>6, <3>7, RaceRacers
  <2> QED
    BY <2>1, <2>2
<1>6. ASSUME NEW r \in b.racers, RacerErrs(b, r)
      PROVE  RacersHoldBatch'
  <2>1. CASE b.racers = {r}
    BY <1>4, <1>6, <2>1 DEF RacerErrs
  <2>2. CASE b.racers # {r}
    <3>1. PICK rs : rs = b.racers \ {r}
      OBVIOUS
    <3>2. rs \in SUBSET Roster /\ rs # {} /\ \A x \in rs : b.groups \subseteq bits[x]
      BY <1>2, <2>2, <3>1 DEF Racing
    <3>3. Cardinality(rs \ {b.primary}) <= MaxDuplicates
      <4>1. IsFiniteSet(Roster)
        BY FS_Interval DEF Roster, TypeOK
      <4>2. b.racers \ {b.primary} \in SUBSET Roster
        BY <1>2 DEF Racing
      <4>3. IsFiniteSet(b.racers \ {b.primary})
        BY <4>1, <4>2, FS_Subset
      <4>4. rs \ {b.primary} \in SUBSET (b.racers \ {b.primary})
        BY <3>1
      <4>5. /\ Cardinality(rs \ {b.primary})
                 <= Cardinality(b.racers \ {b.primary})
            /\ IsFiniteSet(rs \ {b.primary})
        BY <4>3, <4>4, FS_Subset
      <4>6. /\ Cardinality(rs \ {b.primary}) \in Nat
            /\ Cardinality(b.racers \ {b.primary}) \in Nat
        BY <4>3, <4>5, FS_CardinalityType
      <4>7. Cardinality(b.racers \ {b.primary}) <= MaxDuplicates
        BY <1>2 DEF Racing
      <4> QED
        BY <4>5, <4>6, <4>7, ConstantsAssumption
    <3>4. StartRace(b, rs, b.refused)
      BY <1>6, <2>2, <3>1 DEF RacerErrs
    <3> QED
      BY <3>2, <3>3, <3>4, RaceRacers
  <2> QED
    BY <2>1, <2>2
<1> QED
  BY <1>1, <1>3, <1>4, <1>5, <1>6
     DEF PrimaryOk, PrimaryCap, RaceWon, RaceDry

\* Every peer racing for a batch holds all of it, a batch is no larger than
\* its primary's class asks for, and a race adds at most MaxDuplicates peers,
\* whatever joins, stalls, refuses or errs meanwhile.
THEOREM RacersCorrect == Spec => []RacersHoldBatch
<1>1. Init => RacersHoldBatch
  BY DEF Init, RacersHoldBatch
<1>2. IInv /\ RacersHoldBatch /\ [Next]_vars => RacersHoldBatch'
  <2> SUFFICES ASSUME IInv, RacersHoldBatch, [Next]_vars
               PROVE  RacersHoldBatch'
    OBVIOUS
  <2>0. TypeOK
    BY DEF IInv
  <2>1. CASE CutSlice
    BY <2>0, <2>1, KeptRacers DEF CutSlice, fixedVars, bookVars
  <2>2. CASE AssignBatch
    <3>1. UNCHANGED <<bits, roster>>
      BY <2>2 DEF AssignBatch, fixedVars, loopVars
    <3>2. PICK last \in pend :
            \/ \E p \in PickPeer({order[i] : i \in RunUpTo(last)}) :
                  Schedule(p, {order[i] : i \in RunUpTo(last)})
            \/ UNCHANGED futs
      BY <2>2 DEF AssignBatch, bookVars
    <3>3. {order[i] : i \in RunUpTo(last)} \in SUBSET Groups
      BY <2>0 DEF IInv, SliceInv, RunUpTo, TypeOK
    <3> QED
      BY <2>0, <3>1, <3>2, <3>3, ScheduleRacers, KeptRacers
  <2>3. CASE SplitBatch
    <3>1. UNCHANGED <<bits, roster>>
      BY <2>3 DEF SplitBatch, fixedVars, loopVars
    <3>2. PICK last \in sub :
            \/ \E p \in PickPeer(SpanUpTo(last)) : Schedule(p, SpanUpTo(last))
            \/ UNCHANGED futs
      BY <2>3 DEF SplitBatch, bookVars
    <3>3. SpanUpTo(last) \in SUBSET Groups
      BY <2>0 DEF SpanUpTo, TypeOK
    <3> QED
      BY <2>0, <3>1, <3>2, <3>3, ScheduleRacers, KeptRacers
  <2>4. CASE EndSlice
    BY <2>0, <2>4, KeptRacers DEF EndSlice, fixedVars, bookVars, loopVars
  <2>5. CASE IdleAbort \/ IdleWait \/ IdleTimer
    BY <2>0, <2>5, KeptRacers
       DEF IdleAbort, IdleWait, IdleTimer, fixedVars, bookVars, loopVars
  <2>6. CASE WaitJoin \/ IdleJoin
    <3>1. UNCHANGED <<bits, futs>>
      BY <2>6 DEF WaitJoin, IdleJoin, fixedVars
    <3>2. roster' = roster \/ roster' = roster + 1
      BY <2>6 DEF WaitJoin, IdleJoin, RecvHandle, RecvClosed, AdmitJoiner,
                  IgnoreJoiner
    <3> QED
      BY <2>0, <3>1, <3>2, KeptRacers
  <2>7. CASE CooldownEnds \/ StoreCommit \/ LinkTraffic \/ Dialer
    BY <2>0, <2>7, KeptRacers
       DEF CooldownEnds, StoreCommit, LinkTraffic, Dialer, fixedVars, bookVars,
           loopVars
  <2>8. CASE Returned \/ UNCHANGED vars
    BY <2>0, <2>8, KeptRacers DEF Returned, vars, fixedVars, bookVars, loopVars
  <2>9. CASE BatchStep
    BY <2>0, <2>9, BatchRacers
  <2> QED
    BY <2>1, <2>2, <2>3, <2>4, <2>5, <2>6, <2>7, <2>8, <2>9 DEF Next, Loop
<1> QED
  BY <1>1, <1>2, Invariance, PTL DEF Spec

-----------------------------------------------------------------------------
(***************************************************************************)
(* How an exhausted peer comes back.                                       *)
(***************************************************************************)

\* RevivalEarned of one step.
Earned ==
    \A p \in Roster :
        Exhausted(p) /\ fails'[p] < PeerFailLimit
        => \/ remaining' # remaining /\ remaining' \subseteq remaining
           \/ ~probed[p] /\ probed'[p]

\* A refusal only adds strikes.
LEMMA BusyEarned ==
    ASSUME TypeOK, NEW p \in Peers, NoteBusy(p)
    PROVE  Earned
<1>1. fails \in [Peers -> Nat] /\ PeerFailLimit \in Nat /\ Roster \subseteq Peers
  BY ConstantsAssumption DEF TypeOK
<1>2. \A q \in Peers : fails'[q] = fails[q] \/ fails'[q] = PeerFailLimit
  BY <1>1 DEF NoteBusy
<1> QED
  BY <1>1, <1>2 DEF Earned, Exhausted

\* A failure adds a strike, or spends the one probe.
LEMMA FailedEarned ==
    ASSUME TypeOK, NEW p \in Peers, NoteFailed(p)
    PROVE  Earned
<1>1. fails \in [Peers -> Nat] /\ PeerFailLimit \in Nat /\ Roster \subseteq Peers
      /\ probed \in [Peers -> BOOLEAN]
  BY ConstantsAssumption DEF TypeOK
<1>2. CASE LastPeerProbe(p)
  <2>1. ~probed[p] /\ probed'[p]
    BY <1>1, <1>2 DEF NoteFailed, LastPeerProbe
  <2>2. \A q \in Peers \ {p} : fails'[q] = fails[q]
    BY <1>1, <1>2 DEF NoteFailed
  <2> QED
    BY <1>1, <2>1, <2>2 DEF Earned, Exhausted
<1>3. CASE ~LastPeerProbe(p)
  <2>1. \A q \in Peers : fails'[q] = IF q = p THEN fails[q] + 1 ELSE fails[q]
    BY <1>1, <1>3 DEF NoteFailed
  <2> QED
    BY <1>1, <2>1 DEF Earned, Exhausted
<1> QED
  BY <1>2, <1>3

\* A delivered batch covers groups that were needed until then.
LEMMA WonEarned ==
    ASSUME IInv, NEW b \in futs, NEW w, Won(b, w)
    PROVE  Earned
<1>1. b.groups # {} /\ b.groups \subseteq remaining
  BY DEF IInv, LedgerInv, LedgerExact
<1>2. remaining' = remaining \ b.groups
  BY DEF Won, Landed
<1> QED
  BY <1>1, <1>2 DEF Earned

LEMMA LostEarned ==
    ASSUME IInv, NEW b \in futs, NEW ref, Lost(b, ref)
    PROVE  Earned
<1>1. b.primary \in Peers /\ TypeOK
  BY DEF IInv, TypeOK, Batches
<1> QED
  BY <1>1, BusyEarned, FailedEarned DEF Lost

\* Nobody's strikes change.
LEMMA StillEarned ==
    ASSUME TypeOK, \A p \in Roster : fails'[p] = fails[p]
    PROVE  Earned
<1>1. fails \in [Peers -> Nat] /\ PeerFailLimit \in Nat /\ Roster \subseteq Peers
  BY ConstantsAssumption DEF TypeOK
<1> QED
  BY <1>1 DEF Earned, Exhausted

\* An exhausted peer comes back only by delivering needed groups or through
\* the one last-peer probe it has (Window::apply_outcome, note_failed,
\* note_busy; admit_joiner resets no slot that is in use).
THEOREM RevivalsEarned == Spec => RevivalEarned
<1>1. IInv /\ [Next]_vars => [Earned]_vars
  <2> SUFFICES ASSUME IInv, Next
               PROVE  Earned
    BY DEF vars
  <2>0. TypeOK
    BY DEF IInv
  <2>1. CASE CutSlice \/ AssignBatch \/ SplitBatch \/ EndSlice
    BY <2>0, <2>1, StillEarned
       DEF CutSlice, AssignBatch, SplitBatch, EndSlice, healthVars
  <2>2. CASE IdleAbort \/ IdleWait \/ IdleTimer
    BY <2>0, <2>2, StillEarned DEF IdleAbort, IdleWait, IdleTimer, healthVars
  <2>3. CASE WaitJoin \/ IdleJoin
    <3>1. UNCHANGED fails \/ fails' = [fails EXCEPT ![roster + 1] = 0]
      BY <2>3 DEF WaitJoin, IdleJoin, RecvHandle, RecvClosed, AdmitJoiner,
                  IgnoreJoiner, healthVars
    <3>2. roster + 1 \notin Roster /\ Roster \subseteq Peers
      BY <2>0 DEF Roster, TypeOK
    <3>3. \A p \in Roster : fails'[p] = fails[p]
      BY <2>0, <3>1, <3>2 DEF TypeOK
    <3> QED
      BY <2>0, <3>3, StillEarned
  <2>4. CASE CooldownEnds \/ StoreCommit \/ LinkTraffic \/ Dialer
    BY <2>0, <2>4, StillEarned
       DEF CooldownEnds, StoreCommit, LinkTraffic, Dialer, healthVars
  <2>5. CASE Returned
    BY <2>0, <2>5, StillEarned DEF Returned, vars, healthVars
  <2>6. CASE BatchStep
    <3>1. PICK b \in futs :
             \/ PrimaryOk(b)
             \/ PrimaryCap(b)
             \/ \E how \in {"stall", "error", "busy"} : PrimaryGivesOut(b, how)
             \/ \E w \in b.racers : RaceWon(b, w)
             \/ \E r \in b.racers : RacerErrs(b, r)
             \/ RaceDry(b)
      BY <2>6 DEF BatchStep
    <3>2. ASSUME NEW rs, NEW ref, StartRace(b, rs, ref)
          PROVE  Earned
      BY <2>0, <3>2, StillEarned DEF StartRace, healthVars
    <3>3. ASSUME NEW how \in {"stall", "error", "busy"}, PrimaryGivesOut(b, how)
          PROVE  Earned
      BY <3>2, <3>3, LostEarned, Zenon DEF PrimaryGivesOut
    <3>4. ASSUME NEW r \in b.racers, RacerErrs(b, r)
          PROVE  Earned
      BY <3>2, <3>4, LostEarned DEF RacerErrs
    <3> QED
      BY <3>1, <3>3, <3>4, WonEarned, LostEarned
         DEF PrimaryOk, PrimaryCap, RaceWon, RaceDry
  <2> QED
    BY <2>1, <2>2, <2>3, <2>4, <2>5, <2>6 DEF Next, Loop
<1> QED
  BY <1>1, Invariance, PTL DEF Spec, RevivalEarned, Earned

=============================================================================
