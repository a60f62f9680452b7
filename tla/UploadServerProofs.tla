------------------------- MODULE UploadServerProofs -------------------------
(***************************************************************************)
(* Proofs about UploadServer and the governor it asks: the permits, the    *)
(* connection counts, the unchoke set and the cap, for any peers, slots,   *)
(* requests, limits and bounds.                                            *)
(***************************************************************************)
EXTENDS UploadServer, FiniteSetTheorems, FunctionTheorems, TLAPS

(***************************************************************************)
(* The inductive invariant.                                                *)
(***************************************************************************)

\* An account that is not in the table has no connections: eviction spares
\* the connected ones, so a new account never hides an old count.
Tracked(c) == \A p \in Peers : p \notin c.tracked => c.acct[p].conns = 0

\* What CacheSound says of the governor.
Sound(c) ==
    ~c.dirty => /\ c.unchoked \subseteq Connected(c)
                /\ Cardinality(c.unchoked) <= UnchokeSlots + 1

\* The general slots are given.
Full(c) == Cardinality(c.unchoked) >= UnchokeSlots - OverlaySlots

\* A connected peer left out of the set was quiet at t, or the slots are given.
SparedAt(c, t) ==
    \A p \in Connected(c) \ c.unchoked : Full(c) \/ ~RecentlyActive(c.acct[p], t)

\* A clean set was built in its epoch, by a reading t: unless a ruling went back
\* over t, whoever it leaves out was quiet then, and a request of that peer with
\* a later reading makes the set dirty.
Spared(c, L) ==
    ~c.dirty => \E t \in 0 .. MaxTime :
                   /\ t \div Rotate = c.epoch
                   /\ t \in L \/ (t <= c.ts /\ SparedAt(c, t))

\* The request a loop holds is one it received, and is waiting.
HeldProper ==
    \A k \in Conns : held[k] # NoReq => st[held[k]] = "held" /\ conn[held[k]] = k

\* FOREGROUND_FETCHES counts the guards that are alive.
Playing == {f \in Players : player[f] \in {"raise", "in"}}
FetchesExact == fetches = Cardinality(Playing)

\* The bucket holds what was admitted in its second, unless a ruling went back
\* over it; nothing is on the books of a later second.
BucketFollows ==
    \A s \in (0 .. MaxTime) \ late :
        /\ s = choker.ts => paint[s] <= choker.bytes
        /\ s > choker.ts => paint[s] = 0

\* A handler with a clock reading is one the governor rules on.
Readings ==
    \A r \in Reqs : st[r] \in {"sized", "locked"} => shape[r].kind # "control"

\* The permits.
Booked == HeldProper /\ PermitsExact

\* The governor.
Governed ==
    /\ ConnsPaired
    /\ Tracked(choker)
    /\ CacheSound
    /\ choker.bytes <= Cap
    /\ CapHeldInOrder
    /\ BucketFollows
    /\ Spared(choker, late)
    /\ Readings

IInv == TypeOK /\ Booked /\ FetchesExact /\ Governed

-----------------------------------------------------------------------------
(***************************************************************************)
(* The governor's record.                                                  *)
(***************************************************************************)

LEMMA ChokerFields ==
    ASSUME NEW c \in Chokers
    PROVE  /\ c.tracked \subseteq Peers /\ c.acct \in [Peers -> Accounts]
           /\ c.bytes \in Nat /\ c.ts \in Nat /\ c.paused \in BOOLEAN
           /\ c.unchoked \subseteq Peers /\ c.epoch \in Nat /\ c.dirty \in BOOLEAN
BY DEF Chokers

LEMMA AccountFields ==
    ASSUME NEW a \in Accounts
    PROVE  /\ a.credit \in Nat /\ a.served \in Nat /\ a.free \in Nat
           /\ a.freeStart \in Nat /\ a.seen \in Nat /\ a.reach \in Reaches
           /\ a.conns \in Nat /\ a.active \in Nat \cup {Never}
BY DEF Accounts

LEMMA BlankFacts == Blank \in Accounts /\ Blank.conns = 0
BY DEF Blank, Accounts, Reaches, Never

\* Everything but the accounts is as it was.
OtherFields(c, d) ==
    /\ d.tracked = c.tracked /\ d.bytes = c.bytes /\ d.ts = c.ts
    /\ d.paused = c.paused /\ d.unchoked = c.unchoked /\ d.epoch = c.epoch
    /\ d.dirty = c.dirty

\* One account is replaced.
WithAcct(c, p, a) == [c EXCEPT !.acct = [c.acct EXCEPT ![p] = a]]

LEMMA AcctPut ==
    ASSUME NEW c \in Chokers, NEW p \in Peers, NEW a \in Accounts,
           NEW d, d = WithAcct(c, p, a)
    PROVE  /\ d \in Chokers /\ OtherFields(c, d)
           /\ d.acct[p] = a
           /\ \A q \in Peers : q # p => d.acct[q] = c.acct[q]
<1>1. c.acct \in [Peers -> Accounts]
  BY ChokerFields
<1>2. PICK A : A = [c.acct EXCEPT ![p] = a]
  OBVIOUS
<1>3. /\ A \in [Peers -> Accounts] /\ A[p] = a
      /\ \A q \in Peers : q # p => A[q] = c.acct[q]
  BY <1>1, <1>2
<1>4. d = [c EXCEPT !.acct = A]
  BY <1>2 DEF Chokers, WithAcct
<1>5. d \in Chokers /\ d.acct = A
  BY <1>3, <1>4 DEF Chokers
<1>6. OtherFields(c, d)
  BY <1>4 DEF Chokers, OtherFields
<1> QED
  BY <1>3, <1>5, <1>6

\* Neither a connection nor the membership of the table hangs on anything but
\* these.
LEMMA ConnectedIs ==
    ASSUME NEW c \in Chokers, Tracked(c)
    PROVE  Connected(c) = {p \in Peers : c.acct[p].conns > 0}
<1>1. \A p \in Peers : c.acct[p].conns \in Nat
  BY ChokerFields, AccountFields
<1> QED
  BY <1>1, ChokerFields DEF Connected, Tracked

LEMMA ConnectedSame ==
    ASSUME NEW c \in Chokers, Tracked(c), NEW d \in Chokers, Tracked(d),
           \A p \in Peers : d.acct[p].conns = c.acct[p].conns
    PROVE  Connected(d) = Connected(c)
BY ConnectedIs

LEMMA ConnectedFinite ==
    ASSUME NEW c \in Chokers
    PROVE  /\ IsFiniteSet(Connected(c)) /\ Cardinality(Connected(c)) \in Nat
           /\ Connected(c) \subseteq Peers
<1>1. Connected(c) \in SUBSET Peers
  BY ChokerFields DEF Connected
<1> QED
  BY <1>1, ChokerAssumption, FS_Subset, FS_CardinalityType

\* evict: it leaves only accounts of the table and takes no connected one.
LEMMA KeptFacts ==
    ASSUME NEW c \in Chokers, NEW t \in Nat, NEW K \in Kept(c, t)
    PROVE  K \subseteq c.tracked /\ \A q \in c.tracked \ K : c.acct[q].conns = 0
<1>1. \A q \in c.tracked : c.acct[q].conns \in Nat
  BY ChokerFields, AccountFields
<1>2. CASE Cardinality(c.tracked) < MaxTracked
  BY <1>2 DEF Kept
<1>3. CASE ~(Cardinality(c.tracked) < MaxTracked)
  <2> DEFINE warm == {q \in c.tracked : \/ c.acct[q].conns > 0
                                        \/ Since(t, c.acct[q].seen) < IdleEvict}
             spare == {q \in warm : c.acct[q].conns = 0}
  <2>1. \E out \in SUBSET spare : K = warm \ out
    BY <1>3 DEF Kept
  <2> QED
    BY <1>1, <2>1
<1> QED
  BY <1>2, <1>3

\* A clean record d says of connections and activity what c said.
Quiet(c, d) ==
    ~d.dirty => /\ ~c.dirty /\ d.unchoked = c.unchoked /\ d.epoch = c.epoch
                /\ \A q \in Peers : d.acct[q].active = c.acct[q].active

\* touch: no connection is lost or gained, and a record that stays clean is of
\* the same ranking.
LEMMA TouchedFacts ==
    ASSUME NEW c \in Chokers, Tracked(c), NEW p \in Peers, NEW t \in Nat,
           NEW d \in Touched(c, p, t)
    PROVE  /\ d \in Chokers /\ Tracked(d) /\ p \in d.tracked
           /\ \A q \in Peers : d.acct[q].conns = c.acct[q].conns
           /\ d.bytes = c.bytes /\ d.ts = c.ts /\ d.paused = c.paused
           /\ Quiet(c, d)
<1>1. CASE p \in c.tracked
  <2>1. PICK a : a = [c.acct[p] EXCEPT !.seen = t]
    OBVIOUS
  <2>2. a \in Accounts /\ a.conns = c.acct[p].conns /\ a.active = c.acct[p].active
    BY <2>1, ChokerFields DEF Accounts
  <2>3. d = WithAcct(c, p, a)
    BY <1>1, <2>1, ChokerFields DEF Touched, WithAcct, Chokers
  <2>4. /\ d \in Chokers /\ OtherFields(c, d)
        /\ d.acct[p] = a
        /\ \A q \in Peers : q # p => d.acct[q] = c.acct[q]
    BY <2>2, <2>3, AcctPut
  <2>5. \A q \in Peers : /\ d.acct[q].conns = c.acct[q].conns
                         /\ d.acct[q].active = c.acct[q].active
    BY <2>2, <2>4
  <2> QED
    BY <1>1, <2>4, <2>5 DEF OtherFields, Tracked, Quiet
<1>2. CASE p \notin c.tracked
  <2> DEFINE fresh == [Blank EXCEPT !.freeStart = t, !.seen = t]
  <2>1. PICK K \in Kept(c, t) :
          d = [c EXCEPT !.tracked = K \cup {p},
                        !.acct = [q \in Peers |-> IF q = p THEN fresh
                                                  ELSE IF q \in K THEN c.acct[q] ELSE Blank],
                        !.dirty = TRUE]
    BY <1>2 DEF Touched
  <2>2. fresh \in Accounts /\ fresh.conns = 0
    BY DEF Blank, Accounts, Reaches, Never
  <2> HIDE DEF fresh
  <2>3. PICK A : A = [q \in Peers |-> IF q = p THEN fresh
                                      ELSE IF q \in K THEN c.acct[q] ELSE Blank]
    OBVIOUS
  <2>4. A \in [Peers -> Accounts]
    BY <2>2, <2>3, ChokerFields, BlankFacts
  <2>5. K \subseteq c.tracked /\ \A q \in c.tracked \ K : c.acct[q].conns = 0
    BY KeptFacts
  <2>6. \A q \in Peers : A[q].conns = c.acct[q].conns
    BY <1>2, <2>2, <2>3, <2>5, BlankFacts DEF Tracked
  <2>7. d = [c EXCEPT !.tracked = K \cup {p}, !.acct = A, !.dirty = TRUE]
    BY <2>1, <2>3
  <2>8. K \cup {p} \in SUBSET Peers
    BY <2>5, ChokerFields
  <2>9. /\ d \in Chokers /\ d.tracked = K \cup {p} /\ d.acct = A /\ d.dirty
        /\ d.bytes = c.bytes /\ d.ts = c.ts /\ d.paused = c.paused
    BY <2>4, <2>7, <2>8 DEF Chokers
  <2>10. Tracked(d)
    BY <2>3, <2>9, BlankFacts DEF Tracked
  <2> QED
    BY <2>6, <2>9, <2>10 DEF Quiet
<1> QED
  BY <1>1, <1>2

\* note_connected
LEMMA NoteConnectedFacts ==
    ASSUME NEW c \in Chokers, Tracked(c), NEW p \in Peers, NEW reach \in Reaches,
           NEW t \in Nat, NEW d \in NoteConnected(c, p, reach, t)
    PROVE  /\ d \in Chokers /\ Tracked(d) /\ d.dirty
           /\ d.acct[p].conns = c.acct[p].conns + 1
           /\ \A q \in Peers : q # p => d.acct[q].conns = c.acct[q].conns
           /\ d.bytes = c.bytes /\ d.ts = c.ts
<1>1. PICK e \in Touched(c, p, t) :
         d = [e EXCEPT !.acct[p].reach = reach, !.acct[p].conns = @ + 1, !.dirty = TRUE]
  BY DEF NoteConnected
<1>2. /\ e \in Chokers /\ Tracked(e) /\ p \in e.tracked
      /\ \A q \in Peers : e.acct[q].conns = c.acct[q].conns
      /\ e.bytes = c.bytes /\ e.ts = c.ts
  BY TouchedFacts
<1>3. PICK old \in Accounts : old = e.acct[p]
  BY <1>2, ChokerFields
<1>4. PICK a : a = [old EXCEPT !.reach = reach, !.conns = @ + 1]
  OBVIOUS
<1>5. a \in Accounts /\ a.conns = old.conns + 1
  <2>1. PICK b : b = [old EXCEPT !.reach = reach]
    OBVIOUS
  <2>2. b \in Accounts /\ b.conns = old.conns
    BY <2>1 DEF Accounts
  <2>3. a = [b EXCEPT !.conns = @ + 1]
    BY <1>4, <2>1
  <2> QED
    BY <2>2, <2>3 DEF Accounts
<1>6. PICK f : f = WithAcct(e, p, a)
  OBVIOUS
<1>7. /\ f \in Chokers /\ OtherFields(e, f) /\ f.acct[p] = a
      /\ \A q \in Peers : q # p => f.acct[q] = e.acct[q]
  BY <1>2, <1>5, <1>6, AcctPut, SMTT(30)
<1>8. d = [f EXCEPT !.dirty = TRUE]
  BY <1>1, <1>2, <1>3, <1>4, <1>6, ChokerFields, ZenonT(60) DEF WithAcct, Chokers, Accounts
<1>9. /\ d \in Chokers /\ d.acct = f.acct /\ d.tracked = f.tracked /\ d.dirty
      /\ d.bytes = f.bytes /\ d.ts = f.ts
  BY <1>7, <1>8 DEF Chokers
<1> QED
  BY <1>2, <1>3, <1>5, <1>7, <1>9 DEF OtherFields, Tracked

\* note_disconnected
LEMMA NoteDisconnectedFacts ==
    ASSUME NEW c \in Chokers, Tracked(c), NEW p \in Peers,
           NEW t \in Nat, NEW d \in NoteDisconnected(c, p, t)
    PROVE  /\ d \in Chokers /\ Tracked(d) /\ d.dirty
           /\ d.acct[p].conns = IF c.acct[p].conns = 0 THEN 0
                               ELSE c.acct[p].conns - 1
           /\ \A q \in Peers : q # p => d.acct[q].conns = c.acct[q].conns
           /\ d.bytes = c.bytes /\ d.ts = c.ts
<1>1. PICK e \in Touched(c, p, t) :
         d = [e EXCEPT !.acct[p].conns = IF @ = 0 THEN 0 ELSE @ - 1, !.dirty = TRUE]
  BY DEF NoteDisconnected
<1>2. /\ e \in Chokers /\ Tracked(e) /\ p \in e.tracked
      /\ \A q \in Peers : e.acct[q].conns = c.acct[q].conns
      /\ e.bytes = c.bytes /\ e.ts = c.ts
  BY TouchedFacts
<1>3. PICK old \in Accounts : old = e.acct[p]
  BY <1>2, ChokerFields
<1>4. PICK a : a = [old EXCEPT !.conns = IF @ = 0 THEN 0 ELSE @ - 1]
  OBVIOUS
<1>5. a \in Accounts /\ a.conns = IF old.conns = 0 THEN 0 ELSE old.conns - 1
  BY <1>4 DEF Accounts
<1>6. PICK f : f = WithAcct(e, p, a)
  OBVIOUS
<1>7. /\ f \in Chokers /\ OtherFields(e, f) /\ f.acct[p] = a
      /\ \A q \in Peers : q # p => f.acct[q] = e.acct[q]
  BY <1>2, <1>5, <1>6, AcctPut
<1>8. d = [f EXCEPT !.dirty = TRUE]
  BY <1>1, <1>2, <1>3, <1>4, <1>6, ChokerFields DEF WithAcct, Chokers, Accounts
<1>9. /\ d \in Chokers /\ d.acct = f.acct /\ d.tracked = f.tracked /\ d.dirty
      /\ d.bytes = f.bytes /\ d.ts = f.ts
  BY <1>7, <1>8 DEF Chokers
<1> QED
  BY <1>2, <1>3, <1>5, <1>7, <1>9 DEF OtherFields, Tracked

\* credit
LEMMA CreditPeerFacts ==
    ASSUME NEW c \in Chokers, Tracked(c), NEW p \in Peers, NEW b \in Nat,
           NEW t \in Nat, NEW d \in CreditPeer(c, p, b, t)
    PROVE  /\ d \in Chokers /\ Tracked(d) /\ d.dirty
           /\ d.acct[p].conns = c.acct[p].conns
           /\ \A q \in Peers : q # p => d.acct[q].conns = c.acct[q].conns
           /\ d.bytes = c.bytes /\ d.ts = c.ts
<1>1. PICK e \in Touched(c, p, t) :
         d = [e EXCEPT !.acct[p].credit = @ + b, !.acct[p].active = t, !.dirty = TRUE]
  BY DEF CreditPeer
<1>2. /\ e \in Chokers /\ Tracked(e) /\ p \in e.tracked
      /\ \A q \in Peers : e.acct[q].conns = c.acct[q].conns
      /\ e.bytes = c.bytes /\ e.ts = c.ts
  BY TouchedFacts
<1>3. PICK old \in Accounts : old = e.acct[p]
  BY <1>2, ChokerFields
<1>4. PICK a : a = [old EXCEPT !.credit = @ + b, !.active = t]
  OBVIOUS
<1>5. a \in Accounts /\ a.conns = old.conns
  <2>1. PICK x : x = [old EXCEPT !.credit = @ + b]
    OBVIOUS
  <2>2. x \in Accounts /\ x.conns = old.conns
    BY <2>1 DEF Accounts
  <2>3. a = [x EXCEPT !.active = t]
    BY <1>4, <2>1
  <2> QED
    BY <2>2, <2>3 DEF Accounts
<1>6. PICK f : f = WithAcct(e, p, a)
  OBVIOUS
<1>7. /\ f \in Chokers /\ OtherFields(e, f) /\ f.acct[p] = a
      /\ \A q \in Peers : q # p => f.acct[q] = e.acct[q]
  BY <1>2, <1>5, <1>6, AcctPut, SMTT(30)
<1>8. d = [f EXCEPT !.dirty = TRUE]
  BY <1>1, <1>2, <1>3, <1>4, <1>6, ChokerFields DEF WithAcct, Chokers, Accounts
<1>9. /\ d \in Chokers /\ d.acct = f.acct /\ d.tracked = f.tracked /\ d.dirty
      /\ d.bytes = f.bytes /\ d.ts = f.ts
  BY <1>7, <1>8 DEF Chokers
<1> QED
  BY <1>2, <1>3, <1>5, <1>7, <1>9 DEF OtherFields, Tracked

-----------------------------------------------------------------------------
(***************************************************************************)
(* The unchoke set.                                                        *)
(***************************************************************************)

\* R ranks the members of S without ties.
Ranks(R, S) ==
    /\ \A p \in S : <<p, p>> \notin R
    /\ \A p, q, r \in S : <<p, q>> \in R /\ <<q, r>> \in R => <<p, r>> \in R
    /\ \A p, q \in S : p # q => <<p, q>> \in R \/ <<q, p>> \in R

\* No two members have the same number of better ones.
LEMMA RanksApart ==
    ASSUME NEW S, IsFiniteSet(S), NEW R, Ranks(R, S)
    PROVE  /\ \A p \in S : Cardinality({q \in S : <<q, p>> \in R}) \in Nat
           /\ \A p, q \in S : Cardinality({x \in S : <<x, p>> \in R})
                                 = Cardinality({x \in S : <<x, q>> \in R}) => p = q
<1> DEFINE above(p) == {x \in S : <<x, p>> \in R}
<1>1. \A p : above(p) \in SUBSET S
  OBVIOUS
<1> HIDE DEF above
<1>2. \A p : IsFiniteSet(above(p)) /\ Cardinality(above(p)) \in Nat
  BY <1>1, FS_Subset, FS_CardinalityType
<1>3. ASSUME NEW p \in S, NEW q \in S, <<p, q>> \in R
      PROVE  Cardinality(above(p)) # Cardinality(above(q))
  <2>1. above(p) \in SUBSET above(q) /\ p \in above(q) /\ p \notin above(p)
    BY <1>3 DEF above, Ranks
  <2> QED
    BY <1>2, <2>1, FS_Subset
<1>4. \A p, q \in S : Cardinality(above(p)) = Cardinality(above(q)) => p = q
  BY <1>3 DEF Ranks
<1> QED
  BY <1>2, <1>4 DEF above

\* How many members of S are ahead of p.
Ahead(R, S, p) == Cardinality({q \in S : <<q, p>> \in R})

\* Members with fewer than n ahead of them are at most n.
LEMMA FewBest ==
    ASSUME NEW S, IsFiniteSet(S), NEW R, Ranks(R, S), NEW n \in Nat, NEW T,
           \A p \in T : p \in S /\ Ahead(R, S, p) < n
    PROVE  IsFiniteSet(T) /\ Cardinality(T) <= n
<1> DEFINE rank == [p \in T |-> Cardinality({q \in S : <<q, p>> \in R})]
<1>1. \A p \in T : p \in S /\ rank[p] \in 0 .. (n - 1)
  <2>1. \A p \in T : p \in S /\ rank[p] \in Nat /\ rank[p] < n
    BY RanksApart DEF Ahead
  <2> HIDE DEF rank
  <2> QED
    BY <2>1
<1>2. \A p, q \in T : rank[p] = rank[q] => p = q
  BY RanksApart
<1>3. DOMAIN rank = T
  OBVIOUS
<1>4. rank = [p \in T |-> rank[p]]
  OBVIOUS
<1> HIDE DEF rank
<1>5. rank \in Injection(T, 0 .. (n - 1))
  BY <1>1, <1>2, <1>3, <1>4 DEF Injection, IsInjective
<1>6. IsFiniteSet(0 .. (n - 1)) /\ Cardinality(0 .. (n - 1)) = n
  <2>1. 0 \in Int /\ n - 1 \in Int
    OBVIOUS
  <2>2. IsFiniteSet(0 .. (n - 1))
        /\ Cardinality(0 .. (n - 1)) = IF 0 > n - 1 THEN 0 ELSE (n - 1) - 0 + 1
    BY <2>1, FS_Interval
  <2> QED
    BY <2>2
<1> QED
  BY <1>5, <1>6, FS_Injection

\* When some member has n ahead of it, n members have fewer than n ahead: the
\* ones ahead of the best of the others.
LEMMA ManyBest ==
    ASSUME NEW S, IsFiniteSet(S), NEW R, Ranks(R, S), NEW n \in Nat, NEW T \in SUBSET S,
           \A p \in S : Ahead(R, S, p) < n => p \in T,
           NEW x \in S, ~(Ahead(R, S, x) < n)
    PROVE  Cardinality(T) >= n
<1> DEFINE above(p) == {q \in S : <<q, p>> \in R}
           Out == {p \in S : ~(Ahead(R, S, p) < n)}
           Counts == {Ahead(R, S, p) : p \in Out}
           Less == {ss \in Nat \X Nat : ss[1] < ss[2]}
<1>1. \A p \in S : Ahead(R, S, p) \in Nat /\ Ahead(R, S, p) = Cardinality(above(p))
  BY RanksApart DEF Ahead
<1>2. IsWellFoundedOn(Less, Nat)
  BY NatLessThanWellFounded DEF OpToRel
<1>3. x \in Out /\ Counts # {} /\ Counts \subseteq Nat
  BY <1>1
<1>4. PICK m \in Counts : \A k \in Counts : <<k, m>> \notin Less
  <2> HIDE DEF Less, Counts
  <2> QED
    BY <1>2, <1>3, WFMin
<1>5. PICK y \in Out : m = Ahead(R, S, y)
  BY <1>4
<1>6. y \in S /\ ~(Ahead(R, S, y) < n)
  BY <1>5
<1>7. above(y) \in SUBSET T
  <2> SUFFICES ASSUME NEW q \in above(y), q \notin T
               PROVE  FALSE
    OBVIOUS
  <2>1. q \in S /\ <<q, y>> \in R /\ q \in Out
    OBVIOUS
  <2>2. above(q) \in SUBSET above(y) /\ q \notin above(q) /\ above(y) \in SUBSET S
    BY <1>6, <2>1 DEF Ranks
  <2>3. Cardinality(above(q)) <= Cardinality(above(y))
        /\ Cardinality(above(q)) # Cardinality(above(y))
    <3> HIDE DEF above
    <3>1. IsFiniteSet(above(y))
      BY <2>2, FS_Subset
    <3> QED
      BY <2>2, <3>1, FS_Subset
  <2>4. Ahead(R, S, q) < Ahead(R, S, y)
    <3> HIDE DEF above
    <3> QED
      BY <1>1, <1>6, <2>1, <2>3
  <2>5. Ahead(R, S, q) \in Counts /\ Ahead(R, S, q) \in Nat /\ m \in Nat
    BY <1>1, <1>3, <1>4, <2>1
  <2>6. <<Ahead(R, S, q), m>> \in Less
    BY <1>5, <2>4, <2>5
  <2> HIDE DEF Counts, Less
  <2> QED
    BY <1>4, <2>5, <2>6
<1> HIDE DEF above, Out, Counts, Less
<1>8. IsFiniteSet(T) /\ Cardinality(above(y)) <= Cardinality(T)
  BY <1>7, FS_Subset
<1>9. Cardinality(T) \in Nat
  BY <1>8, FS_CardinalityType
<1> QED
  BY <1>1, <1>6, <1>8, <1>9

\* Members with equally many better ones are one.
LEMMA OneAtRank ==
    ASSUME NEW S, IsFiniteSet(S), NEW R, Ranks(R, S), NEW T \in SUBSET S,
           \A p, q \in T : Cardinality({x \in S : <<x, p>> \in R})
                             = Cardinality({x \in S : <<x, q>> \in R})
    PROVE  IsFiniteSet(T) /\ Cardinality(T) <= 1
<1> DEFINE above(p) == {x \in S : <<x, p>> \in R}
<1>1. \A p, q \in T : p = q
  <2>1. \A p, q \in S : Cardinality(above(p)) = Cardinality(above(q)) => p = q
    BY RanksApart
  <2>2. \A p, q \in T : Cardinality(above(p)) = Cardinality(above(q))
    OBVIOUS
  <2> HIDE DEF above
  <2> QED
    BY <2>1, <2>2
<1>2. CASE T = {}
  <2>1. IsFiniteSet(T) /\ Cardinality(T) = 0
    BY <1>2, FS_EmptySet
  <2> QED
    BY <2>1
<1>3. CASE T # {}
  <2>1. PICK x : x \in T
    BY <1>3
  <2>2. T = {x}
    BY <1>1, <2>1
  <2>3. IsFiniteSet(T) /\ Cardinality(T) = 1
    BY <2>2, FS_Singleton
  <2> QED
    BY <2>3
<1> QED
  BY <1>2, <1>3

\* The ranking by credit and bytes served, and the order by key.
Better(c) ==
    {x \in Peers \X Peers :
        LET a == c.acct[x[1]]
            b == c.acct[x[2]]
        IN  \/ a.credit > b.credit
            \/ a.credit = b.credit /\ a.served < b.served
            \/ a.credit = b.credit /\ a.served = b.served /\ x[1] < x[2]}
KeyOrder == {x \in Peers \X Peers : x[1] < x[2]}

LEMMA BetterRanks ==
    ASSUME NEW c \in Chokers, NEW S \in SUBSET Peers
    PROVE  Ranks(Better(c), S)
<1>1. \A p \in S : p \in Nat /\ c.acct[p].credit \in Nat /\ c.acct[p].served \in Nat
  BY ChokerFields, AccountFields, ChokerAssumption
<1> DEFINE cr(p) == c.acct[p].credit
           se(p) == c.acct[p].served
           before(p, q) == \/ cr(p) > cr(q)
                           \/ cr(p) = cr(q) /\ se(p) < se(q)
                           \/ cr(p) = cr(q) /\ se(p) = se(q) /\ p < q
<1>2. \A p, q \in S : <<p, q>> \in Better(c) <=> before(p, q)
  BY DEF Better
<1>3. \A p \in S : p \in Nat /\ cr(p) \in Nat /\ se(p) \in Nat
  BY <1>1
<1> HIDE DEF cr, se
<1>4. \A p \in S : ~before(p, p)
  BY <1>3
<1>5. \A p, q, r \in S : before(p, q) /\ before(q, r) => before(p, r)
  BY <1>3
<1>6. \A p, q \in S : p # q => before(p, q) \/ before(q, p)
  BY <1>3
<1> HIDE DEF before
<1> QED
  BY <1>2, <1>4, <1>5, <1>6 DEF Ranks

LEMMA KeyRanks ==
    ASSUME NEW S \in SUBSET Peers
    PROVE  Ranks(KeyOrder, S)
<1>1. \A p \in S : p \in Nat /\ p \in Peers
  BY ChokerAssumption
<1>2. \A p, q \in S : <<p, q>> \in KeyOrder <=> p < q
  BY <1>1 DEF KeyOrder
<1>3. /\ \A p \in S : ~(p < p)
      /\ \A p, q, r \in S : p < q /\ q < r => p < r
      /\ \A p, q \in S : p # q => p < q \/ q < p
  BY <1>1
<1> QED
  BY <1>2, <1>3 DEF Ranks

\* rebuild_unchoked: the slots are kept, and a recently active peer is left out
\* only when others fill them.
LEMMA RebuiltFacts ==
    ASSUME NEW c \in Chokers, Tracked(c), NEW epoch \in Nat, NEW t \in Nat,
           NEW d, d = RebuildUnchoked(c, epoch, t)
    PROVE  /\ d \in Chokers /\ Tracked(d) /\ ~d.dirty
           /\ d.acct = c.acct /\ d.tracked = c.tracked
           /\ d.bytes = c.bytes /\ d.ts = c.ts /\ d.paused = c.paused
           /\ d.epoch = epoch /\ Sound(d) /\ SparedAt(d, t)
<1> DEFINE ranked == {p \in Connected(c) : RecentlyActive(c.acct[p], t)}
           Before(p, q) ==
              LET a == c.acct[p]  b == c.acct[q] IN
              \/ a.credit > b.credit
              \/ a.credit = b.credit /\ a.served < b.served
              \/ a.credit = b.credit /\ a.served = b.served /\ p < q
           over == {p \in ranked : c.acct[p].reach = "overlay"}
           overlay == {p \in over : Cardinality({q \in over : Before(q, p)}) < OverlaySlots}
           rest == ranked \ overlay
           general == {p \in rest : Cardinality({q \in rest : Before(q, p)})
                                       < UnchokeSlots - OverlaySlots}
           m == epoch % Cardinality(Connected(c))
           optimistic == {p \in Connected(c) : Cardinality({q \in Connected(c) : q < p}) = m}
           U == overlay \cup general \cup optimistic
<1>1. d = [c EXCEPT !.unchoked = U, !.epoch = epoch, !.dirty = FALSE]
  BY DEF RebuildUnchoked, Best
<1>2. IsFiniteSet(Connected(c)) /\ Connected(c) \in SUBSET Peers
  BY ConnectedFinite
<1>3. /\ over \in SUBSET Connected(c) /\ rest \in SUBSET Connected(c)
      /\ over \in SUBSET Peers /\ rest \in SUBSET Peers
      /\ U \in SUBSET Connected(c) /\ U \in SUBSET Peers
  BY <1>2
<1>4. IsFiniteSet(over) /\ IsFiniteSet(rest)
  BY <1>2, <1>3, FS_Subset
<1>5. \A p, q \in Peers : Before(q, p) <=> <<q, p>> \in Better(c)
  BY DEF Better
<1>6. Ranks(Better(c), over) /\ Ranks(Better(c), rest) /\ Ranks(KeyOrder, Connected(c))
  BY <1>2, <1>3, BetterRanks, KeyRanks
<1>7. OverlaySlots \in Nat /\ UnchokeSlots - OverlaySlots \in Nat /\ UnchokeSlots \in Nat
  BY ChokerAssumption
<1>8. IsFiniteSet(overlay) /\ Cardinality(overlay) <= OverlaySlots
  <2>1. \A p \in over : {q \in over : Before(q, p)} = {q \in over : <<q, p>> \in Better(c)}
    BY <1>3, <1>5
  <2>2. \A p \in overlay : p \in over /\ Ahead(Better(c), over, p) < OverlaySlots
    BY <2>1 DEF Ahead
  <2> HIDE DEF over, overlay
  <2> QED
    BY <1>4, <1>6, <1>7, <2>2, FewBest
<1>9. IsFiniteSet(general) /\ Cardinality(general) <= UnchokeSlots - OverlaySlots
  <2>1. \A p \in rest : {q \in rest : Before(q, p)} = {q \in rest : <<q, p>> \in Better(c)}
    BY <1>3, <1>5
  <2>2. PICK n \in Nat : n = UnchokeSlots - OverlaySlots
    BY <1>7
  <2>3. \A p \in general : p \in rest /\ Ahead(Better(c), rest, p) < n
    BY <2>1, <2>2 DEF Ahead
  <2> HIDE DEF rest, general
  <2>4. IsFiniteSet(general) /\ Cardinality(general) <= n
    BY <1>4, <1>6, <2>3, FewBest
  <2> QED
    BY <2>2, <2>4
<1>10. IsFiniteSet(optimistic) /\ Cardinality(optimistic) <= 1
  <2>1. \A p \in Connected(c) : {q \in Connected(c) : q < p}
                                   = {q \in Connected(c) : <<q, p>> \in KeyOrder}
    BY <1>2 DEF KeyOrder
  <2>2. optimistic = {p \in Connected(c) :
                         Cardinality({q \in Connected(c) : <<q, p>> \in KeyOrder}) = m}
    BY <2>1
  <2> HIDE DEF optimistic, m
  <2>3. /\ optimistic \in SUBSET Connected(c)
        /\ \A p, r \in optimistic :
              Cardinality({q \in Connected(c) : <<q, p>> \in KeyOrder})
                 = Cardinality({q \in Connected(c) : <<q, r>> \in KeyOrder})
    BY <2>2
  <2> QED
    BY <1>2, <1>6, <2>3, OneAtRank
<1>11. \A p \in ranked \ U : Cardinality(U) >= UnchokeSlots - OverlaySlots
  <2> SUFFICES ASSUME NEW p \in ranked \ U
               PROVE  Cardinality(U) >= UnchokeSlots - OverlaySlots
    OBVIOUS
  <2>1. PICK n \in Nat : n = UnchokeSlots - OverlaySlots
    BY <1>7
  <2>2. \A q \in rest : {x \in rest : Before(x, q)} = {x \in rest : <<x, q>> \in Better(c)}
    BY <1>3, <1>5
  <2>3. /\ p \in rest /\ ~(Ahead(Better(c), rest, p) < n)
        /\ \A q \in rest : Ahead(Better(c), rest, q) < n => q \in general
        /\ general \in SUBSET rest
    BY <2>1, <2>2 DEF Ahead
  <2>4. Cardinality(general) >= n
    <3> HIDE DEF rest, general
    <3> QED
      BY <1>4, <1>6, <2>3, ManyBest
  <2>5. general \in SUBSET U
    OBVIOUS
  <2> HIDE DEF general, U
  <2>6. IsFiniteSet(U) /\ Cardinality(general) <= Cardinality(U)
    BY <1>2, <1>3, <2>5, FS_Subset
  <2>7. Cardinality(U) \in Nat /\ Cardinality(general) \in Nat
    BY <1>9, <2>6, FS_CardinalityType
  <2> QED
    BY <2>1, <2>4, <2>6, <2>7
<1>12. Cardinality(U) <= UnchokeSlots + 1
  <2> HIDE DEF overlay, general, optimistic
  <2>1. PICK V : V = overlay \cup general
    OBVIOUS
  <2>2. IsFiniteSet(V) /\ Cardinality(V) <= UnchokeSlots /\ Cardinality(V) \in Nat
    <3>1. /\ IsFiniteSet(overlay \cap general)
          /\ Cardinality(overlay) \in Nat /\ Cardinality(general) \in Nat
      BY <1>8, <1>9, FS_Intersection, FS_CardinalityType
    <3>2. /\ IsFiniteSet(V)
          /\ Cardinality(V) = Cardinality(overlay) + Cardinality(general)
                                 - Cardinality(overlay \cap general)
      BY <1>8, <1>9, <2>1, FS_Union
    <3>3. Cardinality(overlay \cap general) \in Nat /\ Cardinality(V) \in Nat
      BY <3>1, <3>2, FS_CardinalityType
    <3> QED
      BY <1>7, <1>8, <1>9, <3>1, <3>2, <3>3
  <2>3. U = V \cup optimistic
    BY <2>1
  <2>4. /\ Cardinality(U) = Cardinality(V) + Cardinality(optimistic)
                               - Cardinality(V \cap optimistic)
        /\ IsFiniteSet(V \cap optimistic)
    BY <1>10, <2>2, <2>3, FS_Union, FS_Intersection
  <2>5. Cardinality(V \cap optimistic) \in Nat /\ Cardinality(optimistic) \in Nat
    BY <1>10, <2>4, FS_CardinalityType
  <2> HIDE DEF U
  <2> QED
    BY <1>7, <1>10, <2>2, <2>4, <2>5
<1> HIDE DEF U
<1>13. /\ d \in Chokers /\ ~d.dirty /\ d.unchoked = U /\ d.epoch = epoch
       /\ d.acct = c.acct /\ d.tracked = c.tracked
       /\ d.bytes = c.bytes /\ d.ts = c.ts /\ d.paused = c.paused
  BY <1>1, <1>3 DEF Chokers
<1>14. Connected(d) = Connected(c) /\ Tracked(d)
  BY <1>13 DEF Connected, Tracked
<1>15. Sound(d)
  BY <1>3, <1>12, <1>13, <1>14 DEF Sound
<1>16. SparedAt(d, t)
  BY <1>11, <1>13, <1>14 DEF SparedAt, Full
<1> QED
  BY <1>13, <1>14, <1>15, <1>16


-----------------------------------------------------------------------------
(***************************************************************************)
(* decide.                                                                 *)
(***************************************************************************)

\* d ranks the peers as c does: the counters alone differ.
Keeps(c, d) ==
    /\ d.tracked = c.tracked /\ d.unchoked = c.unchoked /\ d.epoch = c.epoch
    /\ d.dirty = c.dirty
    /\ \A q \in Peers : /\ d.acct[q].conns = c.acct[q].conns
                        /\ d.acct[q].active = c.acct[q].active

LEMMA KeepsFacts ==
    ASSUME NEW c \in Chokers, NEW d \in Chokers, Keeps(c, d)
    PROVE  /\ Connected(d) = Connected(c)
           /\ Tracked(c) => Tracked(d)
           /\ Sound(c) => Sound(d)
           /\ d.ts = c.ts => \A L : Spared(c, L) => Spared(d, L)
<1>1. Connected(d) = Connected(c)
  BY ChokerFields DEF Keeps, Connected
<1>2. Tracked(c) => Tracked(d)
  BY DEF Keeps, Tracked
<1>3. Sound(c) => Sound(d)
  BY <1>1 DEF Keeps, Sound
<1>4. ASSUME d.ts = c.ts, NEW L, Spared(c, L)
      PROVE  Spared(d, L)
  <2>1. \A t : \A q \in Peers :
           RecentlyActive(d.acct[q], t) <=> RecentlyActive(c.acct[q], t)
    BY DEF Keeps, RecentlyActive
  <2>2. \A t : SparedAt(c, t) => SparedAt(d, t)
    BY <1>1, <2>1, ConnectedFinite DEF Keeps, SparedAt, Full
  <2> QED
    BY <1>4, <2>2 DEF Keeps, Spared
<1> QED
  BY <1>1, <1>2, <1>3, <1>4

LEMMA KeepsTrans ==
    ASSUME NEW c, NEW d, NEW e, Keeps(c, d), Keeps(d, e)
    PROVE  Keeps(c, e)
BY DEF Keeps

LEMMA JustActive ==
    ASSUME NEW a, NEW t \in Nat, a.active = t
    PROVE  RecentlyActive(a, t)
BY ChokerAssumption DEF RecentlyActive, Since, Never

\* The activity stamp: the record is clean after it only when the peer was
\* already counted as active, so the ranking it was built from still holds.
LEMMA StampFacts ==
    ASSUME NEW c \in Chokers, NEW p \in Peers, NEW t \in Nat,
           NEW d, d = StampActive(c, p, t)
    PROVE  /\ d \in Chokers /\ d.tracked = c.tracked /\ d.unchoked = c.unchoked
           /\ d.epoch = c.epoch
           /\ d.bytes = c.bytes /\ d.ts = c.ts /\ d.paused = c.paused
           /\ d.acct[p].active = t
           /\ \A q \in Peers : /\ d.acct[q].conns = c.acct[q].conns
                               /\ q # p => d.acct[q] = c.acct[q]
           /\ ~d.dirty => ~c.dirty /\ RecentlyActive(c.acct[p], t)
<1>1. PICK old \in Accounts : old = c.acct[p]
  BY ChokerFields
<1>2. PICK a : a = [old EXCEPT !.active = t]
  OBVIOUS
<1>3. a \in Accounts /\ a.conns = old.conns /\ a.active = t
  BY <1>2 DEF Accounts
<1>4. PICK f : f = WithAcct(c, p, a)
  OBVIOUS
<1>5. /\ f \in Chokers /\ OtherFields(c, f) /\ f.acct[p] = a
      /\ \A q \in Peers : q # p => f.acct[q] = c.acct[q]
  BY <1>3, <1>4, AcctPut
<1>6. PICK w \in BOOLEAN : w = (c.dirty \/ ~RecentlyActive(c.acct[p], t))
  OBVIOUS
<1>7. d = [f EXCEPT !.dirty = w]
  BY <1>1, <1>2, <1>4, <1>6, ChokerFields DEF StampActive, WithAcct, Chokers, Accounts
<1>8. /\ d \in Chokers /\ d.tracked = f.tracked /\ d.unchoked = f.unchoked
      /\ d.bytes = f.bytes /\ d.ts = f.ts /\ d.paused = f.paused /\ d.acct = f.acct
      /\ d.epoch = f.epoch /\ d.dirty = w
  BY <1>5, <1>7 DEF Chokers
<1> QED
  BY <1>1, <1>3, <1>5, <1>6, <1>8 DEF OtherFields

\* touch and stamp together, against the record decide was called with.
LEMMA WokenFacts ==
    ASSUME NEW c \in Chokers, Tracked(c), NEW p \in Peers, NEW t \in Nat,
           NEW e \in Touched(c, p, t), NEW d, d = StampActive(e, p, t)
    PROVE  /\ d \in Chokers /\ Tracked(d) /\ Connected(d) = Connected(c)
           /\ \A q \in Peers : d.acct[q].conns = c.acct[q].conns
           /\ d.acct[p].active = t
           /\ d.bytes = c.bytes /\ d.ts = c.ts /\ d.paused = c.paused
           /\ Sound(c) => Sound(d)
           /\ ~d.dirty => /\ ~c.dirty /\ d.unchoked = c.unchoked /\ d.epoch = c.epoch
                          /\ RecentlyActive(c.acct[p], t)
                          /\ \A q \in Peers : q # p => d.acct[q].active = c.acct[q].active
<1>1. /\ e \in Chokers /\ Tracked(e) /\ Quiet(c, e)
      /\ \A q \in Peers : e.acct[q].conns = c.acct[q].conns
      /\ e.bytes = c.bytes /\ e.ts = c.ts /\ e.paused = c.paused
  BY TouchedFacts
<1>2. /\ d \in Chokers /\ d.tracked = e.tracked /\ d.unchoked = e.unchoked
      /\ d.epoch = e.epoch
      /\ d.bytes = e.bytes /\ d.ts = e.ts /\ d.paused = e.paused
      /\ d.acct[p].active = t
      /\ \A q \in Peers : /\ d.acct[q].conns = e.acct[q].conns
                          /\ q # p => d.acct[q] = e.acct[q]
      /\ ~d.dirty => ~e.dirty /\ RecentlyActive(e.acct[p], t)
  BY <1>1, StampFacts
<1>3. \A q \in Peers : d.acct[q].conns = c.acct[q].conns
  BY <1>1, <1>2
<1>4. Tracked(d)
  BY <1>1, <1>2 DEF Tracked
<1>5. Connected(d) = Connected(c)
  BY <1>2, <1>3, <1>4, ConnectedSame
<1>6. ~d.dirty => ~c.dirty /\ d.unchoked = c.unchoked
  BY <1>1, <1>2 DEF Quiet
<1>7. Sound(c) => Sound(d)
  BY <1>5, <1>6 DEF Sound
<1>8. ASSUME ~d.dirty
      PROVE  /\ d.epoch = c.epoch /\ RecentlyActive(c.acct[p], t)
             /\ \A q \in Peers : q # p => d.acct[q].active = c.acct[q].active
  <2>1. /\ e.epoch = c.epoch
        /\ \A q \in Peers : e.acct[q].active = c.acct[q].active
    BY <1>1, <1>2, <1>8 DEF Quiet
  <2>2. RecentlyActive(e.acct[p], t)
    BY <1>2, <1>8
  <2> QED
    BY <1>2, <2>1, <2>2 DEF RecentlyActive
<1> QED
  BY <1>1, <1>2, <1>3, <1>4, <1>5, <1>6, <1>7, <1>8

\* The bucket of second t holds what was admitted in it.
Base(c, t) == IF c.ts = t THEN c.bytes ELSE 0

LEMMA RollBucketFacts ==
    ASSUME NEW c \in Chokers, NEW t \in Nat, NEW d, d = RollBucket(c, t)
    PROVE  /\ d \in Chokers /\ Keeps(c, d) /\ d.ts = t /\ d.bytes = Base(c, t)
           /\ d.acct = c.acct
<1>1. CASE t = c.ts
  BY <1>1 DEF RollBucket, Keeps, Base
<1>2. CASE t # c.ts
  <2>1. PICK e : e = [c EXCEPT !.ts = t]
    OBVIOUS
  <2>2. e \in Chokers /\ Keeps(c, e) /\ e.ts = t /\ e.acct = c.acct
    BY <2>1 DEF Chokers, Keeps
  <2>3. d = [e EXCEPT !.bytes = 0]
    BY <1>2, <2>1 DEF RollBucket
  <2>4. d \in Chokers /\ Keeps(e, d) /\ d.ts = t /\ d.bytes = 0 /\ d.acct = e.acct
    BY <2>2, <2>3 DEF Chokers, Keeps
  <2> QED
    BY <1>2, <2>2, <2>4, KeepsTrans DEF Base
<1> QED
  BY <1>1, <1>2

\* A peer that is active at a reading was active at every earlier one.
LEMMA ActiveBefore ==
    ASSUME NEW a \in Accounts, NEW t \in Nat, NEW b \in Nat, b <= t,
           RecentlyActive(a, t)
    PROVE  RecentlyActive(a, b)
<1>1. PICK n \in Nat \cup {Never} : n = a.active
  BY AccountFields
<1>2. n # Never /\ n \in Nat /\ ActiveWindow \in Nat
  BY <1>1, ChokerAssumption DEF RecentlyActive
<1>3. Since(t, n) <= ActiveWindow => Since(b, n) <= ActiveWindow
  BY <1>2 DEF Since
<1> QED
  BY <1>1, <1>2, <1>3 DEF RecentlyActive

\* The seconds a ruling by the reading t goes back over.
Over(c, t) == {s \in 0 .. MaxTime : t <= s /\ s <= c.ts /\ t < c.ts}

\* A set that is still clean after the request was stamped and the bucket rolled
\* leaves out no peer it should not: the requester was active by the later
\* reading, so it was when the set was built.
LEMMA SparedOnward ==
    ASSUME NEW c \in Chokers, Tracked(c), NEW p \in Peers, NEW t \in 0 .. MaxTime,
           NEW e \in Touched(c, p, t), NEW a, a = StampActive(e, p, t),
           NEW d, d = RollBucket(a, t), NEW L, Spared(c, L)
    PROVE  Spared(d, L \cup Over(c, t))
<1>0. t \in Nat /\ MaxTime \in Nat /\ c.ts \in Nat
  BY ServerAssumption, ChokerFields
<1>1. /\ a \in Chokers /\ Connected(a) = Connected(c) /\ Tracked(a)
      /\ ~a.dirty => /\ ~c.dirty /\ a.unchoked = c.unchoked /\ a.epoch = c.epoch
                     /\ RecentlyActive(c.acct[p], t)
                     /\ \A q \in Peers : q # p => a.acct[q].active = c.acct[q].active
  BY <1>0, WokenFacts
<1>2. d \in Chokers /\ Keeps(a, d) /\ d.ts = t /\ d.acct = a.acct
  BY <1>0, <1>1, RollBucketFacts
<1>3. Connected(d) = Connected(c)
  BY <1>1, <1>2, KeepsFacts
<1> SUFFICES ASSUME ~d.dirty
             PROVE  \E b \in 0 .. MaxTime :
                       /\ b \div Rotate = d.epoch
                       /\ b \in L \cup Over(c, t) \/ (b <= d.ts /\ SparedAt(d, b))
  BY DEF Spared
<1>4. /\ ~a.dirty /\ ~c.dirty /\ d.unchoked = c.unchoked /\ d.epoch = c.epoch
      /\ RecentlyActive(c.acct[p], t)
      /\ \A q \in Peers : q # p => d.acct[q].active = c.acct[q].active
  BY <1>1, <1>2 DEF Keeps
<1>5. PICK b \in 0 .. MaxTime : /\ b \div Rotate = c.epoch
                                /\ b \in L \/ (b <= c.ts /\ SparedAt(c, b))
  BY <1>4 DEF Spared
<1>6. CASE b \in L \cup Over(c, t)
  BY <1>4, <1>5, <1>6
<1>7. CASE b \notin L \cup Over(c, t)
  <2>1. b \in Nat /\ b <= c.ts /\ SparedAt(c, b) /\ b \notin Over(c, t)
    BY <1>0, <1>5, <1>7
  <2>2. b <= t
    BY <1>0, <2>1 DEF Over
  <2>3. ASSUME NEW q \in Connected(d) \ d.unchoked
        PROVE  Full(d) \/ ~RecentlyActive(d.acct[q], b)
    <3>1. q \in Peers /\ q \in Connected(c) \ c.unchoked
      BY <1>3, <1>4, <2>3, ConnectedFinite
    <3>2. Full(d) \/ ~RecentlyActive(c.acct[q], b)
      BY <1>4, <2>1, <3>1 DEF SparedAt, Full
    <3>3. CASE q = p
      <4>1. c.acct[p] \in Accounts
        BY ChokerFields
      <4>2. RecentlyActive(c.acct[p], b)
        BY <1>0, <1>4, <2>1, <2>2, <4>1, ActiveBefore
      <4> QED
        BY <3>2, <3>3, <4>2
    <3>4. CASE q # p
      BY <1>4, <3>1, <3>2, <3>4 DEF RecentlyActive
    <3> QED
      BY <3>3, <3>4
  <2> QED
    BY <1>2, <1>4, <1>5, <2>2, <2>3 DEF SparedAt
<1> QED
  BY <1>6, <1>7

\* One account is replaced by one with the same connections and activity.
LEMMA CountersPut ==
    ASSUME NEW c \in Chokers, NEW p \in Peers, NEW a \in Accounts,
           a.conns = c.acct[p].conns, a.active = c.acct[p].active,
           NEW d, d = WithAcct(c, p, a)
    PROVE  d \in Chokers /\ Keeps(c, d) /\ d.bytes = c.bytes /\ d.ts = c.ts
BY AcctPut DEF OtherFields, Keeps

LEMMA BytesPut ==
    ASSUME NEW c \in Chokers, NEW n \in Nat, NEW d, d = [c EXCEPT !.bytes = n]
    PROVE  d \in Chokers /\ Keeps(c, d) /\ d.bytes = n /\ d.ts = c.ts
BY DEF Chokers, Keeps

LEMMA RollWindowFacts ==
    ASSUME NEW c \in Chokers, NEW p \in Peers, NEW t \in Nat,
           NEW d, d = RollWindow(c, p, t)
    PROVE  d \in Chokers /\ Keeps(c, d) /\ d.bytes = c.bytes /\ d.ts = c.ts
<1>1. CASE d = c
  BY <1>1 DEF Keeps
<1>2. CASE d # c
  <2>1. d = [c EXCEPT !.acct[p].freeStart = t, !.acct[p].free = 0]
    BY <1>2 DEF RollWindow
  <2>2. PICK old \in Accounts : old = c.acct[p]
    BY ChokerFields
  <2>3. PICK x : x = [old EXCEPT !.freeStart = t]
    OBVIOUS
  <2>4. x \in Accounts /\ x.conns = old.conns /\ x.active = old.active
    BY <2>3 DEF Accounts
  <2>5. PICK a : a = [x EXCEPT !.free = 0]
    OBVIOUS
  <2>6. a \in Accounts /\ a.conns = old.conns /\ a.active = old.active
    BY <2>4, <2>5 DEF Accounts
  <2>7. d = WithAcct(c, p, a)
    BY <2>1, <2>2, <2>3, <2>5, ChokerFields, ZenonT(60) DEF WithAcct, Chokers, Accounts
  <2> QED
    BY <2>2, <2>6, <2>7, CountersPut
<1> QED
  BY <1>1, <1>2

LEMMA FirstPaintFacts ==
    ASSUME NEW c \in Chokers, NEW p \in Peers, NEW b \in Nat,
           NEW d, d = FirstPaint(c, p, b)
    PROVE  d \in Chokers /\ Keeps(c, d) /\ d.bytes = c.bytes + b /\ d.ts = c.ts
<1>1. PICK old \in Accounts : old = c.acct[p]
  BY ChokerFields
<1>2. PICK a : a = [old EXCEPT !.free = old.free + b]
  OBVIOUS
<1>3. a \in Accounts /\ a.conns = old.conns /\ a.active = old.active
  BY <1>2 DEF Accounts
<1>4. PICK n \in Nat : n = c.bytes + b
  BY ChokerFields
<1>5. PICK e : e = [c EXCEPT !.bytes = n]
  OBVIOUS
<1>6. e \in Chokers /\ Keeps(c, e) /\ e.bytes = n /\ e.ts = c.ts /\ e.acct = c.acct
  BY <1>5, BytesPut DEF Chokers
<1>7. d = WithAcct(e, p, a)
  BY <1>1, <1>2, <1>4, <1>5, <1>6, ChokerFields DEF FirstPaint, WithAcct, Chokers, Accounts
<1>8. d \in Chokers /\ Keeps(e, d) /\ d.bytes = e.bytes /\ d.ts = e.ts
  BY <1>1, <1>3, <1>6, <1>7, CountersPut
<1> QED
  BY <1>4, <1>6, <1>8, KeepsTrans

LEMMA ServeFacts ==
    ASSUME NEW c \in Chokers, NEW p \in Peers, NEW b \in Nat, NEW t \in Nat,
           NEW fp \in BOOLEAN, NEW d, d = Serve(c, p, b, fp, t)
    PROVE  /\ d \in Chokers /\ Keeps(c, d) /\ d.ts = c.ts
           /\ d.bytes = IF fp THEN c.bytes + b ELSE c.bytes
<1>1. PICK old \in Accounts : old = c.acct[p]
  BY ChokerFields
<1>2. PICK x : x = [old EXCEPT !.served = old.served + b]
  OBVIOUS
<1>3. x \in Accounts /\ x.conns = old.conns /\ x.active = old.active
  BY <1>2 DEF Accounts
<1>4. PICK a : a = [x EXCEPT !.seen = t]
  OBVIOUS
<1>5. a \in Accounts /\ a.conns = old.conns /\ a.active = old.active
  BY <1>3, <1>4 DEF Accounts
<1>6. PICK n \in Nat : n = IF fp THEN c.bytes + b ELSE c.bytes
  BY ChokerFields
<1>7. PICK e : e = [c EXCEPT !.bytes = n]
  OBVIOUS
<1>8. e \in Chokers /\ Keeps(c, e) /\ e.bytes = n /\ e.ts = c.ts /\ e.acct = c.acct
  BY <1>7, BytesPut DEF Chokers
<1>9. d = WithAcct(e, p, a)
  BY <1>1, <1>2, <1>4, <1>6, <1>7, <1>8, ChokerFields, ZenonT(60) DEF Serve, WithAcct, Chokers, Accounts
<1>10. d \in Chokers /\ Keeps(e, d) /\ d.bytes = e.bytes /\ d.ts = e.ts
  BY <1>1, <1>5, <1>8, <1>9, CountersPut
<1> QED
  BY <1>6, <1>8, <1>10, KeepsTrans

LEMMA EpochNat ==
    ASSUME NEW t \in Nat
    PROVE  t \div Rotate \in Nat
BY ChokerAssumption

\* is_unchoked
LEMMA RefreshedFacts ==
    ASSUME NEW c \in Chokers, Tracked(c), NEW t \in Nat, NEW d, d = Refreshed(c, t)
    PROVE  /\ d \in Chokers /\ Tracked(d) /\ Connected(d) = Connected(c)
           /\ ~d.dirty /\ d.acct = c.acct /\ d.bytes = c.bytes /\ d.ts = c.ts
           /\ Sound(c) => Sound(d)
           /\ t \in 0 .. MaxTime /\ t <= c.ts => \A L : Spared(c, L) => Spared(d, L)
<1>1. CASE d = c /\ ~c.dirty
  BY <1>1
<1>2. CASE d = RebuildUnchoked(c, t \div Rotate, t)
  <2>1. PICK n \in Nat : n = t \div Rotate
    BY EpochNat
  <2>2. d = RebuildUnchoked(c, n, t)
    BY <1>2, <2>1
  <2>3. /\ d \in Chokers /\ Tracked(d) /\ ~d.dirty
        /\ d.acct = c.acct /\ d.tracked = c.tracked
        /\ d.bytes = c.bytes /\ d.ts = c.ts
        /\ d.epoch = n /\ Sound(d) /\ SparedAt(d, t)
    BY <2>2, RebuiltFacts
  <2>4. t \in 0 .. MaxTime /\ t <= c.ts => \A L : Spared(d, L)
    BY <2>1, <2>3 DEF Spared
  <2> QED
    BY <2>3, <2>4 DEF Connected
<1> QED
  BY <1>1, <1>2 DEF Refreshed

\* No connection is lost or gained from c to d, and d's unchoke set is as good.
Steady(c, d) ==
    /\ d \in Chokers /\ Tracked(d) /\ Connected(d) = Connected(c)
    /\ \A q \in Peers : d.acct[q].conns = c.acct[q].conns
    /\ Sound(c) => Sound(d)

LEMMA SteadyTrans ==
    ASSUME NEW c, NEW d, NEW e, Steady(c, d), Steady(d, e)
    PROVE  Steady(c, e)
BY DEF Steady

LEMMA KeepsSteady ==
    ASSUME NEW c \in Chokers, Tracked(c), NEW d \in Chokers, Keeps(c, d)
    PROVE  Steady(c, d)
BY KeepsFacts DEF Steady, Keeps

\* A peer that has just been stamped is refused by a clean set.
Refused(d, p, t) == ~d.dirty /\ p \notin d.unchoked /\ d.acct[p].active = t

LEMMA ReciprocityFacts ==
    ASSUME NEW c \in Chokers, Tracked(c), NEW p \in Peers, NEW b \in Nat,
           NEW fp \in BOOLEAN, NEW t \in Nat, t \in 0 .. MaxTime,
           c.acct[p].active = t, c.ts = t,
           NEW d, d = ByReciprocity(c, p, b, fp, t)
    PROVE  /\ Steady(c, d.choker) /\ d.choker.ts = c.ts
           /\ \A L : Spared(c, L) => Spared(d.choker, L)
           /\ \/ /\ d.verdict = "serve"
                 /\ d.choker.bytes = IF fp THEN c.bytes + b ELSE c.bytes
              \/ /\ d.verdict = "choked" /\ d.choker.bytes = c.bytes
                 /\ Refused(d.choker, p, t)
<1>1. PICK r : r = Refreshed(c, t)
  OBVIOUS
<1>2. /\ r \in Chokers /\ Tracked(r) /\ Connected(r) = Connected(c)
      /\ ~r.dirty /\ r.acct = c.acct /\ r.bytes = c.bytes /\ r.ts = c.ts
      /\ Sound(c) => Sound(r)
      /\ \A L : Spared(c, L) => Spared(r, L)
  BY <1>1, RefreshedFacts
<1>3. Steady(c, r)
  BY <1>2 DEF Steady
<1>4. CASE p \in r.unchoked
  <2>1. PICK e : e = Serve(r, p, b, fp, t)
    OBVIOUS
  <2>2. d.verdict = "serve" /\ d.choker = e
    BY <1>1, <1>4, <2>1 DEF ByReciprocity
  <2>3. /\ e \in Chokers /\ Keeps(r, e) /\ e.ts = r.ts
        /\ e.bytes = IF fp THEN r.bytes + b ELSE r.bytes
    BY <1>2, <2>1, ServeFacts
  <2>4. Steady(r, e) /\ \A L : Spared(r, L) => Spared(e, L)
    BY <1>2, <2>3, KeepsSteady, KeepsFacts
  <2> QED
    BY <1>2, <1>3, <2>2, <2>3, <2>4, SteadyTrans
<1>5. CASE p \notin r.unchoked
  <2>1. d.verdict = "choked" /\ d.choker = r
    BY <1>1, <1>5 DEF ByReciprocity
  <2> QED
    BY <1>2, <1>3, <1>5, <2>1 DEF Refused
<1> QED
  BY <1>4, <1>5

LEMMA CapFacts ==
    ASSUME NEW fg \in BOOLEAN
    PROVE  EffectiveCap(fg) \in Nat /\ EffectiveCap(fg) <= Cap
<1>1. Cap \in Nat
  BY ChokerAssumption
<1>2. \A n \in Nat : (n * 64) \div 256 \in Nat /\ (n * 64) \div 256 <= n
  OBVIOUS
<1> QED
  BY <1>1, <1>2 DEF EffectiveCap

\* What decide may leave behind, verdict by verdict: v of b bytes, by the clock
\* reading t, turning c into d.
Ruling(c, d, v, p, b, fp, t) ==
    /\ d.bytes <= Cap
    /\ \/ v = "throttled" /\ d = c /\ c.paused
       \/ /\ v = "throttled" /\ d.ts = t /\ d.bytes = Base(c, t)
       \/ /\ v = "paint" /\ fp /\ d.ts = t /\ d.bytes = Base(c, t) + b
       \/ /\ v = "serve" /\ d.ts = t
          /\ d.bytes = IF fp THEN Base(c, t) + b ELSE Base(c, t)
       \/ /\ v = "choked" /\ d.ts = t /\ d.bytes = Base(c, t)
          /\ Refused(d, p, t)

LEMMA DecideFacts ==
    ASSUME NEW c \in Chokers, Tracked(c), c.bytes <= Cap, NEW p \in Peers,
           NEW b \in Nat, NEW fp \in BOOLEAN, NEW fg \in BOOLEAN, NEW t \in Nat,
           t \in 0 .. MaxTime, NEW d \in Decide(c, p, b, fp, fg, t)
    PROVE  /\ Steady(c, d.choker) /\ Ruling(c, d.choker, d.verdict, p, b, fp, t)
           /\ ~c.paused => d.choker.ts = t
           /\ \A L : Spared(c, L) =>
                 Spared(d.choker, IF c.paused THEN L ELSE L \cup Over(c, t))
<1>1. CASE c.paused
  <2>1. d.verdict = "throttled" /\ d.choker = c
    BY <1>1 DEF Decide
  <2>2. Steady(c, c)
    BY DEF Steady
  <2> QED
    BY <1>1, <2>1, <2>2 DEF Ruling
<1>2. CASE ~c.paused
  <2>0. Cap \in Nat /\ EffectiveCap(fg) \in Nat /\ EffectiveCap(fg) <= Cap
        /\ c.bytes \in Nat
    BY ChokerAssumption, CapFacts, ChokerFields
  <2> DEFINE D(s, w) ==
        IF ~fp THEN ByReciprocity(s, p, b, fp, t)
        ELSE IF s.bytes + b > EffectiveCap(fg)
        THEN [verdict |-> "throttled", choker |-> s]
        ELSE IF w.acct[p].free + b <= FreeBytes
        THEN [verdict |-> "paint", choker |-> FirstPaint(w, p, b)]
        ELSE ByReciprocity(w, p, b, fp, t)
  <2>1. PICK e \in Touched(c, p, t) :
           d = D(RollBucket(StampActive(e, p, t), t),
                 RollWindow(RollBucket(StampActive(e, p, t), t), p, t))
    BY <1>2 DEF Decide
  <2>2. PICK a : a = StampActive(e, p, t)
    OBVIOUS
  <2>3. PICK s : s = RollBucket(a, t)
    OBVIOUS
  <2>4. PICK w : w = RollWindow(s, p, t)
    OBVIOUS
  <2>5. d = D(s, w)
    BY <2>1, <2>2, <2>3, <2>4
  <2>6. Steady(c, a) /\ a.acct[p].active = t /\ a.bytes = c.bytes /\ a.ts = c.ts
    BY <2>2, WokenFacts DEF Steady
  <2>7. a \in Chokers /\ Tracked(a)
    BY <2>6 DEF Steady
  <2>8. s \in Chokers /\ Keeps(a, s) /\ s.ts = t /\ s.bytes = Base(c, t)
    BY <2>3, <2>6, <2>7, RollBucketFacts DEF Base
  <2>9. Steady(c, s) /\ Tracked(s) /\ s.acct[p].active = t
    BY <2>6, <2>7, <2>8, KeepsSteady, SteadyTrans DEF Steady, Keeps
  <2>10. w \in Chokers /\ Keeps(s, w) /\ w.ts = t /\ w.bytes = Base(c, t)
    BY <2>4, <2>8, RollWindowFacts
  <2>11. Steady(c, w) /\ Tracked(w) /\ w.acct[p].active = t
    BY <2>8, <2>9, <2>10, KeepsSteady, SteadyTrans, ZenonT(60) DEF Steady, Keeps
  <2>12. Base(c, t) \in Nat /\ Base(c, t) <= Cap
    BY <2>0 DEF Base
  <2> DEFINE Onto(x) == \A L : Spared(c, L) => Spared(x, L \cup Over(c, t))
  <2>13. Onto(s) /\ Onto(w)
    <3>1. Onto(s)
      BY <2>2, <2>3, SparedOnward
    <3> QED
      BY <2>8, <2>10, <3>1, KeepsFacts
  <2> HIDE DEF Onto
  <2>14. ASSUME NEW x \in Chokers, Tracked(x), Steady(c, x), x.acct[p].active = t,
                x.ts = t, x.bytes = Base(c, t), fp => x.bytes + b <= Cap, Onto(x),
                d = ByReciprocity(x, p, b, fp, t)
         PROVE  /\ Steady(c, d.choker) /\ Ruling(c, d.choker, d.verdict, p, b, fp, t)
                /\ d.choker.ts = t /\ Onto(d.choker)
    <3>1. /\ Steady(x, d.choker) /\ d.choker.ts = x.ts
          /\ \A L : Spared(x, L) => Spared(d.choker, L)
          /\ \/ /\ d.verdict = "serve"
                /\ d.choker.bytes = IF fp THEN x.bytes + b ELSE x.bytes
             \/ /\ d.verdict = "choked" /\ d.choker.bytes = x.bytes
                /\ Refused(d.choker, p, t)
      BY <2>14, ReciprocityFacts
    <3>2. Steady(c, d.choker)
      BY <2>14, <3>1, SteadyTrans
    <3>3. Onto(d.choker)
      BY <2>14, <3>1 DEF Onto
    <3>4. d.choker.bytes <= Cap
      BY <2>12, <2>14, <3>1
    <3> QED
      BY <2>14, <3>1, <3>2, <3>3, <3>4 DEF Ruling
  <2>15. /\ Steady(c, d.choker) /\ Ruling(c, d.choker, d.verdict, p, b, fp, t)
         /\ d.choker.ts = t /\ Onto(d.choker)
    <3>1. CASE ~fp
      <4>1. d = ByReciprocity(s, p, b, fp, t)
        BY <2>5, <3>1
      <4> QED
        BY <2>8, <2>9, <2>13, <2>14, <3>1, <4>1
    <3>2. CASE fp /\ s.bytes + b > EffectiveCap(fg)
      <4>1. d.verdict = "throttled" /\ d.choker = s
        BY <2>5, <3>2
      <4> QED
        BY <2>8, <2>9, <2>12, <2>13, <4>1 DEF Ruling
    <3>3. CASE fp /\ ~(s.bytes + b > EffectiveCap(fg))
      <4>1. s.bytes + b <= Cap
        BY <2>0, <2>8, <2>12, <3>3
      <4>2. CASE w.acct[p].free + b <= FreeBytes
        <5>1. PICK f : f = FirstPaint(w, p, b)
          OBVIOUS
        <5>2. d.verdict = "paint" /\ d.choker = f
          BY <2>5, <3>3, <4>2, <5>1
        <5>3. f \in Chokers /\ Keeps(w, f) /\ f.bytes = w.bytes + b /\ f.ts = w.ts
          BY <2>10, <5>1, FirstPaintFacts
        <5>4. Steady(c, f)
          BY <2>10, <2>11, <5>3, KeepsSteady, SteadyTrans
        <5>5. Onto(f)
          BY <2>10, <2>13, <5>3, KeepsFacts DEF Onto
        <5> QED
          BY <2>8, <2>10, <3>3, <4>1, <5>2, <5>3, <5>4, <5>5 DEF Ruling
      <4>3. CASE ~(w.acct[p].free + b <= FreeBytes)
        <5>1. d = ByReciprocity(w, p, b, fp, t)
          BY <2>5, <3>3, <4>3
        <5> QED
          BY <2>8, <2>10, <2>11, <2>13, <2>14, <4>1, <5>1
      <4> QED
        BY <4>2, <4>3
    <3> QED
      BY <3>1, <3>2, <3>3
  <2> QED
    BY <1>2, <2>15 DEF Onto
<1> QED
  BY <1>1, <1>2

-----------------------------------------------------------------------------
(***************************************************************************)
(* Permits: one request moves at a time.                                   *)
(***************************************************************************)

LEMMA CountOne ==
    ASSUME NEW S, IsFiniteSet(S), NEW T, NEW r, T \ {r} = S \ {r}
    PROVE  /\ IsFiniteSet(T) /\ Cardinality(S) \in Nat /\ Cardinality(T) \in Nat
           /\ (r \in S <=> r \in T) => Cardinality(T) = Cardinality(S)
           /\ r \in S /\ r \notin T => Cardinality(T) = Cardinality(S) - 1
           /\ r \notin S /\ r \in T => Cardinality(T) = Cardinality(S) + 1
<1>1. CASE r \in S <=> r \in T
  <2>1. T = S
    BY <1>1
  <2> QED
    BY <1>1, <2>1, FS_CardinalityType
<1>2. CASE r \in S /\ r \notin T
  <2>1. T = S \ {r}
    BY <1>2
  <2> QED
    BY <1>2, <2>1, FS_RemoveElement, FS_CardinalityType
<1>3. CASE r \notin S /\ r \in T
  <2>1. T = S \cup {r}
    BY <1>3
  <2> QED
    BY <1>3, <2>1, FS_AddElement, FS_CardinalityType
<1> QED
  BY <1>1, <1>2, <1>3

LEMMA BookSets ==
    /\ \A k \in Conns : IsFiniteSet(Handlers(k))
    /\ IsFiniteSet(InQueue) /\ IsFiniteSet(Encoding)
<1>1. IsFiniteSet(Reqs)
  BY ServerAssumption
<1>2. /\ \A k \in Conns : Handlers(k) \in SUBSET Reqs
      /\ InQueue \in SUBSET Reqs /\ Encoding \in SUBSET Reqs
  BY DEF Handlers, InQueue, Encoding
<1> QED
  BY <1>1, <1>2, FS_Subset

\* Every request but r is where it was.
Alone(r) == \A q \in Reqs : q # r => st'[q] = st[q] /\ conn'[q] = conn[q]

LEMMA AloneFacts ==
    ASSUME NEW r \in Reqs, Alone(r)
    PROVE  /\ \A k \in Conns : Handlers(k)' \ {r} = Handlers(k) \ {r}
           /\ InQueue' \ {r} = InQueue \ {r} /\ Encoding' \ {r} = Encoding \ {r}
<1>1. \A k \in Conns : Handlers(k)' \ {r} = Handlers(k) \ {r}
  BY DEF Alone, Handlers
<1>2. InQueue' \ {r} = InQueue \ {r}
  BY DEF Alone, InQueue
<1>3. Encoding' \ {r} = Encoding \ {r}
  BY DEF Alone, Encoding
<1> QED
  BY <1>1, <1>2, <1>3

\* What the three counts do when r moves.
LEMMA AloneCounts ==
    ASSUME PermitsExact, NEW r \in Reqs, Alone(r)
    PROVE  /\ \A k \in Conns :
                /\ serves[k] \in Nat
                /\ (r \in Handlers(k) <=> r \in Handlers(k)')
                      => Cardinality(Handlers(k)') = serves[k]
                /\ r \in Handlers(k) /\ r \notin Handlers(k)'
                      => Cardinality(Handlers(k)') = serves[k] - 1
                /\ r \notin Handlers(k) /\ r \in Handlers(k)'
                      => Cardinality(Handlers(k)') = serves[k] + 1
                /\ Cardinality(Handlers(k)') \in Nat
           /\ queued \in Nat /\ Cardinality(InQueue') \in Nat
           /\ (r \in InQueue <=> r \in InQueue') => Cardinality(InQueue') = queued
           /\ r \in InQueue /\ r \notin InQueue' => Cardinality(InQueue') = queued - 1
           /\ r \notin InQueue /\ r \in InQueue' => Cardinality(InQueue') = queued + 1
           /\ encoding \in Nat /\ Cardinality(Encoding') \in Nat
           /\ (r \in Encoding <=> r \in Encoding') => Cardinality(Encoding') = encoding
           /\ r \in Encoding /\ r \notin Encoding' => Cardinality(Encoding') = encoding - 1
           /\ r \notin Encoding /\ r \in Encoding' => Cardinality(Encoding') = encoding + 1
<1>1. ASSUME NEW k \in Conns
      PROVE  /\ serves[k] \in Nat
             /\ (r \in Handlers(k) <=> r \in Handlers(k)')
                   => Cardinality(Handlers(k)') = serves[k]
             /\ r \in Handlers(k) /\ r \notin Handlers(k)'
                   => Cardinality(Handlers(k)') = serves[k] - 1
             /\ r \notin Handlers(k) /\ r \in Handlers(k)'
                   => Cardinality(Handlers(k)') = serves[k] + 1
             /\ Cardinality(Handlers(k)') \in Nat
  <2>1. PICK S : S = Handlers(k)
    OBVIOUS
  <2>2. PICK T : T = Handlers(k)'
    OBVIOUS
  <2>3. IsFiniteSet(S) /\ T \ {r} = S \ {r} /\ serves[k] = Cardinality(S)
    BY <2>1, <2>2, BookSets, AloneFacts DEF PermitsExact
  <2> QED
    BY <2>1, <2>2, <2>3, CountOne
<1>2. /\ queued \in Nat /\ Cardinality(InQueue') \in Nat
      /\ (r \in InQueue <=> r \in InQueue') => Cardinality(InQueue') = queued
      /\ r \in InQueue /\ r \notin InQueue' => Cardinality(InQueue') = queued - 1
      /\ r \notin InQueue /\ r \in InQueue' => Cardinality(InQueue') = queued + 1
  <2>1. PICK S : S = InQueue
    OBVIOUS
  <2>2. PICK T : T = InQueue'
    OBVIOUS
  <2>3. IsFiniteSet(S) /\ T \ {r} = S \ {r} /\ queued = Cardinality(S)
    BY <2>1, <2>2, BookSets, AloneFacts DEF PermitsExact
  <2> QED
    BY <2>1, <2>2, <2>3, CountOne
<1>3. /\ encoding \in Nat /\ Cardinality(Encoding') \in Nat
      /\ (r \in Encoding <=> r \in Encoding') => Cardinality(Encoding') = encoding
      /\ r \in Encoding /\ r \notin Encoding' => Cardinality(Encoding') = encoding - 1
      /\ r \notin Encoding /\ r \in Encoding' => Cardinality(Encoding') = encoding + 1
  <2>1. PICK S : S = Encoding
    OBVIOUS
  <2>2. PICK T : T = Encoding'
    OBVIOUS
  <2>3. IsFiniteSet(S) /\ T \ {r} = S \ {r} /\ encoding = Cardinality(S)
    BY <2>1, <2>2, BookSets, AloneFacts DEF PermitsExact
  <2> QED
    BY <2>1, <2>2, <2>3, CountOne
<1> QED
  BY <1>1, <1>2, <1>3

-----------------------------------------------------------------------------
(***************************************************************************)
(* Steps.                                                                  *)
(***************************************************************************)

LEMMA LoopSets ==
    ASSUME NEW p
    PROVE  IsFiniteSet({k \in Conns : PeerOf[k] = p /\ Served(k)})
<1>1. {k \in Conns : PeerOf[k] = p /\ Served(k)} \in SUBSET Conns
  OBVIOUS
<1> QED
  BY <1>1, ServerAssumption, FS_Subset

LEMMA SoundIs == CacheSound <=> Sound(choker)
BY DEF CacheSound, Sound

\* No reading is pending that was not, but one the governor rules on.
Expected ==
    \A r \in Reqs : st'[r] \in {"sized", "locked"} =>
        \/ shape'[r].kind # "control"
        \/ st[r] \in {"sized", "locked"} /\ shape'[r] = shape[r]

LoopsSame == \A k \in Conns : Served(k)' <=> Served(k)

\* The cached set and the history are as they were.
LEMMA SparedSame ==
    ASSUME Spared(choker', late')
    PROVE  Spared(choker, late)'
BY DEF Spared, SparedAt, Full, Connected, RecentlyActive, Since

\* A step of the loops or the handlers that does not reach the governor.
LEMMA GovernorIdle ==
    ASSUME Governed, choker' = choker, UNCHANGED history, LoopsSame, Expected
    PROVE  Governed'
<1>0. paint' = paint /\ late' = late
  BY DEF history
<1>1. ConnsPaired'
  <2>1. \A p \in Peers : {k \in Conns : PeerOf[k] = p /\ Served(k)'}
                            = {k \in Conns : PeerOf[k] = p /\ Served(k)}
    BY DEF LoopsSame
  <2> QED
    BY <2>1 DEF Governed, ConnsPaired
<1>2. Tracked(choker)' /\ CacheSound' /\ (choker.bytes <= Cap)'
  BY DEF Governed, Tracked, CacheSound, Connected
<1>3. CapHeldInOrder' /\ BucketFollows'
  BY <1>0 DEF Governed, CapHeldInOrder, BucketFollows
<1>4. Spared(choker, late)'
  BY <1>0, SparedSame DEF Governed
<1>5. Readings'
  BY DEF Governed, Readings, Expected
<1> QED
  BY <1>1, <1>2, <1>3, <1>4, <1>5 DEF Governed

\* The handler of r lets go of its serve permit; no loop starts or ends.
LetGo(r, s) ==
    /\ st' = [st EXCEPT ![r] = s]
    /\ Forget(r)
    /\ serves' = [serves EXCEPT ![conn[r]] = @ - 1]
    /\ held' = held
    /\ link' \in [Conns -> {"down", "up", "cut", "drain"}]
    /\ LoopsSame

LEMMA EndHandlerLetsGo ==
    ASSUME TypeOK, NEW r \in Reqs, NEW s, EndHandler(r, s)
    PROVE  LetGo(r, s)
<1>1. conn[r] \in Conns /\ link \in [Conns -> {"down", "up", "cut", "drain"}]
  BY DEF TypeOK
<1>2. link' \in [Conns -> {"down", "up", "cut", "drain"}] /\ LoopsSame
  BY <1>1 DEF EndHandler, LoopsSame, Served
<1> QED
  BY <1>2 DEF EndHandler, LetGo

\* What the permits and the types gain by it.
LEMMA LetGoFacts ==
    ASSUME TypeOK, Booked, NEW r \in Reqs, st[r] \in Handling, NEW s \in Ended,
           LetGo(r, s)
    PROVE  /\ link' \in [Conns -> {"down", "up", "cut", "drain"}]
           /\ held' \in [Conns -> Reqs \cup {NoReq}]
           /\ serves' \in [Conns -> Nat]
           /\ conn' \in [Reqs -> Conns] /\ shape' \in [Reqs -> Shapes]
           /\ st' \in [Reqs -> States]
           /\ at' \in [Reqs -> 0 .. MaxTime] /\ saw' \in [Reqs -> BOOLEAN]
           /\ left' \in [Reqs -> Nat] /\ admitted' \in [Reqs -> Nat]
           /\ HeldProper' /\ Expected /\ LoopsSame
           /\ \A k \in Conns : /\ serves'[k] = Cardinality(Handlers(k)')
                               /\ serves'[k] <= MaxServes
           /\ Cardinality(InQueue') = IF st[r] \in {"encode", "run"} THEN queued - 1
                                                                     ELSE queued
           /\ Cardinality(Encoding') = IF st[r] = "run" THEN encoding - 1 ELSE encoding
           /\ Cardinality(InQueue') \in Nat /\ Cardinality(Encoding') \in Nat
<1>1. /\ conn[r] \in Conns /\ held \in [Conns -> Reqs \cup {NoReq}]
      /\ serves \in [Conns -> Nat]
      /\ conn \in [Reqs -> Conns] /\ shape \in [Reqs -> Shapes]
      /\ st \in [Reqs -> States]
      /\ at \in [Reqs -> 0 .. MaxTime] /\ saw \in [Reqs -> BOOLEAN]
      /\ left \in [Reqs -> Nat] /\ admitted \in [Reqs -> Nat]
  BY DEF TypeOK
<1>2. /\ st' = [st EXCEPT ![r] = s]
      /\ conn' = [conn EXCEPT ![r] = AnyConn]
      /\ shape' = [shape EXCEPT ![r] = AnyShape]
      /\ at' = [at EXCEPT ![r] = 0]
      /\ saw' = [saw EXCEPT ![r] = FALSE]
      /\ left' = [left EXCEPT ![r] = 0]
      /\ admitted' = [admitted EXCEPT ![r] = 0]
      /\ serves' = [serves EXCEPT ![conn[r]] = @ - 1]
      /\ held' = held /\ LoopsSame
      /\ link' \in [Conns -> {"down", "up", "cut", "drain"}]
  BY DEF LetGo, Forget
<1>3. AnyConn \in Conns /\ AnyShape \in Shapes /\ 0 \in 0 .. MaxTime /\ s \in States
  BY ServerAssumption DEF AnyConn, AnyShape, States
<1>4. s \notin Handling /\ s \notin {"encode", "run", "held", "sized", "locked"}
  BY DEF Handling, Ended
<1>5. Alone(r)
  BY <1>1, <1>2 DEF Alone
<1>6. \A k \in Conns : /\ r \notin Handlers(k)'
                       /\ r \in Handlers(k) <=> k = conn[r]
  BY <1>1, <1>2, <1>4 DEF Handlers
<1>7. /\ r \notin InQueue' /\ r \notin Encoding'
      /\ r \in InQueue <=> st[r] \in {"encode", "run"}
      /\ r \in Encoding <=> st[r] = "run"
  BY <1>1, <1>2, <1>4 DEF InQueue, Encoding
<1>8. PermitsExact
  BY DEF Booked
<1>9. ASSUME NEW k \in Conns
      PROVE  /\ serves'[k] = Cardinality(Handlers(k)')
             /\ serves'[k] <= MaxServes /\ serves'[k] \in Nat
  <2>1. serves[k] <= MaxServes /\ MaxServes \in Nat
    BY <1>8, ServerAssumption DEF PermitsExact
  <2>2. /\ serves[k] \in Nat
        /\ k # conn[r] => Cardinality(Handlers(k)') = serves[k]
        /\ k = conn[r] => Cardinality(Handlers(k)') = serves[k] - 1
        /\ Cardinality(Handlers(k)') \in Nat
    BY <1>5, <1>6, <1>8, AloneCounts
  <2>3. serves'[k] = IF k = conn[r] THEN serves[k] - 1 ELSE serves[k]
    BY <1>1, <1>2
  <2> QED
    BY <2>1, <2>2, <2>3
<1>10. serves' \in [Conns -> Nat]
  BY <1>1, <1>2, <1>9
<1>11. /\ Cardinality(InQueue') = IF st[r] \in {"encode", "run"} THEN queued - 1
                                                                ELSE queued
       /\ Cardinality(Encoding') = IF st[r] = "run" THEN encoding - 1 ELSE encoding
       /\ Cardinality(InQueue') \in Nat /\ Cardinality(Encoding') \in Nat
  BY <1>5, <1>7, <1>8, AloneCounts
<1>12. HeldProper'
  <2> SUFFICES ASSUME NEW k \in Conns, held[k] # NoReq
               PROVE  st'[held[k]] = "held" /\ conn'[held[k]] = k
    BY <1>2 DEF HeldProper
  <2>1. held[k] \in Reqs /\ st[held[k]] = "held" /\ conn[held[k]] = k
    BY <1>1 DEF Booked, HeldProper
  <2>2. held[k] # r
    BY <2>1 DEF Handling
  <2> QED
    BY <1>1, <1>2, <2>1, <2>2
<1>13. Expected
  BY <1>1, <1>2, <1>4 DEF Expected
<1>14. /\ conn' \in [Reqs -> Conns] /\ shape' \in [Reqs -> Shapes]
       /\ st' \in [Reqs -> States]
       /\ at' \in [Reqs -> 0 .. MaxTime] /\ saw' \in [Reqs -> BOOLEAN]
       /\ left' \in [Reqs -> Nat] /\ admitted' \in [Reqs -> Nat]
  BY <1>1, <1>2, <1>3
<1> QED
  BY <1>1, <1>2, <1>9, <1>10, <1>11, <1>12, <1>13, <1>14

\* A handler ends, and lets go of every permit it holds.
LEMMA HandlerLeaves ==
    ASSUME TypeOK, Booked, FetchesExact, NEW r \in Reqs, st[r] \in Handling,
           NEW s \in Ended, LetGo(r, s),
           UNCHANGED <<now, fgVars, pauses>>,
           lock' \in Reqs \cup {NoReq}, choker' \in Chokers,
           paint' \in [0 .. MaxTime -> Nat], late' \subseteq 0 .. MaxTime,
           queued' = IF st[r] \in {"encode", "run"} THEN queued - 1 ELSE queued,
           encoding' = IF st[r] = "run" THEN encoding - 1 ELSE encoding
    PROVE  TypeOK' /\ Booked' /\ FetchesExact' /\ Expected /\ LoopsSame
<1>1. /\ link' \in [Conns -> {"down", "up", "cut", "drain"}]
      /\ held' \in [Conns -> Reqs \cup {NoReq}]
      /\ serves' \in [Conns -> Nat]
      /\ conn' \in [Reqs -> Conns] /\ shape' \in [Reqs -> Shapes]
      /\ st' \in [Reqs -> States]
      /\ at' \in [Reqs -> 0 .. MaxTime] /\ saw' \in [Reqs -> BOOLEAN]
      /\ left' \in [Reqs -> Nat] /\ admitted' \in [Reqs -> Nat]
      /\ HeldProper' /\ Expected /\ LoopsSame
      /\ \A k \in Conns : /\ serves'[k] = Cardinality(Handlers(k)')
                          /\ serves'[k] <= MaxServes
      /\ Cardinality(InQueue') = IF st[r] \in {"encode", "run"} THEN queued - 1
                                                                ELSE queued
      /\ Cardinality(Encoding') = IF st[r] = "run" THEN encoding - 1 ELSE encoding
      /\ Cardinality(InQueue') \in Nat /\ Cardinality(Encoding') \in Nat
  BY LetGoFacts
<1>2. /\ queued' = Cardinality(InQueue') /\ encoding' = Cardinality(Encoding')
      /\ queued' \in Nat /\ encoding' \in Nat
  BY <1>1
<1>3. /\ queued \in Nat /\ encoding \in Nat /\ queued <= MaxQueue /\ encoding <= MaxEncode
      /\ MaxQueue \in Nat /\ MaxEncode \in Nat
  BY ServerAssumption DEF TypeOK, Booked, PermitsExact
<1>4. queued' <= MaxQueue /\ encoding' <= MaxEncode
  BY <1>3
<1>5. PermitsExact'
  BY <1>1, <1>2, <1>4 DEF PermitsExact
<1>6. TypeOK'
  BY <1>1, <1>2 DEF TypeOK, history, fgVars
<1>7. FetchesExact'
  BY DEF FetchesExact, Playing, fgVars
<1> QED
  BY <1>1, <1>5, <1>6, <1>7 DEF Booked

\* The same when the governor is not asked.
LEMMA HandlerLeavesQuietly ==
    ASSUME IInv, NEW r \in Reqs, st[r] \in Handling, NEW s \in Ended, LetGo(r, s),
           UNCHANGED <<now, choker, history, fgVars, pauses>>,
           lock' \in Reqs \cup {NoReq},
           queued' = IF st[r] \in {"encode", "run"} THEN queued - 1 ELSE queued,
           encoding' = IF st[r] = "run" THEN encoding - 1 ELSE encoding
    PROVE  IInv'
<1>1. TypeOK /\ Booked /\ FetchesExact /\ Governed
  BY DEF IInv
<1>2. /\ choker' \in Chokers /\ paint' \in [0 .. MaxTime -> Nat]
      /\ late' \subseteq 0 .. MaxTime
  BY <1>1 DEF TypeOK, history
<1>3. TypeOK' /\ Booked' /\ FetchesExact' /\ Expected /\ LoopsSame
  BY <1>1, <1>2, HandlerLeaves
<1>4. Governed'
  BY <1>1, <1>3, GovernorIdle
<1> QED
  BY <1>3, <1>4 DEF IInv

LEMMA ServeControlStep ==
    ASSUME IInv, NEW r \in Reqs, ServeControl(r)
    PROVE  IInv'
<1>1. PICK s \in {"replied", "gone"} : EndHandler(r, s)
  BY DEF ServeControl
<1>2. s \in Ended /\ st[r] \in Handling /\ st[r] \notin {"encode", "run"}
  BY DEF ServeControl, Ended, Handling
<1>3. LetGo(r, s) /\ lock \in Reqs \cup {NoReq}
  BY <1>1, EndHandlerLetsGo DEF IInv, TypeOK
<1> QED
  BY <1>2, <1>3, HandlerLeavesQuietly DEF ServeControl

LEMMA SizingFailsStep ==
    ASSUME IInv, NEW r \in Reqs, SizingFails(r)
    PROVE  IInv'
<1>1. PICK s \in {"replied", "gone"} : s = "replied" /\ EndHandler(r, s)
  BY DEF SizingFails
<1>2. s \in Ended /\ st[r] \in Handling /\ st[r] \notin {"encode", "run"}
  BY DEF SizingFails, Ended, Handling
<1>3. LetGo(r, s) /\ lock \in Reqs \cup {NoReq}
  BY <1>1, EndHandlerLetsGo DEF IInv, TypeOK
<1> QED
  BY <1>2, <1>3, HandlerLeavesQuietly DEF SizingFails

LEMMA QueueTimeoutStep ==
    ASSUME IInv, NEW r \in Reqs, QueueTimeout(r)
    PROVE  IInv'
<1>1. PICK s \in {"replied", "gone"} : s = "replied" /\ EndHandler(r, s)
  BY DEF QueueTimeout
<1>2. s \in Ended /\ st[r] \in Handling /\ st[r] \notin {"encode", "run"}
  BY DEF QueueTimeout, Ended, Handling
<1>3. LetGo(r, s) /\ lock \in Reqs \cup {NoReq}
  BY <1>1, EndHandlerLetsGo DEF IInv, TypeOK
<1> QED
  BY <1>2, <1>3, HandlerLeavesQuietly DEF QueueTimeout

LEMMA FinishStep ==
    ASSUME IInv, NEW r \in Reqs, Finish(r)
    PROVE  IInv'
<1>1. PICK s \in {"replied", "gone"} : EndHandler(r, s)
  BY DEF Finish
<1>2. s \in Ended /\ st[r] \in Handling /\ st[r] = "run"
  BY DEF Finish, Ended, Handling
<1>3. LetGo(r, s) /\ lock \in Reqs \cup {NoReq}
  BY <1>1, EndHandlerLetsGo DEF IInv, TypeOK
<1> QED
  BY <1>2, <1>3, HandlerLeavesQuietly DEF Finish

LEMMA SendStalledStep ==
    ASSUME IInv, NEW r \in Reqs, SendStalled(r)
    PROVE  IInv'
<1>1. PICK s \in Ended : s = "gone"
  BY DEF Ended
<1>2. st[r] \in Handling /\ st[r] = "run"
  BY DEF SendStalled, Handling
<1>3. /\ conn[r] \in Conns /\ link \in [Conns -> {"down", "up", "cut", "drain"}]
      /\ lock \in Reqs \cup {NoReq}
  BY DEF IInv, TypeOK
<1>4. link' \in [Conns -> {"down", "up", "cut", "drain"}] /\ LoopsSame
  BY <1>3 DEF SendStalled, LoopsSame, Served
<1>5. LetGo(r, s)
  BY <1>1, <1>4 DEF SendStalled, LetGo
<1> QED
  BY <1>2, <1>3, <1>5, HandlerLeavesQuietly DEF SendStalled

\* A handler goes from one of its states to another, keeping its permits.
Onward(r, s) ==
    /\ st' = [st EXCEPT ![r] = s] /\ conn' = conn /\ held' = held
    /\ serves' = serves

LEMMA OnwardFacts ==
    ASSUME TypeOK, Booked, NEW r \in Reqs, st[r] \in Handling, NEW s \in Handling,
           Onward(r, s)
    PROVE  /\ st' \in [Reqs -> States] /\ HeldProper'
           /\ \A k \in Conns : /\ serves'[k] = Cardinality(Handlers(k)')
                               /\ serves'[k] <= MaxServes
           /\ (st[r] \in {"encode", "run"} <=> s \in {"encode", "run"})
                 => Cardinality(InQueue') = queued
           /\ st[r] \notin {"encode", "run"} /\ s \in {"encode", "run"}
                 => Cardinality(InQueue') = queued + 1
           /\ (st[r] = "run" <=> s = "run") => Cardinality(Encoding') = encoding
           /\ st[r] # "run" /\ s = "run" => Cardinality(Encoding') = encoding + 1
<1>1. /\ st \in [Reqs -> States] /\ conn[r] \in Conns
      /\ held \in [Conns -> Reqs \cup {NoReq}]
  BY DEF TypeOK
<1>2. s \in States /\ s # "held" /\ st[r] # "held"
  BY DEF States, Handling
<1>3. Alone(r)
  BY <1>1 DEF Alone, Onward
<1>4. \A k \in Conns : r \in Handlers(k) <=> r \in Handlers(k)'
  BY <1>1 DEF Handlers, Onward
<1>5. /\ r \in InQueue <=> st[r] \in {"encode", "run"}
      /\ r \in InQueue' <=> s \in {"encode", "run"}
      /\ r \in Encoding <=> st[r] = "run"
      /\ r \in Encoding' <=> s = "run"
  BY <1>1 DEF InQueue, Encoding, Onward
<1>6. HeldProper'
  <2> SUFFICES ASSUME NEW k \in Conns, held[k] # NoReq
               PROVE  st'[held[k]] = "held" /\ conn'[held[k]] = k
    BY DEF HeldProper, Onward
  <2>1. held[k] \in Reqs /\ st[held[k]] = "held" /\ conn[held[k]] = k
    BY <1>1 DEF Booked, HeldProper
  <2> QED
    BY <1>1, <1>2, <2>1 DEF Onward
<1>7. PermitsExact
  BY DEF Booked
<1>8. \A k \in Conns : serves'[k] = Cardinality(Handlers(k)') /\ serves'[k] <= MaxServes
  <2>1. \A k \in Conns : Cardinality(Handlers(k)') = serves[k]
    BY <1>3, <1>4, <1>7, AloneCounts
  <2> QED
    BY <1>7, <2>1 DEF PermitsExact, Onward
<1>9. /\ (r \in InQueue <=> r \in InQueue') => Cardinality(InQueue') = queued
      /\ r \notin InQueue /\ r \in InQueue' => Cardinality(InQueue') = queued + 1
      /\ (r \in Encoding <=> r \in Encoding') => Cardinality(Encoding') = encoding
      /\ r \notin Encoding /\ r \in Encoding' => Cardinality(Encoding') = encoding + 1
  BY <1>3, <1>7, AloneCounts
<1>10. st' \in [Reqs -> States]
  BY <1>1, <1>2 DEF Onward
<1> QED
  BY <1>5, <1>6, <1>8, <1>9, <1>10

LEMMA OnwardBooks ==
    ASSUME TypeOK, Booked, NEW r \in Reqs, st[r] \in Handling \ {"encode", "run"},
           NEW s \in Handling \ {"encode", "run"}, Onward(r, s),
           queued' = queued, encoding' = encoding
    PROVE  st' \in [Reqs -> States] /\ Booked'
<1>1. /\ st' \in [Reqs -> States] /\ HeldProper'
      /\ \A k \in Conns : /\ serves'[k] = Cardinality(Handlers(k)')
                          /\ serves'[k] <= MaxServes
      /\ Cardinality(InQueue') = queued /\ Cardinality(Encoding') = encoding
  BY OnwardFacts
<1>2. PermitsExact'
  BY <1>1 DEF Booked, PermitsExact
<1> QED
  BY <1>1, <1>2 DEF Booked

LEMMA LoopsKept ==
    ASSUME link' = link
    PROVE  LoopsSame
BY DEF LoopsSame, Served

LEMMA FetchesKept ==
    ASSUME FetchesExact, UNCHANGED fgVars
    PROVE  FetchesExact'
BY DEF FetchesExact, Playing, fgVars

LEMMA ReadClockStep ==
    ASSUME IInv, NEW r \in Reqs, ReadClock(r)
    PROVE  IInv'
<1>1. TypeOK /\ Booked /\ FetchesExact /\ Governed
  BY DEF IInv
<1>2. PICK s \in Handling \ {"encode", "run"} : s = "sized"
  BY DEF Handling
<1>3. st[r] \in Handling \ {"encode", "run"}
  BY DEF ReadClock, Handling
<1>4. Onward(r, s) /\ queued' = queued /\ encoding' = encoding /\ link' = link
  BY <1>2 DEF ReadClock, Onward, linkVars, permits
<1>5. st' \in [Reqs -> States] /\ Booked'
  BY <1>1, <1>3, <1>4, OnwardBooks
<1>6. now \in 0 .. MaxTime /\ at \in [Reqs -> 0 .. MaxTime] /\ saw \in [Reqs -> BOOLEAN]
      /\ flag \in BOOLEAN
  BY <1>1 DEF TypeOK
<1>7. at' \in [Reqs -> 0 .. MaxTime] /\ saw' \in [Reqs -> BOOLEAN]
  BY <1>6 DEF ReadClock
<1>8. TypeOK'
  BY <1>1, <1>5, <1>7 DEF ReadClock, TypeOK, history, linkVars, permits, fgVars
<1>9. Expected
  BY <1>6, <1>1 DEF ReadClock, Expected, TypeOK
<1>10. FetchesExact'
  BY <1>1, FetchesKept DEF ReadClock
<1>11. Governed'
  BY <1>1, <1>4, <1>9, LoopsKept, GovernorIdle DEF ReadClock
<1> QED
  BY <1>5, <1>8, <1>10, <1>11 DEF IInv

LEMMA LockManyStep ==
    ASSUME IInv, NEW r \in Reqs, LockMany(r)
    PROVE  IInv'
<1>1. TypeOK /\ Booked /\ FetchesExact /\ Governed
  BY DEF IInv
<1>2. PICK s \in Handling \ {"encode", "run"} : s = "locked"
  BY DEF Handling
<1>3. st[r] \in Handling \ {"encode", "run"}
  BY DEF LockMany, Handling
<1>4. Onward(r, s) /\ queued' = queued /\ encoding' = encoding /\ link' = link
  BY <1>2 DEF LockMany, Onward, linkVars, permits
<1>5. st' \in [Reqs -> States] /\ Booked'
  BY <1>1, <1>3, <1>4, OnwardBooks
<1>6. saw' \in [Reqs -> BOOLEAN]
  BY <1>1 DEF LockMany, TypeOK
<1>7. TypeOK'
  BY <1>1, <1>5, <1>6 DEF LockMany, TypeOK, history, linkVars, permits, fgVars
<1>8. Expected
  BY <1>1 DEF LockMany, Expected, TypeOK
<1>9. FetchesExact'
  BY <1>1, FetchesKept DEF LockMany
<1>10. Governed'
  BY <1>1, <1>4, <1>8, LoopsKept, GovernorIdle DEF LockMany
<1> QED
  BY <1>5, <1>7, <1>9, <1>10 DEF IInv

LEMMA EnterQueueStep ==
    ASSUME IInv, NEW r \in Reqs, EnterQueue(r)
    PROVE  IInv'
<1>1. TypeOK /\ Booked /\ FetchesExact /\ Governed
  BY DEF IInv
<1>2. PICK s \in Handling : s = "encode"
  BY DEF Handling
<1>3. st[r] \in Handling /\ st[r] = "queue"
  BY DEF EnterQueue, Handling
<1>4. Onward(r, s) /\ link' = link
  BY <1>2 DEF EnterQueue, Onward, linkVars
<1>5. /\ st' \in [Reqs -> States] /\ HeldProper'
      /\ \A k \in Conns : /\ serves'[k] = Cardinality(Handlers(k)')
                          /\ serves'[k] <= MaxServes
      /\ Cardinality(InQueue') = queued + 1 /\ Cardinality(Encoding') = encoding
  BY <1>1, <1>2, <1>3, <1>4, OnwardFacts
<1>6. queued \in Nat /\ queued < MaxQueue /\ queued' = queued + 1 /\ MaxQueue \in Nat
  BY <1>1, ServerAssumption DEF EnterQueue, TypeOK
<1>7. queued' \in Nat /\ queued' <= MaxQueue
  BY <1>6
<1>8. PermitsExact'
  BY <1>1, <1>5, <1>6, <1>7 DEF EnterQueue, Booked, PermitsExact
<1>9. TypeOK'
  BY <1>1, <1>5, <1>7 DEF EnterQueue, TypeOK, history, linkVars, fgVars
<1>10. Expected
  BY <1>1 DEF EnterQueue, Expected, TypeOK
<1>11. FetchesExact'
  BY <1>1, FetchesKept DEF EnterQueue
<1>12. Governed'
  BY <1>1, <1>4, <1>10, LoopsKept, GovernorIdle DEF EnterQueue
<1> QED
  BY <1>5, <1>8, <1>9, <1>11, <1>12 DEF IInv, Booked

LEMMA TakeEncoderStep ==
    ASSUME IInv, NEW r \in Reqs, TakeEncoder(r)
    PROVE  IInv'
<1>1. TypeOK /\ Booked /\ FetchesExact /\ Governed
  BY DEF IInv
<1>2. PICK s \in Handling : s = "run"
  BY DEF Handling
<1>3. st[r] \in Handling /\ st[r] = "encode"
  BY DEF TakeEncoder, Handling
<1>4. Onward(r, s) /\ link' = link
  BY <1>2 DEF TakeEncoder, Onward, linkVars
<1>5. /\ st' \in [Reqs -> States] /\ HeldProper'
      /\ \A k \in Conns : /\ serves'[k] = Cardinality(Handlers(k)')
                          /\ serves'[k] <= MaxServes
      /\ Cardinality(InQueue') = queued /\ Cardinality(Encoding') = encoding + 1
  BY <1>1, <1>2, <1>3, <1>4, OnwardFacts
<1>6. /\ encoding \in Nat /\ encoding < MaxEncode /\ encoding' = encoding + 1
      /\ MaxEncode \in Nat
  BY <1>1, ServerAssumption DEF TakeEncoder, TypeOK
<1>7. encoding' \in Nat /\ encoding' <= MaxEncode
  BY <1>6
<1>8. PermitsExact'
  BY <1>1, <1>5, <1>6, <1>7 DEF TakeEncoder, Booked, PermitsExact
<1>9. TypeOK'
  BY <1>1, <1>5, <1>7 DEF TakeEncoder, TypeOK, history, linkVars, fgVars
<1>10. Expected
  BY <1>1 DEF TakeEncoder, Expected, TypeOK
<1>11. FetchesExact'
  BY <1>1, FetchesKept DEF TakeEncoder
<1>12. Governed'
  BY <1>1, <1>4, <1>10, LoopsKept, GovernorIdle DEF TakeEncoder
<1> QED
  BY <1>5, <1>8, <1>9, <1>11, <1>12 DEF IInv, Booked

\* UnlockMany: a BUSY reply, or on to the encode queue.
LEMMA UnlockManyStep ==
    ASSUME IInv, NEW r \in Reqs, UnlockMany(r)
    PROVE  IInv'
<1>1. TypeOK /\ Booked /\ FetchesExact /\ Governed
  BY DEF IInv
<1>2. st[r] = "locked" /\ st[r] \in Handling /\ st[r] \in Handling \ {"encode", "run"}
  BY DEF UnlockMany, Handling
<1>3. CASE admitted[r] = 0 /\ shape[r].items > 0
  <2>1. PICK s \in Ended : s = "replied" /\ EndHandler(r, s)
    BY <1>3 DEF UnlockMany, Ended
  <2>2. LetGo(r, s)
    BY <1>1, <2>1, EndHandlerLetsGo
  <2> QED
    BY <1>2, <2>2, HandlerLeavesQuietly DEF UnlockMany
<1>4. CASE ~(admitted[r] = 0 /\ shape[r].items > 0)
  <2>1. PICK s \in Handling \ {"encode", "run"} : s = "queue"
    BY DEF Handling
  <2>2. /\ Onward(r, s) /\ queued' = queued /\ encoding' = encoding /\ link' = link
        /\ UNCHANGED <<at, saw, left, admitted, shape>> /\ lock' = NoReq
        /\ st' = [st EXCEPT ![r] = "queue"]
    BY <1>4, <2>1 DEF UnlockMany, Onward, linkVars
  <2>3. st' \in [Reqs -> States] /\ Booked'
    BY <1>1, <1>2, <2>2, OnwardBooks
  <2>4. TypeOK'
    BY <1>1, <2>2, <2>3 DEF UnlockMany, TypeOK, history, Onward, fgVars
  <2>5. Expected
    BY <1>1, <2>2 DEF Expected, TypeOK
  <2>6. FetchesExact'
    BY <1>1, FetchesKept DEF UnlockMany
  <2>7. Governed'
    BY <1>1, <2>2, <2>5, LoopsKept, GovernorIdle DEF UnlockMany
  <2> QED
    BY <2>3, <2>4, <2>6, <2>7 DEF IInv
<1> QED
  BY <1>3, <1>4

\* Only requests without a handler move.
Outside ==
    \A q \in Reqs : \/ /\ st'[q] = st[q] /\ conn'[q] = conn[q]
                       /\ at'[q] = at[q] /\ shape'[q] = shape[q]
                    \/ st[q] \notin Handling /\ st'[q] \notin Handling

LEMMA OutsideFacts ==
    ASSUME PermitsExact, Outside, UNCHANGED permits
    PROVE  PermitsExact' /\ Expected
<1>1. \A k \in Conns : Handlers(k)' = Handlers(k)
  BY DEF Outside, Handlers
<1>2. InQueue' = InQueue /\ Encoding' = Encoding
  BY DEF Outside, InQueue, Encoding, Handling
<1>3. PermitsExact'
  BY <1>1, <1>2 DEF PermitsExact, permits
<1>4. Expected
  BY DEF Expected, Outside, Handling
<1> QED
  BY <1>3, <1>4

LEMMA ReceiveStep ==
    ASSUME IInv, NEW k \in Conns, NEW r \in Reqs, NEW s \in Shapes, Receive(k, r, s)
    PROVE  IInv'
<1>1. TypeOK /\ Booked /\ FetchesExact /\ Governed
  BY DEF IInv
<1>2. /\ held \in [Conns -> Reqs \cup {NoReq}] /\ conn \in [Reqs -> Conns]
      /\ shape \in [Reqs -> Shapes] /\ left \in [Reqs -> Nat]
      /\ st \in [Reqs -> States]
  BY <1>1 DEF TypeOK
<1>3. /\ held[k] = NoReq /\ st[r] = "unsent"
      /\ held' = [held EXCEPT ![k] = r] /\ conn' = [conn EXCEPT ![r] = k]
      /\ shape' = [shape EXCEPT ![r] = s] /\ left' = [left EXCEPT ![r] = s.items]
      /\ st' = [st EXCEPT ![r] = "held"]
      /\ UNCHANGED <<now, choker, lock, link, permits, at, saw, admitted, history,
                     fgVars, pauses>>
  BY DEF Receive
<1>4. s.items \in Nat /\ "held" \in States
  BY ServerAssumption DEF States
<1>5. /\ held' \in [Conns -> Reqs \cup {NoReq}] /\ conn' \in [Reqs -> Conns]
      /\ shape' \in [Reqs -> Shapes] /\ left' \in [Reqs -> Nat]
      /\ st' \in [Reqs -> States]
  BY <1>2, <1>3, <1>4
<1>6. TypeOK'
  BY <1>1, <1>3, <1>5 DEF TypeOK, history, permits, fgVars
<1>7. Outside
  BY <1>2, <1>3 DEF Outside, Handling
<1>8. PermitsExact' /\ Expected
  BY <1>1, <1>3, <1>7, OutsideFacts DEF Booked
<1>9. HeldProper'
  <2> SUFFICES ASSUME NEW j \in Conns, held'[j] # NoReq
               PROVE  st'[held'[j]] = "held" /\ conn'[held'[j]] = j
    BY DEF HeldProper
  <2>1. CASE j = k
    BY <1>2, <1>3, <2>1
  <2>2. CASE j # k
    <3>1. held'[j] = held[j] /\ held[j] # NoReq
      BY <1>2, <1>3, <2>2
    <3>2. held[j] \in Reqs /\ st[held[j]] = "held" /\ conn[held[j]] = j
      BY <1>1, <1>2, <3>1 DEF Booked, HeldProper
    <3> QED
      BY <1>2, <1>3, <3>1, <3>2
  <2> QED
    BY <2>1, <2>2
<1>10. FetchesExact'
  BY <1>1, <1>3, FetchesKept
<1>11. Governed'
  BY <1>1, <1>3, <1>8, LoopsKept, GovernorIdle
<1> QED
  BY <1>6, <1>8, <1>9, <1>10, <1>11 DEF IInv, Booked

LEMMA IgnoreStep ==
    ASSUME IInv, NEW k \in Conns, NEW r \in Reqs, Ignore(k, r)
    PROVE  IInv'
<1>1. TypeOK /\ Booked /\ FetchesExact /\ Governed
  BY DEF IInv
<1>2. /\ held \in [Conns -> Reqs \cup {NoReq}] /\ st \in [Reqs -> States]
  BY <1>1 DEF TypeOK
<1>3. /\ st[r] = "unsent" /\ st' = [st EXCEPT ![r] = "gone"]
      /\ UNCHANGED <<now, choker, lock, linkVars, permits, conn, shape, at, saw,
                     left, admitted, history, fgVars, pauses>>
  BY DEF Ignore
<1>4. st' \in [Reqs -> States]
  BY <1>2, <1>3 DEF States, Ended
<1>5. TypeOK'
  BY <1>1, <1>3, <1>4 DEF TypeOK, history, linkVars, permits, fgVars
<1>6. Outside
  BY <1>2, <1>3 DEF Outside, Handling
<1>7. PermitsExact' /\ Expected
  BY <1>1, <1>3, <1>6, OutsideFacts DEF Booked
<1>8. HeldProper'
  <2> SUFFICES ASSUME NEW j \in Conns, held[j] # NoReq
               PROVE  st'[held[j]] = "held" /\ conn'[held[j]] = j
    BY <1>3 DEF HeldProper, linkVars
  <2>1. held[j] \in Reqs /\ st[held[j]] = "held" /\ conn[held[j]] = j
    BY <1>1, <1>2 DEF Booked, HeldProper
  <2> QED
    BY <1>2, <1>3, <2>1
<1>9. FetchesExact'
  BY <1>1, <1>3, FetchesKept
<1>10. Governed'
  BY <1>1, <1>3, <1>7, LoopsKept, GovernorIdle DEF linkVars
<1> QED
  BY <1>5, <1>7, <1>8, <1>9, <1>10 DEF IInv, Booked

\* The loop lets go of the request it holds.
LEMMA HeldDropped ==
    ASSUME TypeOK, Booked, NEW k \in Conns, held' = [held EXCEPT ![k] = NoReq],
           conn' = conn, \A q \in Reqs : q # held[k] => st'[q] = st[q]
    PROVE  HeldProper' /\ held' \in [Conns -> Reqs \cup {NoReq}]
<1>1. held \in [Conns -> Reqs \cup {NoReq}]
  BY DEF TypeOK
<1>2. ASSUME NEW j \in Conns, held'[j] # NoReq
      PROVE  st'[held'[j]] = "held" /\ conn'[held'[j]] = j
  <2>1. j # k /\ held'[j] = held[j] /\ held[j] # NoReq
    BY <1>1, <1>2
  <2>2. held[j] \in Reqs /\ st[held[j]] = "held" /\ conn[held[j]] = j
    BY <1>1, <2>1 DEF Booked, HeldProper
  <2>3. held[j] # held[k]
    BY <2>1, <2>2 DEF Booked, HeldProper
  <2> QED
    BY <2>1, <2>2, <2>3
<1> QED
  BY <1>1, <1>2 DEF HeldProper

LEMMA TakePermitStep ==
    ASSUME IInv, NEW k \in Conns, TakePermit(k)
    PROVE  IInv'
<1>1. TypeOK /\ Booked /\ FetchesExact /\ Governed
  BY DEF IInv
<1>2. /\ held \in [Conns -> Reqs \cup {NoReq}] /\ st \in [Reqs -> States]
      /\ serves \in [Conns -> Nat]
  BY <1>1 DEF TypeOK
<1>3. /\ held[k] # NoReq /\ serves[k] < MaxServes
      /\ serves' = [serves EXCEPT ![k] = @ + 1]
      /\ st' = [st EXCEPT ![held[k]] = "gate"]
      /\ held' = [held EXCEPT ![k] = NoReq]
      /\ UNCHANGED <<now, choker, lock, link, queued, encoding, conn, shape, at,
                     saw, left, admitted, history, fgVars, pauses>>
  BY DEF TakePermit
<1>4. PICK r \in Reqs : r = held[k]
  BY <1>2, <1>3
<1>5. st[r] = "held" /\ conn[r] = k
  BY <1>1, <1>3, <1>4 DEF Booked, HeldProper
<1>6. HeldProper' /\ held' \in [Conns -> Reqs \cup {NoReq}]
  BY <1>1, <1>2, <1>3, HeldDropped
<1>7. Alone(r)
  BY <1>2, <1>3, <1>4 DEF Alone
<1>8. /\ \A j \in Conns : /\ r \notin Handlers(j)
                          /\ r \in Handlers(j)' <=> j = k
      /\ r \notin InQueue /\ r \notin InQueue'
      /\ r \notin Encoding /\ r \notin Encoding'
  BY <1>2, <1>3, <1>4, <1>5 DEF Handlers, InQueue, Encoding, Handling
<1>9. PermitsExact
  BY <1>1 DEF Booked
<1>10. ASSUME NEW j \in Conns
       PROVE  /\ serves'[j] = Cardinality(Handlers(j)')
              /\ serves'[j] <= MaxServes /\ serves'[j] \in Nat
  <2>1. /\ serves[j] \in Nat
        /\ j # k => Cardinality(Handlers(j)') = serves[j]
        /\ j = k => Cardinality(Handlers(j)') = serves[j] + 1
    BY <1>7, <1>8, <1>9, AloneCounts
  <2>2. serves'[j] = IF j = k THEN serves[j] + 1 ELSE serves[j]
    BY <1>2, <1>3
  <2>3. serves[j] <= MaxServes /\ MaxServes \in Nat /\ serves[k] < MaxServes
    BY <1>3, <1>9, ServerAssumption DEF PermitsExact
  <2> QED
    BY <2>1, <2>2, <2>3
<1>11. Cardinality(InQueue') = queued /\ Cardinality(Encoding') = encoding
  BY <1>7, <1>8, <1>9, AloneCounts
<1>12. PermitsExact'
  BY <1>3, <1>9, <1>10, <1>11 DEF PermitsExact
<1>13. serves' \in [Conns -> Nat] /\ st' \in [Reqs -> States]
  BY <1>2, <1>3, <1>10 DEF States, Handling
<1>14. TypeOK'
  BY <1>1, <1>3, <1>6, <1>13 DEF TypeOK, history, fgVars
<1>15. Expected
  BY <1>2, <1>3, <1>4 DEF Expected
<1>16. FetchesExact'
  BY <1>1, <1>3, FetchesKept
<1>17. Governed'
  BY <1>1, <1>3, <1>15, LoopsKept, GovernorIdle
<1> QED
  BY <1>6, <1>12, <1>14, <1>16, <1>17 DEF IInv, Booked

LEMMA PermitTimeoutStep ==
    ASSUME IInv, NEW k \in Conns, PermitTimeout(k)
    PROVE  IInv'
<1>1. TypeOK /\ Booked /\ FetchesExact /\ Governed
  BY DEF IInv
<1>2. held \in [Conns -> Reqs \cup {NoReq}] /\ st \in [Reqs -> States]
  BY <1>1 DEF TypeOK
<1>3. /\ held[k] # NoReq
      /\ st' = [st EXCEPT ![held[k]] = "replied"]
      /\ held' = [held EXCEPT ![k] = NoReq]
      /\ UNCHANGED <<now, choker, lock, link, permits, conn, shape, at, saw,
                     left, admitted, history, fgVars, pauses>>
  BY DEF PermitTimeout
<1>4. st[held[k]] = "held" /\ held[k] \in Reqs
  BY <1>1, <1>2, <1>3 DEF Booked, HeldProper
<1>5. HeldProper' /\ held' \in [Conns -> Reqs \cup {NoReq}]
  BY <1>1, <1>2, <1>3, HeldDropped
<1>6. Outside
  BY <1>2, <1>3, <1>4 DEF Outside, Handling
<1>7. PermitsExact' /\ Expected
  BY <1>1, <1>3, <1>6, OutsideFacts DEF Booked
<1>8. st' \in [Reqs -> States]
  BY <1>2, <1>3 DEF States, Ended
<1>9. TypeOK'
  BY <1>1, <1>3, <1>5, <1>8 DEF TypeOK, history, permits, fgVars
<1>10. FetchesExact'
  BY <1>1, <1>3, FetchesKept
<1>11. Governed'
  BY <1>1, <1>3, <1>7, LoopsKept, GovernorIdle
<1> QED
  BY <1>5, <1>7, <1>9, <1>10, <1>11 DEF IInv, Booked

-----------------------------------------------------------------------------
(* The foreground flag.                                                    *)

\* Nothing moves but the players.
LEMMA PlayersOnly ==
    ASSUME IInv, UNCHANGED <<now, choker, lock, linkVars, permits, reqVars, history, pauses>>,
           flag' \in BOOLEAN, fetches' \in Nat,
           player' \in [Players -> {"out", "raise", "in", "lower"}], FetchesExact'
    PROVE  IInv'
<1>1. TypeOK /\ Booked /\ FetchesExact /\ Governed
  BY DEF IInv
<1>2. TypeOK'
  BY <1>1 DEF TypeOK, history, linkVars, permits, reqVars
<1>3. Outside
  BY DEF Outside, reqVars
<1>4. PermitsExact' /\ Expected
  BY <1>1, <1>3, OutsideFacts DEF Booked
<1>5. HeldProper'
  BY <1>1 DEF Booked, HeldProper, linkVars, reqVars
<1>6. Governed'
  BY <1>1, <1>4, LoopsKept, GovernorIdle DEF linkVars
<1> QED
  BY <1>2, <1>4, <1>5, <1>6 DEF IInv, Booked

LEMMA PlayerCount ==
    ASSUME TypeOK, FetchesExact, NEW f \in Players, NEW s, player' = [player EXCEPT ![f] = s],
           s \in {"out", "raise", "in", "lower"}
    PROVE  /\ player' \in [Players -> {"out", "raise", "in", "lower"}]
           /\ fetches \in Nat /\ Cardinality(Playing') \in Nat
           /\ (player[f] \in {"raise", "in"} <=> s \in {"raise", "in"})
                 => Cardinality(Playing') = fetches
           /\ player[f] \in {"raise", "in"} /\ s \notin {"raise", "in"}
                 => Cardinality(Playing') = fetches - 1
           /\ player[f] \notin {"raise", "in"} /\ s \in {"raise", "in"}
                 => Cardinality(Playing') = fetches + 1
<1>1. player \in [Players -> {"out", "raise", "in", "lower"}]
  BY DEF TypeOK
<1>2. PICK S : S = Playing
  OBVIOUS
<1>3. PICK T : T = Playing'
  OBVIOUS
<1>4. IsFiniteSet(S)
  BY <1>2, ServerAssumption, FS_Subset DEF Playing
<1>5. T \ {f} = S \ {f}
  BY <1>1, <1>2, <1>3 DEF Playing
<1>6. /\ f \in S <=> player[f] \in {"raise", "in"}
      /\ f \in T <=> s \in {"raise", "in"}
  BY <1>1, <1>2, <1>3 DEF Playing
<1>7. fetches = Cardinality(S)
  BY <1>2 DEF FetchesExact
<1>8. /\ Cardinality(S) \in Nat /\ Cardinality(T) \in Nat
      /\ (f \in S <=> f \in T) => Cardinality(T) = Cardinality(S)
      /\ f \in S /\ f \notin T => Cardinality(T) = Cardinality(S) - 1
      /\ f \notin S /\ f \in T => Cardinality(T) = Cardinality(S) + 1
  BY <1>4, <1>5, CountOne
<1>9. player' \in [Players -> {"out", "raise", "in", "lower"}]
  BY <1>1
<1> QED
  BY <1>3, <1>6, <1>7, <1>8, <1>9

LEMMA PlayerStep ==
    ASSUME IInv, NEW f \in Players,
           StartPlaying(f) \/ Raise(f) \/ StopPlaying(f) \/ Lower(f)
    PROVE  IInv'
<1>1. TypeOK /\ FetchesExact /\ flag \in BOOLEAN
  BY DEF IInv, TypeOK
<1>2. CASE StartPlaying(f)
  <2>1. PICK s \in {"raise", "in"} : player' = [player EXCEPT ![f] = s]
    BY <1>2 DEF StartPlaying
  <2>2. /\ player' \in [Players -> {"out", "raise", "in", "lower"}]
        /\ fetches \in Nat /\ Cardinality(Playing') = fetches + 1
    BY <1>1, <1>2, <2>1, PlayerCount DEF StartPlaying
  <2>3. fetches' \in Nat /\ FetchesExact'
    BY <1>2, <2>2 DEF StartPlaying, FetchesExact
  <2> QED
    BY <1>1, <1>2, <2>2, <2>3, PlayersOnly DEF StartPlaying
<1>3. CASE Raise(f)
  <2>1. PICK s \in {"raise", "in"} : s = "in" /\ player' = [player EXCEPT ![f] = s]
    BY <1>3 DEF Raise
  <2>2. /\ player' \in [Players -> {"out", "raise", "in", "lower"}]
        /\ fetches \in Nat /\ Cardinality(Playing') = fetches
    BY <1>1, <1>3, <2>1, PlayerCount DEF Raise
  <2>3. fetches' \in Nat /\ FetchesExact' /\ flag' \in BOOLEAN
    BY <1>3, <2>2 DEF Raise, FetchesExact
  <2> QED
    BY <1>3, <2>2, <2>3, PlayersOnly DEF Raise
<1>4. CASE StopPlaying(f)
  <2>1. PICK s \in {"lower", "out"} : player' = [player EXCEPT ![f] = s]
    BY <1>4 DEF StopPlaying
  <2>2. /\ player' \in [Players -> {"out", "raise", "in", "lower"}]
        /\ Cardinality(Playing') \in Nat /\ Cardinality(Playing') = fetches - 1
    BY <1>1, <1>4, <2>1, PlayerCount DEF StopPlaying
  <2>3. fetches' \in Nat /\ FetchesExact'
    BY <1>4, <2>2 DEF StopPlaying, FetchesExact
  <2> QED
    BY <1>1, <1>4, <2>2, <2>3, PlayersOnly DEF StopPlaying
<1>5. CASE Lower(f)
  <2>1. PICK s \in {"lower", "out"} : s = "out" /\ player' = [player EXCEPT ![f] = s]
    BY <1>5 DEF Lower
  <2>2. /\ player' \in [Players -> {"out", "raise", "in", "lower"}]
        /\ fetches \in Nat /\ Cardinality(Playing') = fetches
    BY <1>1, <1>5, <2>1, PlayerCount DEF Lower
  <2>3. fetches' \in Nat /\ FetchesExact' /\ flag' \in BOOLEAN
    BY <1>5, <2>2 DEF Lower, FetchesExact
  <2> QED
    BY <1>5, <2>2, <2>3, PlayersOnly DEF Lower
<1> QED
  BY <1>2, <1>3, <1>4, <1>5

-----------------------------------------------------------------------------
(* Connections and the other callers of the governor.                      *)

\* The governor is told something that makes its cached set dirty.
LEMMA GovernorTold ==
    ASSUME Governed, ConnsPaired', Tracked(choker'), choker'.dirty,
           choker'.bytes = choker.bytes, choker'.ts = choker.ts,
           UNCHANGED history, Expected
    PROVE  Governed'
<1>0. paint' = paint /\ late' = late
  BY DEF history
<1>1. CacheSound' /\ choker'.bytes <= Cap
  BY DEF Governed, CacheSound
<1>2. CapHeldInOrder' /\ BucketFollows' /\ Spared(choker, late)'
  BY <1>0 DEF Governed, CapHeldInOrder, BucketFollows, Spared
<1>3. Tracked(choker)'
  BY DEF Tracked
<1>4. Readings'
  BY DEF Governed, Readings, Expected
<1> QED
  BY <1>1, <1>2, <1>3, <1>4 DEF Governed

\* One loop starts or ends.
LEMMA LoopCount ==
    ASSUME ConnsPaired, NEW k \in Conns,
           \A j \in Conns : j # k => (Served(j)' <=> Served(j))
    PROVE  \A p \in Peers :
              LET n == Cardinality({j \in Conns : PeerOf[j] = p /\ Served(j)'}) IN
              /\ p # PeerOf[k] => n = choker.acct[p].conns
              /\ p = PeerOf[k] /\ Served(k) /\ ~Served(k)' => n = choker.acct[p].conns - 1
              /\ p = PeerOf[k] /\ ~Served(k) /\ Served(k)' => n = choker.acct[p].conns + 1
              /\ n \in Nat
<1> SUFFICES ASSUME NEW p \in Peers, NEW T,
                    T = {j \in Conns : PeerOf[j] = p /\ Served(j)'}
             PROVE  /\ p # PeerOf[k] => Cardinality(T) = choker.acct[p].conns
                    /\ p = PeerOf[k] /\ Served(k) /\ ~Served(k)'
                          => Cardinality(T) = choker.acct[p].conns - 1
                    /\ p = PeerOf[k] /\ ~Served(k) /\ Served(k)'
                          => Cardinality(T) = choker.acct[p].conns + 1
                    /\ Cardinality(T) \in Nat
  OBVIOUS
<1>1. PICK S : S = {j \in Conns : PeerOf[j] = p /\ Served(j)}
  OBVIOUS
<1>2. IsFiniteSet(S) /\ choker.acct[p].conns = Cardinality(S)
  BY <1>1, LoopSets DEF ConnsPaired
<1>3. T \ {k} = S \ {k}
  BY <1>1
<1>4. /\ k \in S <=> PeerOf[k] = p /\ Served(k)
      /\ k \in T <=> PeerOf[k] = p /\ Served(k)'
  BY <1>1
<1>5. /\ Cardinality(S) \in Nat /\ Cardinality(T) \in Nat
      /\ (k \in S <=> k \in T) => Cardinality(T) = Cardinality(S)
      /\ k \in S /\ k \notin T => Cardinality(T) = Cardinality(S) - 1
      /\ k \notin S /\ k \in T => Cardinality(T) = Cardinality(S) + 1
  BY <1>2, <1>3, CountOne
<1> QED
  BY <1>2, <1>4, <1>5

LEMMA LinkCutStep ==
    ASSUME IInv, NEW k \in Conns, LinkCut(k)
    PROVE  IInv'
<1>1. TypeOK /\ Booked /\ FetchesExact /\ Governed
  BY DEF IInv
<1>2. link' \in [Conns -> {"down", "up", "cut", "drain"}] /\ LoopsSame
  BY <1>1 DEF TypeOK, LinkCut, LoopsSame, Served
<1>3. TypeOK'
  BY <1>1, <1>2 DEF TypeOK, history, LinkCut, permits, reqVars, fgVars
<1>4. Outside
  BY DEF Outside, LinkCut, reqVars
<1>5. PermitsExact' /\ Expected
  BY <1>1, <1>4, OutsideFacts DEF Booked, LinkCut
<1>6. HeldProper'
  BY <1>1 DEF Booked, HeldProper, LinkCut, reqVars
<1>7. FetchesExact'
  BY <1>1, FetchesKept DEF LinkCut
<1>8. Governed'
  BY <1>1, <1>2, <1>5, GovernorIdle DEF LinkCut
<1> QED
  BY <1>3, <1>5, <1>6, <1>7, <1>8 DEF IInv, Booked

LEMMA NowNat ==
    ASSUME TypeOK
    PROVE  now \in Nat
BY ServerAssumption DEF TypeOK

LEMMA HelloOkStep ==
    ASSUME IInv, NEW k \in Conns, HelloOk(k)
    PROVE  IInv'
<1>1. TypeOK /\ Booked /\ FetchesExact /\ Governed
  BY DEF IInv
<1>2. /\ link[k] = "down" /\ link' = [link EXCEPT ![k] = "up"]
      /\ choker' \in NoteConnected(choker, PeerOf[k], ReachOf[k], now)
      /\ UNCHANGED <<now, lock, held, permits, reqVars, history, fgVars, pauses>>
  BY DEF HelloOk
<1>3. /\ choker \in Chokers /\ Tracked(choker) /\ PeerOf[k] \in Peers
      /\ ReachOf[k] \in Reaches /\ now \in Nat
      /\ link \in [Conns -> {"down", "up", "cut", "drain"}]
  BY <1>1, ServerAssumption, NowNat DEF TypeOK, Governed
<1>4. /\ choker' \in Chokers /\ Tracked(choker') /\ choker'.dirty
      /\ choker'.acct[PeerOf[k]].conns = choker.acct[PeerOf[k]].conns + 1
      /\ \A q \in Peers : q # PeerOf[k] => choker'.acct[q].conns = choker.acct[q].conns
      /\ choker'.bytes = choker.bytes /\ choker'.ts = choker.ts
  BY <1>2, <1>3, NoteConnectedFacts
<1>5. /\ link' \in [Conns -> {"down", "up", "cut", "drain"}]
      /\ \A j \in Conns : j # k => (Served(j)' <=> Served(j))
      /\ ~Served(k) /\ Served(k)'
  BY <1>2, <1>3 DEF Served
<1>6. ConnsPaired'
  BY <1>1, <1>4, <1>5, LoopCount DEF Governed, ConnsPaired
<1>7. TypeOK'
  BY <1>1, <1>2, <1>4, <1>5 DEF TypeOK, history, permits, reqVars, fgVars
<1>8. Outside
  BY <1>2 DEF Outside, reqVars
<1>9. PermitsExact' /\ Expected
  BY <1>1, <1>2, <1>8, OutsideFacts DEF Booked
<1>10. HeldProper'
  BY <1>1, <1>2 DEF Booked, HeldProper, reqVars
<1>11. FetchesExact'
  BY <1>1, <1>2, FetchesKept
<1>12. Governed'
  BY <1>1, <1>2, <1>4, <1>6, <1>9, GovernorTold
<1> QED
  BY <1>7, <1>9, <1>10, <1>11, <1>12 DEF IInv, Booked

\* The guard's drop, whichever way the loop ended.
LEMMA LoopGone ==
    ASSUME TypeOK, Governed, NEW k \in Conns, Served(k),
           choker' \in NoteDisconnected(choker, PeerOf[k], now),
           link' = [link EXCEPT ![k] = AfterLoop(k)],
           now' = now, UNCHANGED history, Expected
    PROVE  /\ Governed' /\ choker' \in Chokers
           /\ link' \in [Conns -> {"down", "up", "cut", "drain"}]
<1>1. /\ choker \in Chokers /\ Tracked(choker) /\ PeerOf[k] \in Peers
      /\ now \in Nat /\ link \in [Conns -> {"down", "up", "cut", "drain"}]
  BY ServerAssumption, NowNat DEF TypeOK, Governed
<1>2. /\ choker' \in Chokers /\ Tracked(choker') /\ choker'.dirty
      /\ choker'.acct[PeerOf[k]].conns = IF choker.acct[PeerOf[k]].conns = 0 THEN 0
                                         ELSE choker.acct[PeerOf[k]].conns - 1
      /\ \A q \in Peers : q # PeerOf[k] => choker'.acct[q].conns = choker.acct[q].conns
      /\ choker'.bytes = choker.bytes /\ choker'.ts = choker.ts
  BY <1>1, NoteDisconnectedFacts
<1>3. AfterLoop(k) \in {"down", "drain"}
  BY DEF AfterLoop
<1>4. /\ link' \in [Conns -> {"down", "up", "cut", "drain"}]
      /\ \A j \in Conns : j # k => (Served(j)' <=> Served(j))
      /\ ~Served(k)'
  BY <1>1, <1>3 DEF Served
<1>5. /\ choker.acct[PeerOf[k]].conns \in Nat
      /\ Cardinality({j \in Conns : PeerOf[j] = PeerOf[k] /\ Served(j)'})
            = choker.acct[PeerOf[k]].conns - 1
      /\ Cardinality({j \in Conns : PeerOf[j] = PeerOf[k] /\ Served(j)'}) \in Nat
  BY <1>1, <1>4, LoopCount, ChokerFields, AccountFields DEF Governed
<1>6. \A p \in Peers : p # PeerOf[k] =>
         Cardinality({j \in Conns : PeerOf[j] = p /\ Served(j)'}) = choker.acct[p].conns
  BY <1>4, LoopCount DEF Governed
<1>7. ConnsPaired'
  <2>1. choker'.acct[PeerOf[k]].conns
           = Cardinality({j \in Conns : PeerOf[j] = PeerOf[k] /\ Served(j)'})
    <3>1. PICK n \in Nat : n = choker.acct[PeerOf[k]].conns
      BY <1>5
    <3>2. PICK m \in Nat : m = Cardinality({j \in Conns : PeerOf[j] = PeerOf[k] /\ Served(j)'})
      BY <1>5
    <3>3. m = n - 1
      BY <1>5, <3>1, <3>2
    <3>4. choker'.acct[PeerOf[k]].conns = IF n = 0 THEN 0 ELSE n - 1
      BY <1>2, <3>1
    <3> QED
      BY <3>2, <3>3, <3>4
  <2>2. \A p \in Peers :
           choker'.acct[p].conns = Cardinality({j \in Conns : PeerOf[j] = p /\ Served(j)'})
    BY <1>2, <1>6, <2>1
  <2> QED
    BY <2>2 DEF ConnsPaired
<1> QED
  BY <1>2, <1>4, <1>7, GovernorTold

LEMMA LoopEndsStep ==
    ASSUME IInv, NEW k \in Conns, LoopEnds(k)
    PROVE  IInv'
<1>1. TypeOK /\ Booked /\ FetchesExact /\ Governed
  BY DEF IInv
<1>2. Outside
  BY DEF Outside, LoopEnds, reqVars
<1>3. PermitsExact' /\ Expected
  BY <1>1, <1>2, OutsideFacts DEF Booked, LoopEnds
<1>4. /\ Governed' /\ choker' \in Chokers
      /\ link' \in [Conns -> {"down", "up", "cut", "drain"}]
  BY <1>1, <1>3, LoopGone DEF LoopEnds
<1>5. TypeOK'
  BY <1>1, <1>4 DEF TypeOK, history, LoopEnds, permits, reqVars, fgVars
<1>6. HeldProper'
  BY <1>1 DEF Booked, HeldProper, LoopEnds, reqVars
<1>7. FetchesExact'
  BY <1>1, FetchesKept DEF LoopEnds
<1> QED
  BY <1>3, <1>4, <1>5, <1>6, <1>7 DEF IInv, Booked

LEMMA AbortStep ==
    ASSUME IInv, NEW k \in Conns, Abort(k)
    PROVE  IInv'
<1>1. TypeOK /\ Booked /\ FetchesExact /\ Governed
  BY DEF IInv
<1>2. /\ held' = [held EXCEPT ![k] = NoReq]
      /\ st' = [r \in Reqs |-> IF held[k] = r THEN "gone" ELSE st[r]]
      /\ UNCHANGED <<now, lock, permits, conn, shape, at, saw, left, admitted,
                     history, fgVars, pauses>>
  BY DEF Abort
<1>3. \A r \in Reqs : held[k] = r => st[r] = "held"
  BY <1>1, NoReqAssumption DEF Booked, HeldProper
<1>4. Outside
  BY <1>2, <1>3 DEF Outside, Handling
<1>5. PermitsExact' /\ Expected
  BY <1>1, <1>2, <1>4, OutsideFacts DEF Booked
<1>6. HeldProper' /\ held' \in [Conns -> Reqs \cup {NoReq}]
  BY <1>1, <1>2, HeldDropped
<1>7. /\ Governed' /\ choker' \in Chokers
      /\ link' \in [Conns -> {"down", "up", "cut", "drain"}]
  BY <1>1, <1>5, LoopGone DEF Abort
<1>8. st' \in [Reqs -> States]
  BY <1>1, <1>2 DEF TypeOK, States, Ended
<1>9. TypeOK'
  BY <1>1, <1>2, <1>6, <1>7, <1>8 DEF TypeOK, history, permits, fgVars
<1>10. FetchesExact'
  BY <1>1, <1>2, FetchesKept
<1> QED
  BY <1>5, <1>6, <1>7, <1>9, <1>10 DEF IInv, Booked

LEMMA CreditStep ==
    ASSUME IInv, NEW p \in Peers, Credit(p)
    PROVE  IInv'
<1>1. TypeOK /\ Booked /\ FetchesExact /\ Governed
  BY DEF IInv
<1>2. /\ choker' \in CreditPeer(choker, p, 1, now)
      /\ UNCHANGED <<now, lock, linkVars, permits, reqVars, history, fgVars, pauses>>
  BY DEF Credit
<1>3. choker \in Chokers /\ Tracked(choker) /\ now \in Nat
  BY <1>1, NowNat DEF TypeOK, Governed
<1>4. /\ choker' \in Chokers /\ Tracked(choker') /\ choker'.dirty
      /\ \A q \in Peers : choker'.acct[q].conns = choker.acct[q].conns
      /\ choker'.bytes = choker.bytes /\ choker'.ts = choker.ts
  BY <1>2, <1>3, CreditPeerFacts
<1>5. ConnsPaired'
  BY <1>1, <1>2, <1>4 DEF Governed, ConnsPaired, Served, linkVars
<1>6. TypeOK'
  BY <1>1, <1>2, <1>4 DEF TypeOK, history, linkVars, permits, reqVars, fgVars
<1>7. Outside
  BY <1>2 DEF Outside, reqVars
<1>8. PermitsExact' /\ Expected
  BY <1>1, <1>2, <1>7, OutsideFacts DEF Booked
<1>9. HeldProper'
  BY <1>1, <1>2 DEF Booked, HeldProper, reqVars, linkVars
<1>10. FetchesExact'
  BY <1>1, <1>2, FetchesKept
<1>11. Governed'
  BY <1>1, <1>2, <1>4, <1>5, <1>8, GovernorTold
<1> QED
  BY <1>6, <1>8, <1>9, <1>10, <1>11 DEF IInv, Booked

\* The governor rules, or is paused: no connection changes.
LEMMA GovernorSteady ==
    ASSUME Governed, Steady(choker, choker'), LoopsSame, Expected,
           choker'.bytes <= Cap, CapHeldInOrder', BucketFollows',
           Spared(choker', late')
    PROVE  Governed'
<1>1. ConnsPaired'
  <2>1. \A p \in Peers : {k \in Conns : PeerOf[k] = p /\ Served(k)'}
                            = {k \in Conns : PeerOf[k] = p /\ Served(k)}
    BY DEF LoopsSame
  <2>2. \A p \in Peers : choker'.acct[p].conns = choker.acct[p].conns
    BY DEF Steady
  <2> QED
    BY <2>1, <2>2 DEF Governed, ConnsPaired
<1>2. Sound(choker')
  BY SoundIs DEF Governed, Steady
<1>3. CacheSound'
  BY <1>2 DEF CacheSound, Sound, Connected
<1>4. Tracked(choker)'
  BY DEF Steady, Tracked
<1>5. Spared(choker, late)'
  BY SparedSame
<1>6. Readings'
  BY DEF Governed, Readings, Expected
<1> QED
  BY <1>1, <1>3, <1>4, <1>5, <1>6 DEF Governed

LEMMA PauseStep ==
    ASSUME IInv, Pause
    PROVE  IInv'
<1>1. TypeOK /\ Booked /\ FetchesExact /\ Governed
  BY DEF IInv
<1>2. /\ choker' = SetPaused(choker, ~choker.paused)
      /\ pauses' = IF choker.paused THEN pauses ELSE pauses + 1
      /\ UNCHANGED <<now, lock, linkVars, permits, reqVars, history, fgVars>>
  BY DEF Pause
<1>3. choker \in Chokers /\ Tracked(choker)
  BY <1>1 DEF TypeOK, Governed
<1>4. /\ choker' \in Chokers /\ Keeps(choker, choker')
      /\ choker'.bytes = choker.bytes /\ choker'.ts = choker.ts
  BY <1>2, <1>3 DEF SetPaused, Chokers, Keeps
<1>5. Steady(choker, choker')
  BY <1>3, <1>4, KeepsSteady
<1>6. TypeOK'
  BY <1>1, <1>2, <1>4 DEF TypeOK, history, linkVars, permits, reqVars, fgVars
<1>7. Outside
  BY <1>2 DEF Outside, reqVars
<1>8. PermitsExact' /\ Expected
  BY <1>1, <1>2, <1>7, OutsideFacts DEF Booked
<1>9. HeldProper'
  BY <1>1, <1>2 DEF Booked, HeldProper, reqVars, linkVars
<1>10. FetchesExact'
  BY <1>1, <1>2, FetchesKept
<1>11. CapHeldInOrder' /\ BucketFollows' /\ Spared(choker', late')
  <2>1. paint' = paint /\ late' = late
    BY <1>2 DEF history
  <2> QED
    BY <1>1, <1>3, <1>4, <2>1, KeepsFacts DEF Governed, CapHeldInOrder, BucketFollows
<1>12. LoopsSame /\ choker'.bytes <= Cap /\ now' = now
  BY <1>1, <1>2, <1>4, LoopsKept DEF linkVars, Governed
<1>13. Governed'
  BY <1>1, <1>5, <1>8, <1>11, <1>12, GovernorSteady
<1> QED
  BY <1>6, <1>8, <1>9, <1>10, <1>13 DEF IInv, Booked

LEMMA TickStep ==
    ASSUME IInv, Tick
    PROVE  IInv'
<1>1. TypeOK /\ Booked /\ FetchesExact /\ Governed
  BY DEF IInv
<1>2. /\ now < MaxTime /\ now' = now + 1
      /\ paint' = [s \in 0 .. MaxTime |-> IF s + MaxLag <= now THEN 0 ELSE paint[s]]
      /\ UNCHANGED <<late, choker, lock, linkVars, permits, reqVars, fgVars, pauses>>
  BY DEF Tick
<1>3. now \in Nat /\ MaxTime \in Nat /\ paint \in [0 .. MaxTime -> Nat]
      /\ choker \in Chokers
  BY <1>1, ServerAssumption, NowNat DEF TypeOK
<1>4. now' \in 0 .. MaxTime /\ paint' \in [0 .. MaxTime -> Nat]
  BY <1>2, <1>3
<1>5. TypeOK'
  BY <1>1, <1>2, <1>4 DEF TypeOK, history, linkVars, permits, reqVars, fgVars
<1>6. Outside
  BY <1>2 DEF Outside, reqVars
<1>7. PermitsExact'
  BY <1>1, <1>2, <1>6, OutsideFacts DEF Booked
<1>8. HeldProper'
  BY <1>1, <1>2 DEF Booked, HeldProper, reqVars, linkVars
<1>9. FetchesExact'
  BY <1>1, <1>2, FetchesKept
<1>10. ConnsPaired' /\ Tracked(choker)' /\ CacheSound' /\ (choker.bytes <= Cap)'
  BY <1>1, <1>2 DEF Governed, ConnsPaired, Served, linkVars, Tracked, CacheSound, Connected
<1>11. CapHeldInOrder' /\ BucketFollows'
  <2>1. ASSUME NEW s \in (0 .. MaxTime) \ late
        PROVE  /\ paint'[s] <= Cap
               /\ s = choker.ts => paint'[s] <= choker.bytes
               /\ s > choker.ts => paint'[s] = 0
    <3>1. paint'[s] \in {0, paint[s]}
      BY <1>2
    <3>2. /\ paint[s] <= Cap
          /\ s = choker.ts => paint[s] <= choker.bytes
          /\ s > choker.ts => paint[s] = 0
      BY <1>1 DEF Governed, CapHeldInOrder, BucketFollows
    <3>3. 0 <= Cap /\ 0 <= choker.bytes
      BY <1>3, ChokerFields, ChokerAssumption
    <3> QED
      BY <3>1, <3>2, <3>3
  <2> QED
    BY <1>2, <2>1 DEF CapHeldInOrder, BucketFollows
<1>12. Spared(choker, late)' /\ Readings'
  <2>1. Spared(choker', late')
    BY <1>1, <1>2 DEF Governed
  <2>2. Readings'
    BY <1>1, <1>2 DEF Governed, Readings, reqVars
  <2> QED
    BY <2>1, <2>2, SparedSame
<1>13. Governed'
  BY <1>10, <1>11, <1>12 DEF Governed
<1> QED
  BY <1>5, <1>7, <1>8, <1>9, <1>13 DEF IInv, Booked

-----------------------------------------------------------------------------
(* Decisions.                                                              *)

\* The history gains what the bucket gains; the seconds a ruling goes back over
\* are given up.
LEMMA PaintedFacts ==
    ASSUME TypeOK, Governed, NEW r \in Reqs, NEW p, NEW v, NEW fp \in BOOLEAN,
           Ruling(choker, choker', v, p, shape[r].size, fp, at[r]),
           choker.paused => choker' = choker /\ v = "throttled",
           ~choker.paused => choker'.ts = at[r],
           v = "serve" /\ shape[r].kind # "bulk" => fp,
           paint' = Painted(r, v), late' = Overtaken(r)
    PROVE  /\ paint' \in [0 .. MaxTime -> Nat] /\ late' \subseteq 0 .. MaxTime
           /\ CapHeldInOrder' /\ BucketFollows'
<1>1. /\ paint \in [0 .. MaxTime -> Nat] /\ at[r] \in 0 .. MaxTime
      /\ shape[r] \in Shapes /\ choker \in Chokers /\ late \subseteq 0 .. MaxTime
      /\ CapHeldInOrder /\ BucketFollows /\ choker.bytes <= Cap
  BY DEF TypeOK, Governed
<1>2. PICK b \in Nat : b = shape[r].size
  BY <1>1, ServerAssumption
<1>3. PICK P \in BOOLEAN : P = (v = "paint" \/ (v = "serve" /\ shape[r].kind # "bulk"))
  OBVIOUS
<1>4. paint' = IF P THEN [paint EXCEPT ![at[r]] = @ + b] ELSE paint
  BY <1>2, <1>3 DEF Painted
<1>5. paint' \in [0 .. MaxTime -> Nat]
  BY <1>1, <1>4
<1>6. PICK t \in Nat : t = at[r]
  BY <1>1, ServerAssumption
<1>7. /\ choker.ts \in Nat /\ choker.bytes \in Nat /\ Cap \in Nat /\ MaxTime \in Nat
      /\ Base(choker, t) \in Nat
  BY <1>1, ChokerFields, ChokerAssumption, ServerAssumption DEF Base
<1>8. CASE choker.paused /\ choker' = choker /\ v = "throttled"
  <2>1. ~P /\ late' = late
    BY <1>3, <1>8 DEF Overtaken
  <2>2. paint' = paint
    BY <1>4, <2>1
  <2> QED
    BY <1>1, <1>5, <1>8, <2>1, <2>2 DEF CapHeldInOrder, BucketFollows
<1>9. CASE ~choker.paused
  <2>1. late' = late \cup Over(choker, t)
    BY <1>6, <1>9 DEF Overtaken, Over
  <2>2. /\ choker'.ts = t /\ choker'.bytes \in {Base(choker, t), Base(choker, t) + b}
        /\ (P => choker'.bytes = Base(choker, t) + b) /\ choker'.bytes <= Cap
    BY <1>2, <1>3, <1>6, <1>9 DEF Ruling
  <2>3. ASSUME NEW s \in (0 .. MaxTime) \ late'
        PROVE  /\ paint'[s] <= Cap
               /\ s = t => paint'[s] <= choker'.bytes
               /\ s > t => paint'[s] = 0
    <3>1. /\ s \in Nat /\ s \in (0 .. MaxTime) \ late /\ paint[s] \in Nat
          /\ t < choker.ts => ~(t <= s /\ s <= choker.ts)
      BY <1>1, <1>7, <2>1, <2>3 DEF Over
    <3>2. /\ paint[s] <= Cap
          /\ s = choker.ts => paint[s] <= choker.bytes
          /\ s > choker.ts => paint[s] = 0
      BY <1>1, <3>1 DEF CapHeldInOrder, BucketFollows
    <3>3. CASE s = t
      <4>1. paint[s] <= Base(choker, t)
        <5>1. choker.ts <= t
          BY <1>7, <3>1, <3>3
        <5> QED
          BY <1>7, <3>2, <3>3, <5>1 DEF Base
      <4>2. paint'[s] = IF P THEN paint[s] + b ELSE paint[s]
        BY <1>1, <1>4, <1>6, <3>3
      <4>3. paint'[s] <= choker'.bytes /\ choker'.bytes \in Nat
        BY <1>7, <2>2, <3>1, <4>1, <4>2
      <4>4. paint'[s] \in Nat
        BY <1>5, <3>1
      <4> QED
        BY <1>7, <2>2, <3>3, <4>3, <4>4
    <3>4. CASE s # t
      <4>1. paint'[s] = paint[s]
        BY <1>1, <1>4, <1>6, <3>1, <3>4
      <4>2. s > t => s > choker.ts
        BY <1>7, <3>1, <3>4
      <4> QED
        BY <3>2, <3>4, <4>1, <4>2
    <3> QED
      BY <3>3, <3>4
  <2>4. late' \subseteq 0 .. MaxTime
    BY <1>1, <2>1 DEF Over
  <2> QED
    BY <1>5, <2>2, <2>3, <2>4 DEF CapHeldInOrder, BucketFollows
<1> QED
  BY <1>8, <1>9

\* What a call of decide by the handler of r does to the governor.
LEMMA Ruled ==
    ASSUME TypeOK, Governed, NEW r \in Reqs, NEW fp \in BOOLEAN,
           NEW d \in Decide(choker, PeerOf[conn[r]], shape[r].size, fp, saw[r], at[r]),
           choker' = d.choker
    PROVE  /\ Steady(choker, choker') /\ choker' \in Chokers
           /\ choker'.bytes <= Cap
           /\ choker.paused => choker' = choker /\ d.verdict = "throttled"
           /\ ~choker.paused => choker'.ts = at[r]
           /\ Spared(choker', Overtaken(r))
           /\ Ruling(choker, choker', d.verdict, PeerOf[conn[r]], shape[r].size, fp, at[r])
<1>1. /\ choker \in Chokers /\ conn[r] \in Conns /\ shape[r] \in Shapes
      /\ saw[r] \in BOOLEAN /\ at[r] \in 0 .. MaxTime
  BY DEF TypeOK
<1>2. PICK p \in Peers : p = PeerOf[conn[r]]
  BY <1>1, ServerAssumption
<1>3. PICK b \in Nat : b = shape[r].size
  BY <1>1, ServerAssumption
<1>4. PICK t \in Nat : t = at[r] /\ t \in 0 .. MaxTime
  BY <1>1, ServerAssumption
<1>5. Tracked(choker) /\ choker.bytes <= Cap /\ Spared(choker, late)
  BY DEF Governed
<1>6. d \in Decide(choker, p, b, fp, saw[r], t)
  BY <1>2, <1>3, <1>4
<1>7. /\ Steady(choker, d.choker) /\ Ruling(choker, d.choker, d.verdict, p, b, fp, t)
      /\ ~choker.paused => d.choker.ts = t
      /\ \A L : Spared(choker, L) =>
            Spared(d.choker, IF choker.paused THEN L ELSE L \cup Over(choker, t))
  <2>1. choker \in Chokers /\ Tracked(choker) /\ choker.bytes <= Cap /\ t \in 0 .. MaxTime
        /\ saw[r] \in BOOLEAN
    BY <1>1, <1>4, <1>5
  <2> QED
    BY <1>6, <2>1, DecideFacts, ZenonT(60)
<1>8. Overtaken(r) = IF choker.paused THEN late ELSE late \cup Over(choker, t)
  BY <1>4 DEF Overtaken, Over
<1>9. choker.paused => d.choker = choker /\ d.verdict = "throttled"
  BY DEF Decide
<1> QED
  BY <1>2, <1>3, <1>4, <1>5, <1>7, <1>8, <1>9 DEF Steady, Ruling

LEMMA DecideItemStep ==
    ASSUME IInv, NEW r \in Reqs, DecideItem(r)
    PROVE  IInv'
<1>1. TypeOK /\ Booked /\ FetchesExact /\ Governed
  BY DEF IInv
<1>2. PICK d \in Decide(choker, PeerOf[conn[r]], shape[r].size, TRUE, saw[r], at[r]) :
          /\ choker' = d.choker
          /\ paint' = Painted(r, d.verdict)
          /\ late' = Overtaken(r)
          /\ IF d.verdict \in {"serve", "paint"}
             THEN /\ left' = [left EXCEPT ![r] = @ - 1]
                  /\ admitted' = [admitted EXCEPT ![r] = @ + 1]
             ELSE left' = [left EXCEPT ![r] = 0] /\ UNCHANGED admitted
  BY DEF DecideItem
<1>3. /\ st[r] = "locked" /\ left[r] > 0
      /\ UNCHANGED <<now, lock, linkVars, permits, conn, shape, st, at, saw,
                     fgVars, pauses>>
  BY DEF DecideItem
<1>4. PICK fp \in BOOLEAN : fp = TRUE
  OBVIOUS
<1>5. d \in Decide(choker, PeerOf[conn[r]], shape[r].size, fp, saw[r], at[r])
  BY <1>2, <1>4
<1>6. /\ Steady(choker, choker') /\ choker' \in Chokers
      /\ choker'.bytes <= Cap
      /\ choker.paused => choker' = choker /\ d.verdict = "throttled"
      /\ ~choker.paused => choker'.ts = at[r]
      /\ Spared(choker', Overtaken(r))
      /\ Ruling(choker, choker', d.verdict, PeerOf[conn[r]], shape[r].size, fp, at[r])
  BY <1>1, <1>2, <1>5, Ruled
<1>7. Spared(choker', late')
  BY <1>2, <1>6
<1>8. /\ paint' \in [0 .. MaxTime -> Nat] /\ late' \subseteq 0 .. MaxTime
      /\ CapHeldInOrder' /\ BucketFollows'
  BY <1>1, <1>2, <1>4, <1>6, PaintedFacts
<1>9. left' \in [Reqs -> Nat] /\ admitted' \in [Reqs -> Nat]
  <2>1. left \in [Reqs -> Nat] /\ admitted \in [Reqs -> Nat] /\ left[r] \in Nat
    BY <1>1 DEF TypeOK
  <2>2. left[r] - 1 \in Nat
    BY <1>3, <2>1
  <2> QED
    BY <1>2, <2>1, <2>2
<1>10. TypeOK'
  BY <1>1, <1>3, <1>6, <1>8, <1>9 DEF TypeOK, history, linkVars, permits, fgVars
<1>11. Outside
  BY <1>3 DEF Outside
<1>12. PermitsExact' /\ Expected
  BY <1>1, <1>3, <1>11, OutsideFacts DEF Booked
<1>13. HeldProper'
  BY <1>1, <1>3 DEF Booked, HeldProper, linkVars
<1>14. FetchesExact'
  BY <1>1, <1>3, FetchesKept
<1>15. LoopsSame
  BY <1>3, LoopsKept DEF linkVars
<1>16. Governed'
  BY <1>1, <1>6, <1>7, <1>8, <1>12, <1>15, GovernorSteady
<1> QED
  BY <1>10, <1>12, <1>13, <1>14, <1>16 DEF IInv, Booked

LEMMA DecideRangeStep ==
    ASSUME IInv, NEW r \in Reqs, DecideRange(r)
    PROVE  IInv'
<1>1. TypeOK /\ Booked /\ FetchesExact /\ Governed
  BY DEF IInv
<1>2. PICK fp \in BOOLEAN : fp = (shape[r].kind = "page")
  OBVIOUS
<1>3. PICK d \in Decide(choker, PeerOf[conn[r]], shape[r].size, fp, saw[r], at[r]) :
          /\ choker' = d.choker
          /\ paint' = Painted(r, d.verdict)
          /\ late' = Overtaken(r)
          /\ IF d.verdict \in {"serve", "paint"}
             THEN /\ st' = [st EXCEPT ![r] = "queue"]
                  /\ UNCHANGED <<serves, linkVars, conn, shape, at, saw, left,
                                 admitted>>
             ELSE EndHandler(r, IF d.verdict = "choked" THEN "choked"
                                                        ELSE "replied")
  BY <1>2 DEF DecideRange
<1>4. /\ st[r] = "sized" /\ shape[r].kind # "many"
      /\ UNCHANGED <<now, lock, queued, encoding, fgVars, pauses>>
  BY DEF DecideRange
<1>5. /\ Steady(choker, choker') /\ choker' \in Chokers
      /\ choker'.bytes <= Cap
      /\ choker.paused => choker' = choker /\ d.verdict = "throttled"
      /\ ~choker.paused => choker'.ts = at[r]
      /\ Spared(choker', Overtaken(r))
      /\ Ruling(choker, choker', d.verdict, PeerOf[conn[r]], shape[r].size, fp, at[r])
  BY <1>1, <1>3, Ruled
<1>6. shape[r].kind # "control" /\ Spared(choker', late')
  BY <1>1, <1>3, <1>4, <1>5 DEF Governed, Readings
<1>7. shape[r].kind # "bulk" => fp
  <2>1. shape[r].kind \in Kinds
    BY <1>1, ServerAssumption DEF TypeOK
  <2> QED
    BY <1>2, <1>4, <1>6, <2>1 DEF Kinds
<1>8. /\ paint' \in [0 .. MaxTime -> Nat] /\ late' \subseteq 0 .. MaxTime
      /\ CapHeldInOrder' /\ BucketFollows'
  BY <1>1, <1>3, <1>5, <1>7, PaintedFacts
<1>9. TypeOK' /\ Booked' /\ FetchesExact' /\ Expected /\ LoopsSame
  <2>1. /\ st[r] \in Handling /\ st[r] \in Handling \ {"encode", "run"}
        /\ lock' \in Reqs \cup {NoReq}
    BY <1>1, <1>4 DEF Handling, TypeOK
  <2>2. CASE d.verdict \in {"serve", "paint"}
    <3>1. PICK s \in Handling \ {"encode", "run"} : s = "queue"
      BY DEF Handling
    <3>2. /\ Onward(r, s) /\ queued' = queued /\ encoding' = encoding /\ link' = link
          /\ UNCHANGED <<at, saw, left, admitted, shape>>
          /\ st' = [st EXCEPT ![r] = "queue"]
      BY <1>3, <1>4, <2>2, <3>1 DEF Onward, linkVars
    <3>3. st' \in [Reqs -> States] /\ Booked'
      BY <1>1, <2>1, <3>2, OnwardBooks
    <3>4. TypeOK'
      BY <1>1, <1>4, <1>5, <1>8, <2>1, <3>2, <3>3 DEF TypeOK, history, Onward, fgVars
    <3>5. Expected
      BY <1>1, <3>2 DEF Expected, TypeOK
    <3>6. FetchesExact'
      BY <1>1, <1>4, FetchesKept
    <3> QED
      BY <3>2, <3>3, <3>4, <3>5, <3>6, LoopsKept
  <2>3. CASE d.verdict \notin {"serve", "paint"}
    <3>1. PICK s \in Ended : EndHandler(r, s)
      BY <1>3, <2>3 DEF Ended
    <3>2. LetGo(r, s)
      BY <1>1, <3>1, EndHandlerLetsGo
    <3> QED
      BY <1>1, <1>4, <1>5, <1>8, <2>1, <3>2, HandlerLeaves
  <2> QED
    BY <2>2, <2>3
<1>10. Governed'
  BY <1>1, <1>5, <1>6, <1>8, <1>9, GovernorSteady
<1> QED
  BY <1>9, <1>10 DEF IInv

-----------------------------------------------------------------------------
(***************************************************************************)
(* The theorems.                                                           *)
(***************************************************************************)

LEMMA InitIInv ==
    ASSUME Init
    PROVE  IInv
<1> USE DEF Init
<1>0. Cardinality({}) = 0
  BY FS_EmptySet
<1>1. NewChoker \in Chokers /\ Tracked(NewChoker)
      /\ NewChoker.dirty /\ NewChoker.bytes = 0 /\ NewChoker.ts = 0
      /\ \A p \in Peers : NewChoker.acct[p].conns = 0
  <2>1. PICK A : A = [p \in Peers |-> Blank]
    OBVIOUS
  <2>2. A \in [Peers -> Accounts] /\ \A p \in Peers : A[p].conns = 0
    BY <2>1, BlankFacts
  <2>3. NewChoker = [tracked |-> {}, acct |-> A,
              bytes |-> 0, ts |-> 0, paused |-> FALSE,
              unchoked |-> {}, epoch |-> 0, dirty |-> TRUE]
    BY <2>1 DEF NewChoker
  <2> QED
    BY <2>2, <2>3 DEF Chokers, Tracked
<1>2. AnyConn \in Conns /\ AnyShape \in Shapes /\ MaxTime \in Nat
  BY ServerAssumption DEF AnyConn, AnyShape
<1>3. TypeOK
  <2>1. 0 \in 0 .. MaxTime /\ "unsent" \in States
    BY <1>2 DEF States
  <2>2. /\ now \in 0 .. MaxTime /\ choker \in Chokers /\ lock \in Reqs \cup {NoReq}
        /\ link \in [Conns -> {"down", "up", "cut", "drain"}]
        /\ held \in [Conns -> Reqs \cup {NoReq}]
    BY <1>1, <2>1
  <2>3. /\ serves \in [Conns -> Nat] /\ queued \in Nat /\ encoding \in Nat
        /\ conn \in [Reqs -> Conns] /\ shape \in [Reqs -> Shapes]
        /\ st \in [Reqs -> States]
    BY <1>2, <2>1
  <2>4. /\ at \in [Reqs -> 0 .. MaxTime] /\ saw \in [Reqs -> BOOLEAN]
        /\ left \in [Reqs -> Nat] /\ admitted \in [Reqs -> Nat]
        /\ paint \in [0 .. MaxTime -> Nat] /\ late \subseteq 0 .. MaxTime
    BY <2>1
  <2>5. /\ flag \in BOOLEAN /\ fetches \in Nat
        /\ player \in [Players -> {"out", "raise", "in", "lower"}]
        /\ pauses \in Nat
    OBVIOUS
  <2> QED
    BY <2>2, <2>3, <2>4, <2>5 DEF TypeOK
<1>4. HeldProper
  BY DEF HeldProper
<1>5. PermitsExact
  <2>1. /\ \A k \in Conns : Handlers(k) = {}
        /\ InQueue = {} /\ Encoding = {}
    BY DEF Handlers, InQueue, Encoding, Handling
  <2>2. 0 <= MaxServes /\ 0 <= MaxQueue /\ 0 <= MaxEncode
    BY ServerAssumption
  <2>3. /\ \A k \in Conns : serves[k] = Cardinality(Handlers(k)) /\ serves[k] <= MaxServes
        /\ queued = Cardinality(InQueue) /\ queued <= MaxQueue
        /\ encoding = Cardinality(Encoding) /\ encoding <= MaxEncode
    BY <1>0, <2>1, <2>2
  <2> QED
    BY <2>3 DEF PermitsExact
<1>6. FetchesExact
  <2>1. Playing = {}
    BY DEF Playing
  <2> QED
    BY <1>0, <2>1 DEF FetchesExact
<1>7. ConnsPaired
  <2>1. \A p \in Peers : {k \in Conns : PeerOf[k] = p /\ Served(k)} = {}
    BY DEF Served
  <2> QED
    BY <1>0, <1>1, <2>1 DEF ConnsPaired
<1>8. CacheSound /\ Tracked(choker) /\ choker.bytes <= Cap
  BY <1>1, ChokerAssumption DEF CacheSound
<1>9. Readings /\ BucketFollows /\ CapHeldInOrder /\ Spared(choker, late)
  BY <1>1, <1>2, ChokerAssumption DEF Readings, BucketFollows, CapHeldInOrder, Spared
<1> QED
  BY <1>3, <1>4, <1>5, <1>6, <1>7, <1>8, <1>9 DEF IInv, Booked, Governed

LEMMA NextIInv ==
    ASSUME IInv, [Next]_vars
    PROVE  IInv'
<1>1. ASSUME NEW k \in Conns,
             \/ HelloOk(k) \/ LinkCut(k) \/ Abort(k) \/ LoopEnds(k) \/ LoopStep(k)
             \/ \E r \in Reqs : Ignore(k, r) \/ \E s \in Shapes : Receive(k, r, s)
      PROVE  IInv'
  BY <1>1, HelloOkStep, LinkCutStep, AbortStep, LoopEndsStep, TakePermitStep,
     PermitTimeoutStep, IgnoreStep, ReceiveStep DEF LoopStep
<1>2. ASSUME NEW r \in Reqs, HandlerStep(r)
      PROVE  IInv'
  BY <1>2, ServeControlStep, ReadClockStep, DecideRangeStep, SizingFailsStep,
     LockManyStep, DecideItemStep, UnlockManyStep, EnterQueueStep, QueueTimeoutStep,
     TakeEncoderStep, FinishStep, SendStalledStep DEF HandlerStep
<1>3. ASSUME UNCHANGED vars
      PROVE  IInv'
  <2>1. FetchesExact'
    BY <1>3 DEF IInv, FetchesExact, Playing, vars, fgVars
  <2> QED
    BY <1>3, <2>1, PlayersOnly DEF IInv, TypeOK, history, vars, fgVars
<1> QED
  BY <1>1, <1>2, <1>3, PlayerStep, CreditStep, PauseStep, TickStep DEF Next

\* The inductive invariant holds: serve loops, handlers, the governor and the
\* clock preserve it in whatever order they run.
THEOREM Invariance == Spec => []IInv
<1>1. Init => IInv
  BY InitIInv
<1>2. IInv /\ [Next]_vars => IInv'
  BY NextIInv
<1> QED
  BY <1>1, <1>2, PTL DEF Spec

\* Every variable stays in its range: no permit count of server.rs and no
\* foreground count of edx.rs is ever decremented below zero.
THEOREM TypeCorrect == Spec => []TypeOK
<1>1. IInv => TypeOK
  BY DEF IInv
<1> QED
  BY <1>1, Invariance, PTL

\* serve_connection, serve_range and serve_many: the serve, queue and encode
\* permits are exactly what the handlers hold, and none passes its limit, on
\* every path out of a handler.
THEOREM PermitsCorrect == Spec => []PermitsExact
<1>1. IInv => PermitsExact
  BY DEF IInv, Booked
<1> QED
  BY <1>1, Invariance, PTL

\* note_connected and note_disconnected are paired by the Connected guard: an
\* account counts exactly the serve loops that are running for its peer.
THEOREM ConnectionsPaired == Spec => []ConnsPaired
<1>1. IInv => ConnsPaired
  BY DEF IInv, Governed
<1> QED
  BY <1>1, Invariance, PTL

\* rebuild_unchoked: a clean set holds connected peers only, and no more than
\* the slots and the optimistic one.
THEOREM CacheCorrect == Spec => []CacheSound
<1>1. IInv => CacheSound
  BY DEF IInv, Governed
<1> QED
  BY <1>1, Invariance, PTL

\* decide, however old the clock readings it is given: the bucket of the second it
\* accounts for never passes the global cap.
THEOREM BucketCapped == Spec => [](choker.bytes <= Cap)
<1>1. IInv => choker.bytes <= Cap
  BY DEF IInv, Governed
<1> QED
  BY <1>1, Invariance, PTL

\* decide, however old the clock readings it is given: the first-paint bytes it
\* admits for a second fit the global cap, unless a ruling with an older reading
\* went back over that second and emptied its bucket.
THEOREM CapKeptInOrder == Spec => []CapHeldInOrder
<1>1. IInv => CapHeldInOrder
  BY DEF IInv, Governed
<1> QED
  BY <1>1, Invariance, PTL

\* Only a ruling of serve_range leaves a request choked.
LEMMA ChokedBy ==
    ASSUME TypeOK, NEW r \in Reqs, Next, st[r] # "choked", st'[r] = "choked"
    PROVE  /\ DecideRange(r)
           /\ \E d \in Decide(choker, PeerOf[conn[r]], shape[r].size,
                              shape[r].kind = "page", saw[r], at[r]) :
                 choker' = d.choker /\ d.verdict = "choked"
<1>1. st \in [Reqs -> States]
  BY DEF TypeOK
<1>2. \A q \in Reqs : \A s : EndHandler(q, s) =>
         st'[r] = IF q = r THEN s ELSE st[r]
  BY <1>1 DEF EndHandler
<1>3. ASSUME NEW k \in Conns,
             \/ HelloOk(k) \/ LinkCut(k) \/ Abort(k) \/ LoopEnds(k) \/ LoopStep(k)
             \/ \E q \in Reqs : Ignore(k, q) \/ \E s \in Shapes : Receive(k, q, s)
      PROVE  FALSE
  BY <1>1, <1>3 DEF HelloOk, LinkCut, Abort, LoopEnds, LoopStep, TakePermit,
     PermitTimeout, Ignore, Receive, reqVars
<1>4. ASSUME NEW q \in Reqs, HandlerStep(q)
      PROVE  DecideRange(q)
  <2>1. ~ServeControl(q) /\ ~SizingFails(q) /\ ~QueueTimeout(q) /\ ~Finish(q)
    BY <1>2 DEF ServeControl, SizingFails, QueueTimeout, Finish
  <2>2. ~ReadClock(q) /\ ~LockMany(q) /\ ~EnterQueue(q) /\ ~TakeEncoder(q)
    BY <1>1 DEF ReadClock, LockMany, EnterQueue, TakeEncoder
  <2>3. ~DecideItem(q) /\ ~SendStalled(q)
    BY <1>1 DEF DecideItem, SendStalled
  <2>4. ~UnlockMany(q)
    BY <1>1, <1>2 DEF UnlockMany
  <2> QED
    BY <1>4, <2>1, <2>2, <2>3, <2>4 DEF HandlerStep
<1>5. ~(\E f \in Players : StartPlaying(f) \/ Raise(f) \/ StopPlaying(f) \/ Lower(f))
  BY DEF StartPlaying, Raise, StopPlaying, Lower, reqVars
<1>6. ~(\E p \in Peers : Credit(p)) /\ ~Pause /\ ~Tick
  BY DEF Credit, Pause, Tick, reqVars
<1>7. PICK q \in Reqs : DecideRange(q)
  BY <1>3, <1>4, <1>5, <1>6 DEF Next
<1>8. PICK d \in Decide(choker, PeerOf[conn[q]], shape[q].size,
                        shape[q].kind = "page", saw[q], at[q]) :
          /\ choker' = d.choker
          /\ IF d.verdict \in {"serve", "paint"}
             THEN st' = [st EXCEPT ![q] = "queue"]
             ELSE EndHandler(q, IF d.verdict = "choked" THEN "choked"
                                                        ELSE "replied")
  BY <1>7 DEF DecideRange
<1>9. q = r /\ d.verdict = "choked"
  BY <1>1, <1>2, <1>8
<1> QED
  BY <1>7, <1>8, <1>9

\* decide and rebuild_unchoked, however old the clock readings: a connected peer
\* is refused for want of reciprocity only when the general slots are given to
\* others, unless a ruling with an older reading went back over the cached set's
\* epoch.
THEOREM ChokingContended == Spec => ChokedOnlyUnderContention
<1>1. IInv /\ [Next]_vars =>
        [\A r \in Reqs :
            ChokesConnected(r) /\ (\A s \in late' : s \div Rotate # choker'.epoch)
            => Cardinality(choker'.unchoked) >= UnchokeSlots - OverlaySlots]_vars
  <2> SUFFICES ASSUME IInv, Next, NEW r \in Reqs, ChokesConnected(r),
                      \A s \in late' : s \div Rotate # choker'.epoch
               PROVE  Full(choker')
    BY DEF Full
  <2>1. TypeOK /\ Governed /\ st[r] # "choked" /\ st'[r] = "choked"
    BY DEF IInv, ChokesConnected
  <2>2. PICK fp \in BOOLEAN : fp = (shape[r].kind = "page")
    OBVIOUS
  <2>3. PICK d \in Decide(choker, PeerOf[conn[r]], shape[r].size, fp, saw[r], at[r]) :
           choker' = d.choker /\ d.verdict = "choked"
    BY <2>1, <2>2, ChokedBy
  <2>4. late' = Overtaken(r)
    BY <2>1, ChokedBy DEF DecideRange
  <2>5. PICK p \in Peers : p = PeerOf[conn[r]]
    BY <2>1, ServerAssumption DEF TypeOK
  <2>6. PICK t \in Nat : t = at[r]
    BY <2>1, ServerAssumption DEF TypeOK
  <2>7. /\ Steady(choker, choker') /\ Spared(choker', late')
        /\ choker'.ts = t /\ Refused(choker', p, t)
    <3>1. Ruling(choker, choker', d.verdict, p, shape[r].size, fp, t)
          /\ Steady(choker, choker') /\ Spared(choker', late')
      BY <2>1, <2>3, <2>4, <2>5, <2>6, Ruled
    <3> QED
      BY <2>3, <3>1 DEF Ruling
  <2>8. PICK b \in 0 .. MaxTime :
           /\ b \div Rotate = choker'.epoch
           /\ b \in late' \/ (b <= choker'.ts /\ SparedAt(choker', b))
    BY <2>7 DEF Spared, Refused
  <2>9. b \in Nat /\ b <= t /\ SparedAt(choker', b)
    BY <2>7, <2>8, ServerAssumption
  <2>10. p \in Connected(choker') \ choker'.unchoked
    <3>1. choker' \in Chokers /\ Tracked(choker') /\ choker'.acct[p].conns > 0
      BY <2>5, <2>7 DEF Steady, ChokesConnected
    <3> QED
      BY <2>7, <3>1, ConnectedIs DEF Refused
  <2>11. RecentlyActive(choker'.acct[p], b)
    <3>1. choker'.acct[p] \in Accounts /\ choker'.acct[p].active = t
      BY <2>7, ChokerFields DEF Steady, Refused
    <3>2. RecentlyActive(choker'.acct[p], t)
      BY <3>1, JustActive
    <3> QED
      BY <2>9, <3>1, <3>2, ActiveBefore
  <2> QED
    BY <2>9, <2>10, <2>11 DEF SparedAt
<1> QED
  BY <1>1, Invariance, PTL DEF Spec, ChokedOnlyUnderContention
=============================================================================
