-------------------------- MODULE ConfigAlignProofs --------------------------
(***************************************************************************)
(* What Boss saves on a quiet and aligned mesh is not lost by aligning,    *)
(* for any number of nodes, contents, faults and rounds that overlap: from *)
(* then on every node has either the saved content or the one that it      *)
(* replaces, and whoever compares the two finds the saved one newer.       *)
(***************************************************************************)
EXTENDS ConfigAlign, FiniteSetTheorems, TLAPS

Texts   == Contents \cup {NoKeys}
Wide    == [content : Texts, ts : Nat]     \* configurations before their stamps are ranks again
Rounds(C) == [peers : SUBSET Nodes, mine : C, peer : Nodes \cup {""}, act : {"", "push", "pull"}]

\* Nodes with the content k are newer than all others.
Newer(c, k) ==
    \A n, m \in Nodes : c[n].content = k /\ c[m].content # k => c[m].ts < c[n].ts

\* A round r of node n compares what it read with what is there now, and finds k newer.
Busy(r) == r.peers # {} \/ r.act # ""
Faithful(c, n, r, k, o) ==
    Busy(r) =>
        /\ r.mine.content \in {k, o}
        /\ r.mine.content = k =>
              c[n].content = k /\ \A m \in Nodes : c[m].content # k => c[m].ts < r.mine.ts
        /\ r.mine.content # k => \A m \in Nodes : c[m].content = k => r.mine.ts < c[m].ts
        /\ r.act = "push" => c[n].content = k
        /\ r.act = "pull" => c[r.peer].content = k

\* The content k has replaced o on some nodes.
Replaces(c, th, k, o) ==
    /\ \A n \in Nodes : c[n].content \in {k, o}
    /\ \E n \in Nodes : c[n].content = k
    /\ o # k => Newer(c, k) /\ \A n \in Nodes : Faithful(c, n, th[n], k, o)

Saved(c, th, k) == k # NoKeys => \E o \in Texts : Replaces(c, th, k, o)

\* An action is about a peer of its node.
WithPeer(th) == \A n \in Nodes : th[n].act # "" => th[n].peer \in Nodes

IInv == TypeOK /\ WithPeer(thread) /\ Saved(config, thread, kept)

-----------------------------------------------------------------------------
(* Time stamps as ranks keep their order.                                  *)

LEMMA Natural == \A x \in Wide : x.ts \in Nat /\ x.content \in Texts
BY DEF Wide

LEMMA FewStamps ==
    ASSUME NEW f \in [Nodes -> Nat]
    PROVE  /\ IsFiniteSet({f[n] : n \in Nodes})
           /\ Cardinality({f[n] : n \in Nodes}) <= Cardinality(Nodes)
<1>1. f \in Surjection(Nodes, {f[n] : n \in Nodes})
  BY DEF Surjection
<1> QED
  BY <1>1, FS_Surjection, AlignAssumption DEF AlignAssumption

LEMMA StampsFinite ==
    ASSUME NEW c \in [Nodes -> Wide], NEW th \in [Nodes -> Rounds(Wide)]
    PROVE  /\ Stamps(c, th) \subseteq Nat
           /\ IsFiniteSet(Stamps(c, th))
           /\ Cardinality(Stamps(c, th)) <= MaxStamp
           /\ MaxStamp \in Nat
<1> DEFINE f == [n \in Nodes |-> c[n].ts]
           g == [n \in Nodes |-> th[n].mine.ts]
           A == {f[n] : n \in Nodes}
           B == {g[n] : n \in Nodes}
<1>1. f \in [Nodes -> Nat] /\ g \in [Nodes -> Nat]
  BY DEF Wide, Rounds
<1>2. Stamps(c, th) = A \cup B /\ A \subseteq Nat /\ B \subseteq Nat
  BY <1>1 DEF Stamps
<1>3. /\ IsFiniteSet(A) /\ Cardinality(A) <= Cardinality(Nodes)
      /\ IsFiniteSet(B) /\ Cardinality(B) <= Cardinality(Nodes)
  <2> HIDE DEF f, g
  <2> QED
    BY <1>1, FewStamps
<1> HIDE DEF A, B
<1>4. /\ IsFiniteSet(A \cup B)
      /\ Cardinality(A \cup B) = Cardinality(A) + Cardinality(B) - Cardinality(A \cap B)
  BY <1>3, FS_Union
<1>5. IsFiniteSet(A \cap B)
  BY <1>3, FS_Subset
<1>6. /\ Cardinality(A) \in Nat /\ Cardinality(B) \in Nat /\ Cardinality(A \cap B) \in Nat
      /\ Cardinality(Nodes) \in Nat
  BY <1>3, <1>5, FS_CardinalityType, AlignAssumption DEF AlignAssumption
<1>7. /\ Cardinality(A) + Cardinality(B) - Cardinality(A \cap B) <= 2 * Cardinality(Nodes)
      /\ 2 * Cardinality(Nodes) \in Nat
  BY <1>3, <1>6
<1> QED
  BY <1>2, <1>4, <1>7 DEF MaxStamp

LEMMA Ranked ==
    ASSUME NEW c \in [Nodes -> Wide], NEW th \in [Nodes -> Rounds(Wide)],
           NEW a \in Stamps(c, th)
    PROVE  /\ Rank(a, c, th) \in 0..MaxStamp
           /\ \A b \in Stamps(c, th) : a < b => Rank(a, c, th) < Rank(b, c, th)
<1> DEFINE S == Stamps(c, th)
           Upto(t) == {u \in S \ {0} : u <= t}
<1>1. S \subseteq Nat /\ IsFiniteSet(S) /\ Cardinality(S) <= MaxStamp /\ MaxStamp \in Nat
  BY StampsFinite
<1>2. \A t : Rank(t, c, th) = Cardinality(Upto(t)) /\ Upto(t) \in SUBSET S
  BY DEF Rank
<1> HIDE DEF S
<1>3. \A t : /\ IsFiniteSet(Upto(t)) /\ Cardinality(Upto(t)) <= Cardinality(S)
             /\ Cardinality(Upto(t)) \in Nat /\ Cardinality(S) \in Nat
  BY <1>1, <1>2, FS_Subset, FS_CardinalityType
<1>4. ASSUME NEW b \in S, a < b
      PROVE  Cardinality(Upto(a)) < Cardinality(Upto(b))
  <2>1. a \in Nat /\ b \in Nat /\ b # 0 /\ ~(b <= a)
    BY <1>1, <1>4 DEF S
  <2>2. b \in Upto(b) /\ b \notin Upto(a)
    BY <2>1
  <2>3. Upto(a) \in SUBSET Upto(b)
    <3> SUFFICES ASSUME NEW u \in Upto(a) PROVE u \in Upto(b)
      OBVIOUS
    <3>1. u \in Nat /\ u <= a
      BY <1>1
    <3> QED
      BY <1>4, <2>1, <3>1
  <2> HIDE DEF Upto
  <2>4. Cardinality(Upto(a)) <= Cardinality(Upto(b)) /\ Cardinality(Upto(a)) # Cardinality(Upto(b))
    BY <1>3, <2>2, <2>3, FS_Subset
  <2> QED
    BY <1>3, <2>4
<1> HIDE DEF Upto
<1>5. Cardinality(Upto(a)) \in 0..MaxStamp
  BY <1>1, <1>3
<1> QED
  BY <1>2, <1>4, <1>5 DEF S

\* The round r is the round q, at most with another time stamp.
SameRound(r, q) ==
    /\ r.peers = q.peers /\ r.peer = q.peer /\ r.act = q.act
    /\ r.mine.content = q.mine.content

SameOrder(c, th) ==
    \A n, m \in Nodes :
        /\ c[n].ts < c[m].ts => config'[n].ts < config'[m].ts
        /\ c[n].ts < th[m].mine.ts => config'[n].ts < thread'[m].mine.ts
        /\ th[n].mine.ts < c[m].ts => thread'[n].mine.ts < config'[m].ts

LEMMA Becoming ==
    ASSUME NEW c \in [Nodes -> Wide], NEW th \in [Nodes -> Rounds(Wide)], Becomes(c, th)
    PROVE  /\ config' \in [Nodes -> Configs] /\ thread' \in [Nodes -> Rounds(Configs)]
           /\ \A n \in Nodes : config'[n].content = c[n].content /\ SameRound(thread'[n], th[n])
           /\ SameOrder(c, th)
<1>1. \A n \in Nodes : /\ c[n] \in Wide /\ th[n] \in Rounds(Wide) /\ th[n].mine \in Wide
                       /\ c[n].ts \in Stamps(c, th) /\ th[n].mine.ts \in Stamps(c, th)
  BY DEF Rounds, Stamps
<1>2. /\ config' = [n \in Nodes |-> [c[n] EXCEPT !.ts = Rank(@, c, th)]]
      /\ thread' = [n \in Nodes |-> [th[n] EXCEPT !.mine.ts = Rank(@, c, th)]]
  BY DEF Becomes
<1>3. ASSUME NEW n \in Nodes
      PROVE  /\ config'[n] \in Configs /\ config'[n].content = c[n].content
             /\ config'[n].ts = Rank(c[n].ts, c, th)
  <2>1. Rank(c[n].ts, c, th) \in 0..MaxStamp
    BY <1>1, Ranked
  <2> QED
    BY <1>1, <1>2, <2>1 DEF Wide, Configs, Texts
<1>4. ASSUME NEW n \in Nodes
      PROVE  /\ thread'[n] \in Rounds(Configs) /\ SameRound(thread'[n], th[n])
             /\ thread'[n].mine.ts = Rank(th[n].mine.ts, c, th)
  <2>1. Rank(th[n].mine.ts, c, th) \in 0..MaxStamp
    BY <1>1, Ranked
  <2>2. thread'[n] = [th[n] EXCEPT !.mine = [th[n].mine EXCEPT !.ts = Rank(th[n].mine.ts, c, th)]]
    BY <1>1, <1>2 DEF Rounds, Wide
  <2>3. [th[n].mine EXCEPT !.ts = Rank(th[n].mine.ts, c, th)] \in Configs
    BY <1>1, <2>1 DEF Wide, Configs, Texts
  <2> DEFINE q == th[n]
             x == [th[n].mine EXCEPT !.ts = Rank(th[n].mine.ts, c, th)]
  <2>4. x.content = q.mine.content /\ x.ts = Rank(q.mine.ts, c, th)
    BY <1>1 DEF Wide
  <2>5. q \in Rounds(Wide) /\ x \in Configs /\ thread'[n] = [q EXCEPT !.mine = x]
    BY <1>1, <2>2, <2>3
  <2> HIDE DEF q, x
  <2>6. /\ thread'[n] \in Rounds(Configs) /\ thread'[n].mine = x
        /\ thread'[n].peers = q.peers /\ thread'[n].peer = q.peer /\ thread'[n].act = q.act
    BY <2>5 DEF Rounds
  <2>7. SameRound(thread'[n], q) /\ thread'[n].mine.ts = Rank(q.mine.ts, c, th)
    BY <2>4, <2>6 DEF SameRound
  <2> QED
    BY <2>6, <2>7 DEF q
<1>5. config' \in [Nodes -> Configs] /\ thread' \in [Nodes -> Rounds(Configs)]
  BY <1>2, <1>3, <1>4
<1>6. SameOrder(c, th)
  BY <1>1, <1>3, <1>4, Ranked DEF SameOrder
<1> QED
  BY <1>3, <1>4, <1>5, <1>6

LEMMA StepsOfRank ==
    ASSUME NEW c \in [Nodes -> Wide], NEW th \in [Nodes -> Rounds(Wide)], Becomes(c, th),
           WithPeer(th), NEW k \in Texts, Saved(c, th, k)
    PROVE  Saved(config', thread', k)
<1> SUFFICES ASSUME k # NoKeys, NEW o \in Texts, Replaces(c, th, k, o)
             PROVE  Replaces(config', thread', k, o)
  BY DEF Saved
<1>1. /\ \A n \in Nodes : config'[n].content = c[n].content /\ SameRound(thread'[n], th[n])
      /\ SameOrder(c, th)
  BY Becoming
<1>2. /\ \A n \in Nodes : config'[n].content \in {k, o}
      /\ \E n \in Nodes : config'[n].content = k
  BY <1>1 DEF Replaces
<1>3. ASSUME o # k
      PROVE  Newer(config', k) /\ \A n \in Nodes : Faithful(config', n, thread'[n], k, o)
  <2>1. Newer(config', k)
    BY <1>1, <1>3 DEF Replaces, Newer, SameOrder
  <2>2. ASSUME NEW n \in Nodes
        PROVE  Faithful(config', n, thread'[n], k, o)
    <3> DEFINE q == th[n]
               r == thread'[n]
    <3>1. Faithful(c, n, q, k, o)
      BY <1>3 DEF Replaces
    <3>2. SameRound(r, q) /\ (r.act # "" => r.peer \in Nodes)
      BY <1>1 DEF WithPeer, SameRound
    <3>3. \A m \in Nodes : /\ config'[m].content = c[m].content
                           /\ c[m].ts < q.mine.ts => config'[m].ts < r.mine.ts
                           /\ q.mine.ts < c[m].ts => r.mine.ts < config'[m].ts
      BY <1>1 DEF SameOrder
    <3> HIDE DEF q, r
    <3>4. Faithful(config', n, r, k, o)
      <4>1. Busy(r) => Busy(q)
        BY <3>2 DEF Busy, SameRound
      <4> QED
        BY <3>1, <3>2, <3>3, <4>1 DEF Faithful, SameRound
    <3> QED
      BY <3>4 DEF r
  <2> QED
    BY <2>1, <2>2
<1> QED
  BY <1>2, <1>3 DEF Replaces

\* A step that leaves configurations c and rounds th behind, before their stamps are ranks again.
LEMMA Landed ==
    ASSUME NEW c \in [Nodes -> Wide], NEW th \in [Nodes -> Rounds(Wide)], Becomes(c, th),
           auth \in BOOLEAN, explicit \in BOOLEAN,
           file' \in [Nodes -> Tokens], mem' \in [Nodes -> Tokens], api' \in [Nodes -> Tokens],
           saves' \in 0..MaxSaves, faults' \in 0..MaxFaults, kept' \in Texts,
           WithPeer(th), Saved(c, th, kept')
    PROVE  IInv'
<1>1. /\ config' \in [Nodes -> Configs] /\ thread' \in [Nodes -> Rounds(Configs)]
      /\ \A n \in Nodes : SameRound(thread'[n], th[n])
  BY Becoming
<1>2. UNCHANGED settings
  BY DEF Becomes
<1>3. TypeOK'
  BY <1>1, <1>2 DEF TypeOK, settings, Rounds, Texts
<1>4. WithPeer(thread')
  BY <1>1 DEF WithPeer, SameRound
<1>5. Saved(config', thread', kept')
  BY StepsOfRank
<1> QED
  BY <1>3, <1>4, <1>5 DEF IInv

-----------------------------------------------------------------------------
(* What an action does to configurations and rounds.                       *)

LEMMA Typed ==
    ASSUME TypeOK
    PROVE  /\ config \in [Nodes -> Wide] /\ thread \in [Nodes -> Rounds(Wide)]
           /\ config \in [Nodes -> Configs] /\ thread \in [Nodes -> Rounds(Configs)]
           /\ kept \in Texts /\ MaxStamp \in Nat
           /\ \A n \in Nodes : config[n].ts \in 0..MaxStamp /\ thread[n].mine.ts \in 0..MaxStamp
<1>1. config \in [Nodes -> Configs] /\ thread \in [Nodes -> Rounds(Configs)] /\ kept \in Texts
  BY DEF TypeOK, Rounds, Texts
<1>2. Cardinality(Nodes) \in Nat
  BY FS_CardinalityType, AlignAssumption DEF AlignAssumption
<1>3. MaxStamp \in Nat
  BY <1>2 DEF MaxStamp
<1>4. Configs \subseteq Wide /\ \A x \in Configs : x.ts \in 0..MaxStamp
  BY <1>3 DEF Configs, Wide, Texts
<1>5. Rounds(Configs) \subseteq Rounds(Wide) /\ \A r \in Rounds(Configs) : r.mine \in Configs
  BY <1>4 DEF Rounds
<1> QED
  BY <1>1, <1>3, <1>4, <1>5

LEMMA IdleRound == Idle \in Rounds(Wide) /\ ~Busy(Idle) /\ Idle.act = ""
BY DEF Idle, Rounds, Wide, Texts, Busy

\* One round changes.
LEMMA RoundChanged ==
    ASSUME NEW c, NEW th \in [Nodes -> Rounds(Wide)], NEW k, Saved(c, th, k),
           NEW n \in Nodes, NEW r \in Rounds(Wide),
           \A o \in Texts : Replaces(c, th, k, o) /\ o # k => Faithful(c, n, r, k, o)
    PROVE  Saved(c, [th EXCEPT ![n] = r], k)
<1> SUFFICES ASSUME k # NoKeys, NEW o \in Texts, Replaces(c, th, k, o)
             PROVE  Replaces(c, [th EXCEPT ![n] = r], k, o)
  BY DEF Saved
<1>1. \A m \in Nodes : [th EXCEPT ![n] = r][m] = IF m = n THEN r ELSE th[m]
  OBVIOUS
<1> QED
  BY <1>1 DEF Replaces

LEMMA RoundTyped ==
    ASSUME NEW th \in [Nodes -> Rounds(Wide)], WithPeer(th), NEW n \in Nodes,
           NEW r \in Rounds(Wide), r.act # "" => r.peer \in Nodes
    PROVE  [th EXCEPT ![n] = r] \in [Nodes -> Rounds(Wide)] /\ WithPeer([th EXCEPT ![n] = r])
<1>1. \A m \in Nodes : [th EXCEPT ![n] = r][m] = IF m = n THEN r ELSE th[m]
  OBVIOUS
<1> QED
  BY <1>1 DEF WithPeer

\* What follows on an action, or on nothing.
LEMMA GoesOn ==
    ASSUME TypeOK, NEW n \in Nodes
    PROVE  /\ Following(n) \in Rounds(Wide) /\ Following(n).act = ""
           /\ Busy(Following(n)) => /\ Busy(thread[n])
                                   /\ Following(n).mine = thread[n].mine
<1>1. thread[n] \in Rounds(Wide)
  BY Typed
<1>2. CASE thread[n].peers = {}
  BY <1>2, IdleRound DEF Following
<1>3. CASE thread[n].peers # {}
  <2>1. Following(n) = [thread[n] EXCEPT !.peer = "", !.act = ""]
    BY <1>3 DEF Following
  <2> QED
    BY <1>1, <1>3, <2>1 DEF Rounds, Busy
<1> QED
  BY <1>2, <1>3

LEMMA FollowingFaithful ==
    ASSUME TypeOK, NEW c, NEW k, NEW o, NEW n \in Nodes, Faithful(c, n, thread[n], k, o)
    PROVE  Faithful(c, n, Following(n), k, o)
BY GoesOn DEF Faithful

\* A node takes the saved content, with the latest stamp, or has it already.
LEMMA Spread ==
    ASSUME TypeOK, WithPeer(thread), NEW k, NEW o, Replaces(config, thread, k, o), NEW p \in Nodes
    PROVE  Replaces(Apply(p, k), thread, k, o)
<1>1. CASE config[p].content = k
  BY <1>1 DEF Apply
<1>2. CASE config[p].content # k
  <2> DEFINE c == Apply(p, k)
  <2>1. c = [config EXCEPT ![p] = Stamp(p, k)] /\ config \in [Nodes -> Wide]
    BY <1>2, Typed DEF Apply
  <2>2. \A m \in Nodes : c[m] = IF m = p THEN Stamp(p, k) ELSE config[m]
    BY <2>1
  <2>3. Stamp(p, k).content = k /\ Stamp(p, k).ts = MaxStamp + 1
    BY DEF Stamp
  <2>4. \A m \in Nodes : config[m].ts < MaxStamp + 1 /\ thread[m].mine.ts < MaxStamp + 1
    BY Typed
  <2> HIDE DEF c
  <2>5. (\A m \in Nodes : c[m].content \in {k, o}) /\ \E m \in Nodes : c[m].content = k
    BY <2>2, <2>3 DEF Replaces
  <2>6. ASSUME o # k
        PROVE  Newer(c, k) /\ \A m \in Nodes : Faithful(c, m, thread[m], k, o)
    <3>1. Newer(config, k) /\ \A m \in Nodes : Faithful(config, m, thread[m], k, o)
      BY <2>6 DEF Replaces
    <3>2. Newer(c, k)
      BY <2>2, <2>3, <2>4, <3>1 DEF Newer
    <3>3. ASSUME NEW m \in Nodes
          PROVE  Faithful(c, m, thread[m], k, o)
      <4>1. Faithful(config, m, thread[m], k, o) /\ (thread[m].act # "" => thread[m].peer \in Nodes)
        BY <3>1 DEF WithPeer
      <4> QED
        BY <2>2, <2>3, <2>4, <4>1 DEF Faithful
    <3> QED
      BY <3>2, <3>3
  <2> QED
    BY <2>5, <2>6 DEF Replaces, c
<1> QED
  BY <1>1, <1>2

-----------------------------------------------------------------------------
(* The actions.                                                            *)

LEMMA Zero == \A n \in Nat : 0 \in 0..n /\ 2 * n \in Nat
OBVIOUS
LEMMA Counted == \A m \in Nat : \A i \in 0..m : i < m => i + 1 \in 0..m
OBVIOUS

LEMMA InitIInv == Init => IInv
<1> SUFFICES ASSUME Init PROVE IInv
  OBVIOUS
<1>1. \A n \in Nodes : thread[n] = Idle
  BY DEF Init
<1>2. WithPeer(thread) /\ Saved(config, thread, kept)
  BY <1>1 DEF WithPeer, Saved, Init, Idle
<1>3. 0 \in 0..MaxStamp /\ 0 \in 0..MaxSaves /\ 0 \in 0..MaxFaults
  <2>1. Cardinality(Nodes) \in Nat
    BY FS_CardinalityType, AlignAssumption DEF AlignAssumption
  <2> QED
    BY <2>1, Zero, AlignAssumption DEF AlignAssumption, MaxStamp
<1>4. config \in [Nodes -> Configs]
  <2>1. [content : Contents \cup {NoKeys}, ts : {0}] \subseteq Configs
    BY <1>3 DEF Configs
  <2> QED
    BY <2>1 DEF Init
<1>5. thread \in [Nodes -> Rounds(Configs)]
  <2>1. Idle \in Rounds(Configs)
    BY <1>3 DEF Idle, Rounds, Configs
  <2> QED
    BY <2>1 DEF Init
<1>6. file \in [Nodes -> Tokens] /\ mem \in [Nodes -> Tokens] /\ api \in [Nodes -> Tokens]
  <2>1. [n \in Nodes |-> Shared] \in [Nodes -> Tokens] /\ file \in [Nodes -> Tokens]
    BY DEF Init, Tokens
  <2> QED
    BY <2>1 DEF Init
<1>7. TypeOK
  BY <1>3, <1>4, <1>5, <1>6 DEF TypeOK, Init, Rounds
<1> QED
  BY <1>2, <1>7 DEF IInv

LEMMA TokensTyped == TypeOK /\ UNCHANGED tokens =>
    file' \in [Nodes -> Tokens] /\ mem' \in [Nodes -> Tokens] /\ api' \in [Nodes -> Tokens]
BY DEF TypeOK, tokens

LEMMA SaveKeeps ==
    ASSUME IInv, NEW n \in Nodes, NEW x \in Contents, SaveByHand(n, x)
    PROVE  IInv'
<1> DEFINE c == [config EXCEPT ![n] = Stamp(n, x)]
<1>1. TypeOK /\ WithPeer(thread) /\ UNCHANGED tokens
  BY DEF IInv, SaveByHand
<1>2. config \in [Nodes -> Wide] /\ thread \in [Nodes -> Rounds(Wide)] /\ MaxStamp \in Nat
  BY <1>1, Typed
<1>3. Stamp(n, x) \in Wide /\ Stamp(n, x).content = x /\ Stamp(n, x).ts = MaxStamp + 1
  BY <1>2 DEF Stamp, Wide, Texts
<1>4. c \in [Nodes -> Wide] /\ \A m \in Nodes : c[m] = IF m = n THEN Stamp(n, x) ELSE config[m]
  BY <1>2, <1>3
<1>5. Becomes(c, thread)
  BY DEF SaveByHand
<1>6. saves' \in 0..MaxSaves
  <2>1. saves \in 0..MaxSaves /\ saves < MaxSaves /\ saves' = saves + 1 /\ MaxSaves \in Nat
    BY <1>1, AlignAssumption DEF TypeOK, SaveByHand, AlignAssumption
  <2> QED
    BY <2>1, Counted
<1>7. kept' \in Texts
  BY DEF SaveByHand, Texts
<1> HIDE DEF c
<1>8. Saved(c, thread, kept')
  <2>1. CASE ~(Quiet /\ Aligned)
    BY <2>1 DEF SaveByHand, Saved
  <2>2. CASE Quiet /\ Aligned
    <3>1. kept' = x /\ config[n].content \in Texts
      BY <1>2, <2>2 DEF SaveByHand, Wide
    <3>2. \A m \in Nodes : config[m].content = config[n].content /\ ~Busy(thread[m])
      BY <2>2, IdleRound DEF Aligned, Quiet
    <3>3. \A m \in Nodes : config[m].ts < MaxStamp + 1
      BY <1>1, Typed
    <3>4. Newer(c, x)
      BY <1>3, <1>4, <3>2, <3>3 DEF Newer
    <3>5. Replaces(c, thread, x, config[n].content)
      BY <1>3, <1>4, <3>2, <3>4 DEF Replaces, Faithful
    <3> QED
      BY <3>1, <3>5 DEF Saved
  <2> QED
    BY <2>1, <2>2
<1>9. faults' \in 0..MaxFaults /\ auth \in BOOLEAN /\ explicit \in BOOLEAN
  BY <1>1 DEF TypeOK, SaveByHand
<1> QED
  BY <1>1, <1>2, <1>4, <1>5, <1>6, <1>7, <1>8, <1>9, TokensTyped, Landed

\* Only the round of n changes, to one that is as faithful.
LEMMA RoundKeeps ==
    ASSUME IInv, NEW n \in Nodes, NEW r \in Rounds(Wide), r.act # "" => r.peer \in Nodes,
           Becomes(config, [thread EXCEPT ![n] = r]),
           \A k, o \in Texts : Replaces(config, thread, k, o) /\ o # k => Faithful(config, n, r, k, o),
           file' \in [Nodes -> Tokens], mem' \in [Nodes -> Tokens], api' \in [Nodes -> Tokens],
           faults' \in 0..MaxFaults, UNCHANGED <<saves, kept>>
    PROVE  IInv'
<1> DEFINE th == [thread EXCEPT ![n] = r]
<1>1. TypeOK /\ WithPeer(thread) /\ Saved(config, thread, kept)
  BY DEF IInv
<1>2. config \in [Nodes -> Wide] /\ thread \in [Nodes -> Rounds(Wide)] /\ kept \in Texts
  BY <1>1, Typed
<1>3. th \in [Nodes -> Rounds(Wide)] /\ WithPeer(th)
  BY <1>1, <1>2, RoundTyped
<1>4. Saved(config, th, kept)
  BY <1>1, <1>2, RoundChanged
<1>5. saves' \in 0..MaxSaves /\ auth \in BOOLEAN /\ explicit \in BOOLEAN /\ kept' = kept
  BY <1>1 DEF TypeOK
<1>6. Becomes(config, th)
  OBVIOUS
<1> HIDE DEF th
<1> QED
  BY <1>2, <1>3, <1>4, <1>5, <1>6, Landed

LEMMA Faults == TypeOK /\ (Fault \/ UNCHANGED faults) => faults' \in 0..MaxFaults
<1> SUFFICES ASSUME TypeOK, Fault \/ UNCHANGED faults PROVE faults' \in 0..MaxFaults
  OBVIOUS
<1>1. /\ faults \in 0..MaxFaults /\ MaxFaults \in Nat
      /\ faults' = faults \/ (faults < MaxFaults /\ faults' = faults + 1)
  BY AlignAssumption DEF TypeOK, Fault, AlignAssumption
<1> QED
  BY <1>1, Counted

LEMMA AdoptTyped ==
    ASSUME TypeOK, NEW n \in Nodes, NEW p \in Nodes, Adopt(n, p) \/ UNCHANGED <<file, mem>>
    PROVE  file' \in [Nodes -> Tokens] /\ mem' \in [Nodes -> Tokens]
BY DEF TypeOK, Adopt

LEMMA NotBusy ==
    ASSUME NEW c, NEW n, NEW r, NEW k, NEW o, ~Busy(r)
    PROVE  Faithful(c, n, r, k, o)
BY DEF Faithful

LEMMA RestartKeeps ==
    ASSUME IInv, NEW n \in Nodes, Restart(n)
    PROVE  IInv'
<1>1. TypeOK
  BY DEF IInv
<1>2. file' \in [Nodes -> Tokens] /\ mem' \in [Nodes -> Tokens]
  BY <1>1 DEF TypeOK, Restart, Tokens
<1>3. api' \in [Nodes -> Tokens]
  BY <1>1, <1>2 DEF TypeOK, Restart
<1>4. faults' \in 0..MaxFaults
  BY <1>1, Faults DEF Restart
<1>5. Becomes(config, [thread EXCEPT ![n] = Idle]) /\ UNCHANGED <<saves, kept>>
  BY DEF Restart
<1> QED
  BY <1>2, <1>3, <1>4, <1>5, IdleRound, NotBusy, RoundKeeps

LEMMA StartKeeps ==
    ASSUME IInv, NEW n \in Nodes, NEW P \in SUBSET Nodes, Start(n, P)
    PROVE  IInv'
<1> DEFINE r == [Idle EXCEPT !.peers = P, !.mine = config[n]]
<1>1. TypeOK /\ UNCHANGED tokens /\ UNCHANGED <<saves, kept>>
  BY DEF IInv, Start
<1>2. config[n] \in Wide
  BY <1>1, Typed
<1>3. r \in Rounds(Wide) /\ r.act = "" /\ r.mine = config[n]
  BY <1>2 DEF Idle, Rounds
<1>4. Becomes(config, [thread EXCEPT ![n] = r])
  BY DEF Start
<1> HIDE DEF r
<1>5. ASSUME NEW k, NEW o, Replaces(config, thread, k, o), o # k
      PROVE  Faithful(config, n, r, k, o)
  BY <1>3, <1>5 DEF Replaces, Faithful, Newer
<1>6. faults' \in 0..MaxFaults
  BY <1>1, Faults DEF Start
<1> QED
  BY <1>1, <1>3, <1>4, <1>5, <1>6, TokensTyped, RoundKeeps

LEMMA LoseKeeps ==
    ASSUME IInv, NEW n \in Nodes, Lose(n)
    PROVE  IInv'
<1>1. TypeOK /\ UNCHANGED tokens /\ UNCHANGED <<saves, kept>>
  BY DEF IInv, Lose
<1>2. Becomes(config, [thread EXCEPT ![n] = Following(n)])
  BY DEF Lose
<1>3. Following(n) \in Rounds(Wide) /\ Following(n).act = ""
  BY <1>1, GoesOn
<1>4. ASSUME NEW k, NEW o, Replaces(config, thread, k, o), o # k
      PROVE  Faithful(config, n, Following(n), k, o)
  BY <1>1, <1>4, FollowingFaithful DEF Replaces
<1>5. faults' \in 0..MaxFaults
  BY <1>1, Faults DEF Lose
<1> QED
  BY <1>1, <1>2, <1>3, <1>4, <1>5, TokensTyped, RoundKeeps

LEMMA ConvergeKeeps ==
    ASSUME IInv, NEW n \in Nodes, NEW p \in Nodes, ConvergeToken(n, p)
    PROVE  IInv'
<1>1. TypeOK /\ WithPeer(thread) /\ Saved(config, thread, kept)
  BY DEF IInv
<1>2. UNCHANGED <<settings, config, api, thread, saves, kept>>
  BY DEF ConvergeToken
<1>3. file' \in [Nodes -> Tokens] /\ mem' \in [Nodes -> Tokens]
  BY <1>1, AdoptTyped DEF ConvergeToken
<1>4. faults' \in 0..MaxFaults
  BY <1>1, Faults DEF ConvergeToken
<1>5. TypeOK'
  BY <1>1, <1>2, <1>3, <1>4 DEF TypeOK, settings
<1> QED
  BY <1>1, <1>2, <1>5 DEF IInv

LEMMA Arbitrated ==
    ASSUME NEW a \in Wide, NEW b \in Wide
    PROVE  /\ b.ts < a.ts => Arbitrate(a, b) = "push"
           /\ a.ts < b.ts => Arbitrate(a, b) = "pull"
<1>1. a.ts \in Nat /\ b.ts \in Nat
  BY DEF Wide
<1>2. ASSUME b.ts < a.ts PROVE Arbitrate(a, b) = "push"
  BY <1>1, <1>2 DEF Arbitrate
<1>3. ASSUME a.ts < b.ts PROVE Arbitrate(a, b) = "pull"
  BY <1>1, <1>3 DEF Arbitrate
<1> QED
  BY <1>2, <1>3

\* The comparison decides in favour of the saved content.
LEMMA ProbeKeeps ==
    ASSUME IInv, NEW n \in Nodes, NEW p \in Nodes, Probe(n, p)
    PROVE  IInv'
<1> DEFINE q    == thread[n]
           t    == [q EXCEPT !.peers = @ \ {p}, !.peer = p, !.act = Arbitrate(q.mine, config[p])]
           skip == config[p].content \in {NoKeys, q.mine.content} \/ t.act = ""
           next == IF ~skip THEN t
                   ELSE IF t.peers = {} THEN Idle ELSE [t EXCEPT !.peer = "", !.act = ""]
<1>1. TypeOK /\ UNCHANGED tokens /\ UNCHANGED <<saves, kept>>
  BY DEF IInv, Probe
<1>2. q \in Rounds(Wide) /\ p \in q.peers /\ Arbitrate(q.mine, config[p]) \in {"", "push", "pull"}
  BY <1>1, Typed DEF Probe, Arbitrate
<1>3. /\ t \in Rounds(Wide) /\ t.peer = p /\ t.mine = q.mine
      /\ t.act = Arbitrate(q.mine, config[p])
  BY <1>2 DEF Rounds
<1>4. Becomes(config, [thread EXCEPT ![n] = next])
  BY DEF Probe
<1> HIDE DEF q, t
<1>5. next \in Rounds(Wide) /\ (next.act # "" => next.peer \in Nodes)
  BY <1>3, IdleRound DEF Rounds
<1>6. ASSUME NEW k \in Texts, NEW o \in Texts, Replaces(config, thread, k, o), o # k
      PROVE  Faithful(config, n, next, k, o)
  <2>1. Busy(q) /\ Faithful(config, n, q, k, o)
    BY <1>2, <1>6 DEF Replaces, Busy, q
  <2>2. CASE skip
    BY <1>3, <2>1, <2>2, IdleRound DEF Faithful, Busy, Rounds
  <2>3. CASE ~skip
    <3>1. /\ next = t /\ config[p].content # q.mine.content /\ config[p].content \in {k, o}
          /\ q.mine \in Wide /\ config[p] \in Wide
      BY <1>1, <1>2, <1>6, <2>3, Typed DEF Replaces, Rounds, Wide
    <3>2. CASE q.mine.content = k
      <4>1. config[p].ts < q.mine.ts
        BY <2>1, <3>1, <3>2 DEF Faithful
      <4>2. t.act = "push"
        BY <1>3, <3>1, <4>1, Arbitrated
      <4> QED
        <5>1. config[n].content = k /\ "push" # "pull"
          BY <2>1, <3>2 DEF Faithful
        <5> QED
          BY <1>3, <2>1, <3>1, <4>2, <5>1 DEF Faithful
    <3>3. CASE q.mine.content # k
      <4>1. config[p].content = k /\ q.mine.ts < config[p].ts
        BY <2>1, <3>1, <3>3 DEF Faithful
      <4>2. t.act = "pull"
        BY <1>3, <3>1, <4>1, Arbitrated
      <4> QED
        BY <1>3, <2>1, <3>1, <4>1, <4>2 DEF Faithful
    <3> QED
      BY <3>2, <3>3
  <2> QED
    BY <2>2, <2>3
<1>7. faults' \in 0..MaxFaults
  BY <1>1, Faults DEF Probe
<1> HIDE DEF next
<1> QED
  BY <1>1, <1>4, <1>5, <1>6, <1>7, TokensTyped, RoundKeeps

\* Whatever n sends or fetches for the action of its round is the saved content.
LEMMA Sent ==
    ASSUME TypeOK, NEW k, NEW o, Replaces(config, thread, k, o), NEW n \in Nodes
    PROVE  /\ thread[n].act = "push" => config[n].content = k
           /\ thread[n].act = "pull" /\ thread[n].peer \in Nodes => config[thread[n].peer].content = k
<1>1. CASE o = k
  BY <1>1 DEF Replaces
<1>2. CASE o # k
  <2>1. Faithful(config, n, thread[n], k, o)
    BY <1>2 DEF Replaces
  <2>2. thread[n].act # "" => Busy(thread[n])
    BY DEF Busy
  <2>3. "push" # "" /\ "pull" # ""
    OBVIOUS
  <2> QED
    BY <2>1, <2>2, <2>3 DEF Faithful
<1> QED
  BY <1>1, <1>2

\* An action of n ends, with a content applied at p or not.
LEMMA ActionKeeps ==
    ASSUME IInv, NEW n \in Nodes, NEW p \in Nodes, NEW x \in Texts, NEW c,
           c = config \/ c = Apply(p, x),
           \A k, o \in Texts : Replaces(config, thread, k, o) => x = k,
           Becomes(c, [thread EXCEPT ![n] = Following(n)]),
           file' \in [Nodes -> Tokens], mem' \in [Nodes -> Tokens], api' \in [Nodes -> Tokens],
           UNCHANGED <<saves, faults, kept>>
    PROVE  IInv'
<1> DEFINE th == [thread EXCEPT ![n] = Following(n)]
<1>1. TypeOK /\ WithPeer(thread) /\ Saved(config, thread, kept)
  BY DEF IInv
<1>2. config \in [Nodes -> Wide] /\ thread \in [Nodes -> Rounds(Wide)] /\ kept \in Texts /\ MaxStamp \in Nat
  BY <1>1, Typed
<1>3. c \in [Nodes -> Wide]
  <2>1. Stamp(p, x) \in Wide
    BY <1>2 DEF Stamp, Wide
  <2> QED
    BY <1>2, <2>1 DEF Apply
<1>4. Following(n) \in Rounds(Wide) /\ Following(n).act = ""
  BY <1>1, GoesOn
<1>5. th \in [Nodes -> Rounds(Wide)] /\ WithPeer(th)
  BY <1>1, <1>2, <1>4, RoundTyped
<1>6. ASSUME NEW o \in Texts, Replaces(config, thread, kept, o)
      PROVE  Replaces(c, thread, kept, o)
  BY <1>1, <1>2, <1>6, Spread
<1>7. Saved(c, thread, kept)
  BY <1>1, <1>6 DEF Saved
<1>8. ASSUME NEW o \in Texts, Replaces(c, thread, kept, o), o # kept
      PROVE  Faithful(c, n, Following(n), kept, o)
  BY <1>1, <1>8, FollowingFaithful DEF Replaces
<1>9. Saved(c, th, kept)
  BY <1>2, <1>4, <1>7, <1>8, RoundChanged
<1>10. /\ saves' \in 0..MaxSaves /\ faults' \in 0..MaxFaults
       /\ auth \in BOOLEAN /\ explicit \in BOOLEAN /\ kept' = kept
  BY <1>1 DEF TypeOK
<1>11. Becomes(c, th)
  OBVIOUS
<1> HIDE DEF th
<1> QED
  BY <1>2, <1>3, <1>5, <1>9, <1>10, <1>11, Landed

LEMMA PushKeeps ==
    ASSUME IInv, NEW n \in Nodes, Push(n)
    PROVE  IInv'
<1> DEFINE p        == thread[n].peer
           refused  == config[n].content = NoKeys \/ (auth /\ mem[n] # api[p])
           readable == api'[p] = mem[n]
           c        == IF ~refused /\ readable THEN Apply(p, config[n].content) ELSE config
<1>1. TypeOK /\ WithPeer(thread) /\ thread[n].act = "push" /\ UNCHANGED <<saves, faults, kept>>
  BY DEF IInv, Push
<1>2. p \in Nodes /\ config[n].content \in Texts
  <2>1. "push" # "" /\ config[n] \in Wide
    BY <1>1, Typed
  <2> QED
    BY <1>1, <2>1 DEF WithPeer, Wide
<1>3. Becomes(c, [thread EXCEPT ![n] = Following(n)])
  BY DEF Push
<1>4. file' \in [Nodes -> Tokens] /\ mem' \in [Nodes -> Tokens] /\ api' \in [Nodes -> Tokens]
  <2>1. UNCHANGED tokens \/ (Adopt(p, n) /\ api' = [api EXCEPT ![p] = file'[p]])
    BY DEF Push
  <2>2. CASE UNCHANGED tokens
    BY <1>1, <2>2, TokensTyped
  <2>3. CASE Adopt(p, n) /\ api' = [api EXCEPT ![p] = file'[p]]
    <3>1. file' \in [Nodes -> Tokens] /\ mem' \in [Nodes -> Tokens]
      BY <1>1, <1>2, <2>3, AdoptTyped
    <3> QED
      BY <1>1, <1>2, <2>3, <3>1 DEF TypeOK
  <2> QED
    BY <2>1, <2>2, <2>3
<1>5. \A k, o \in Texts : Replaces(config, thread, k, o) => config[n].content = k
  BY <1>1, Sent
<1>6. c = config \/ c = Apply(p, config[n].content)
  OBVIOUS
<1> HIDE DEF c, p
<1> QED
  BY <1>1, <1>2, <1>3, <1>4, <1>5, <1>6, ActionKeeps

LEMMA PullKeeps ==
    ASSUME IInv, NEW n \in Nodes, Pull(n)
    PROVE  IInv'
<1> DEFINE p        == thread[n].peer
           readable == config[p].content # NoKeys /\ file'[n] = api[p]
           c        == IF readable THEN Apply(n, config[p].content) ELSE config
<1>1. TypeOK /\ WithPeer(thread) /\ thread[n].act = "pull" /\ UNCHANGED <<api, saves, faults, kept>>
  BY DEF IInv, Pull
<1>2. p \in Nodes /\ config[p].content \in Texts
  <2>1. "pull" # ""
    OBVIOUS
  <2>2. p \in Nodes
    BY <1>1, <2>1 DEF WithPeer
  <2> QED
    BY <1>1, <2>2, Typed DEF Wide
<1>3. Becomes(c, [thread EXCEPT ![n] = Following(n)])
  BY DEF Pull
<1>4. file' \in [Nodes -> Tokens] /\ mem' \in [Nodes -> Tokens] /\ api' \in [Nodes -> Tokens]
  <2>1. UNCHANGED <<file, mem>> \/ Adopt(n, p)
    BY DEF Pull, AdoptOnPull
  <2>2. file' \in [Nodes -> Tokens] /\ mem' \in [Nodes -> Tokens]
    BY <1>1, <1>2, <2>1, AdoptTyped
  <2> QED
    BY <1>1, <2>2 DEF TypeOK
<1>5. \A k, o \in Texts : Replaces(config, thread, k, o) => config[p].content = k
  BY <1>1, <1>2, Sent
<1>6. c = config \/ c = Apply(n, config[p].content)
  OBVIOUS
<1> HIDE DEF c, p
<1> QED
  BY <1>1, <1>2, <1>3, <1>4, <1>5, <1>6, ActionKeeps

LEMMA Step == IInv /\ [Next]_vars => IInv'
<1> SUFFICES ASSUME IInv, [Next]_vars PROVE IInv'
  OBVIOUS
<1>1. CASE UNCHANGED vars
  BY <1>1 DEF vars, IInv, TypeOK
<1>2. ASSUME NEW n \in Nodes, NEW x \in Contents, SaveByHand(n, x) PROVE IInv'
  BY <1>2, SaveKeeps
<1>3. ASSUME NEW n \in Nodes, Restart(n) PROVE IInv'
  BY <1>3, RestartKeeps
<1>4. ASSUME NEW n \in Nodes, StartAll(n) PROVE IInv'
  BY <1>4, StartKeeps DEF StartAll
<1>5. ASSUME NEW n \in Nodes, Push(n) PROVE IInv'
  BY <1>5, PushKeeps
<1>6. ASSUME NEW n \in Nodes, Pull(n) PROVE IInv'
  BY <1>6, PullKeeps
<1>7. ASSUME NEW n \in Nodes, Lose(n) PROVE IInv'
  BY <1>7, LoseKeeps
<1>8. ASSUME NEW n \in Nodes, NEW p \in Nodes, SyncWithNewPeer(n, p) PROVE IInv'
  BY <1>8, StartKeeps DEF SyncWithNewPeer
<1>9. ASSUME NEW n \in Nodes, NEW p \in Nodes, Probe(n, p) PROVE IInv'
  BY <1>9, ProbeKeeps
<1>10. ASSUME NEW n \in Nodes, NEW p \in Nodes, ConvergeToken(n, p) PROVE IInv'
  BY <1>10, ConvergeKeeps
<1> QED
  BY <1>1, <1>2, <1>3, <1>4, <1>5, <1>6, <1>7, <1>8, <1>9, <1>10 DEF Next

\* A configuration saved on a quiet and aligned mesh is not lost by aligning, through lost
\* calls, restarts, overlapping rounds and differing tokens.
THEOREM SavedStays == Spec => []SavedIsKept
<1>1. IInv => SavedIsKept
  BY DEF IInv, Saved, Replaces, SavedIsKept
<1> QED
  BY <1>1, InitIInv, Step, PTL DEF Spec
=============================================================================
