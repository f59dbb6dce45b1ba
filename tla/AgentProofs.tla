---------------------------- MODULE AgentProofs ----------------------------
(***************************************************************************)
(* The cluster agent, for any cluster and any number of changes: it never  *)
(* reports a condition more often than the cluster gave reason for. The    *)
(* argument keeps one ledger per key: what the lists and watches still     *)
(* hold back of its object is paid for by the credit of the key.           *)
(***************************************************************************)
EXTENDS Agent, FiniteSetTheorems, TLAPS

(* What is held back of a watch, oldest first. *)
Backlog(w) == watch[w].list \o watch[w].stream

Mark == {"clear", "show", "none"}

(* v[i] is the credit that the recoveries after item i brought: with it, a *)
(* ledger of credit c is in order for a key that is in seen or not (s),    *)
(* polled or not (p), and whose object is well at the moment or not (now), *)
(* when the items q are still to be reconciled and mk says what each means *)
(* for the key.                                                            *)
Covers(v, mk, q, now, s, p, c) ==
  /\ c >= 0
  /\ ~s => c >= 1
  /\ now /\ s => c >= 1
  /\ now /\ p /\ ~s => c >= 2
  /\ \A i, j \in 1 .. Len(q) :
       i < j => /\ v[i] >= v[j]
                /\ mk[q[i]] = "show" /\ mk[q[j]] = "clear" => v[i] > v[j]
  /\ \A i \in 1 .. Len(q) :
       /\ ~s => c >= 1 + v[i]
       /\ mk[q[i]] = "show" /\ now => v[i] >= 1
       /\ mk[q[i]] = "clear" /\ s => c >= 1 + v[i]
       /\ mk[q[i]] = "clear" /\ p /\ ~s => c >= 2 + v[i]

Ledger(mk, q, now, s, p, c) ==
  \E v \in [1 .. Len(q) -> Nat] : Covers(v, mk, q, now, s, p, c)

----------------------------------------------------------------------------
(* Ledgers *)

(* With nothing held back, only the credit counts. *)
LEMMA LedgerEmpty ==
  ASSUME NEW mk, NEW now, NEW s, NEW p, NEW c \in Int,
         c >= 0, ~s => c >= 1, now /\ s => c >= 1, now /\ p /\ ~s => c >= 2
  PROVE  Ledger(mk, <<>>, now, s, p, c)
<1>1. [i \in 1 .. 0 |-> 0] \in [1 .. 0 -> Nat]
  OBVIOUS
<1>2. Covers([i \in 1 .. 0 |-> 0], mk, <<>>, now, s, p, c)
  BY DEF Covers
<1>3. QED
  BY <1>1, <1>2 DEF Ledger

LEMMA LedgerUnwatched ==
  ASSUME NEW mk, NEW s, NEW p, NEW c \in Int, c >= 1, ~s => c >= 2
  PROVE  Ledger(mk, <<>>, TRUE, s, p, c)
<1>1. \A now : Ledger(mk, <<>>, now, s, p, c)
  BY LedgerEmpty
<1>2. QED
  BY <1>1

(* A new list shows the object as it is. *)
LEMMA LedgerRelisted ==
  ASSUME NEW S, NEW mk \in [S -> Mark], NEW q \in Seq(S), NEW r \in Seq(S),
         NEW now \in BOOLEAN, NEW s \in BOOLEAN, NEW p \in BOOLEAN, NEW c \in Int,
         Ledger(mk, r, now, s, p, c),
         \A i \in 1 .. Len(q) : /\ mk[q[i]] = "clear" => now
                                /\ mk[q[i]] = "show" => ~now
  PROVE  Ledger(mk, q, now, s, p, c)
<1> DEFINE v == [i \in 1 .. Len(q) |-> 0]
<1>1. v \in [1 .. Len(q) -> Nat]
  OBVIOUS
<1>2. PICK u \in [1 .. Len(r) -> Nat] : Covers(u, mk, r, now, s, p, c)
  BY DEF Ledger
<1>3. Covers(v, mk, q, now, s, p, c)
  BY <1>2 DEF Covers
<1>4. QED
  BY <1>1, <1>3 DEF Ledger

(* The object recovers, the ledger is credited and the watch is told. *)
LEMMA LedgerRecovers ==
  ASSUME NEW S, NEW mk \in [S -> Mark], NEW q \in Seq(S), NEW x \in S,
         NEW now \in BOOLEAN, NEW s \in BOOLEAN, NEW p \in BOOLEAN, NEW c \in Int,
         Ledger(mk, q, now, s, p, c), mk[x] = "clear"
  PROVE  Ledger(mk, Append(q, x), TRUE, s, p, c + 1)
<1>1. PICK u \in [1 .. Len(q) -> Nat] : Covers(u, mk, q, now, s, p, c)
  BY DEF Ledger
<1> DEFINE t == Append(q, x)
           v == [i \in 1 .. Len(t) |-> IF i = Len(t) THEN 0 ELSE u[i] + 1]
<1>2. /\ Len(q) \in Nat /\ Len(t) = Len(q) + 1 /\ t[Len(t)] = x
      /\ \A i \in 1 .. Len(q) : t[i] = q[i]
  OBVIOUS
<1>3. v \in [1 .. Len(t) -> Nat]
  BY <1>2
<1>4. /\ v[Len(t)] = 0
      /\ \A i \in 1 .. Len(q) : v[i] = u[i] + 1 /\ u[i] \in Nat
      /\ \A i \in 1 .. Len(t) : i # Len(t) => i \in 1 .. Len(q)
  BY <1>2
<1> HIDE DEF t, v
<1>5. \A i, j \in 1 .. Len(t) :
        i < j => /\ v[i] >= v[j]
                 /\ mk[t[i]] = "show" /\ mk[t[j]] = "clear" => v[i] > v[j]
  <2> SUFFICES ASSUME NEW i \in 1 .. Len(t), NEW j \in 1 .. Len(t), i < j
               PROVE  /\ v[i] >= v[j]
                      /\ mk[t[i]] = "show" /\ mk[t[j]] = "clear" => v[i] > v[j]
    OBVIOUS
  <2>1. i \in 1 .. Len(q) /\ t[i] = q[i] /\ v[i] = u[i] + 1 /\ u[i] \in Nat
    BY <1>2, <1>4
  <2>2. CASE j = Len(t)
    BY <1>1, <1>2, <1>4, <2>1, <2>2 DEF Covers
  <2>3. CASE j # Len(t)
    <3>1. j \in 1 .. Len(q) /\ t[j] = q[j] /\ v[j] = u[j] + 1 /\ u[j] \in Nat
      BY <1>2, <1>4, <2>3
    <3>2. QED
      BY <1>1, <2>1, <3>1 DEF Covers
  <2>4. QED
    BY <2>2, <2>3
<1>6. \A i \in 1 .. Len(t) :
        /\ ~s => c + 1 >= 1 + v[i]
        /\ mk[t[i]] = "show" => v[i] >= 1
        /\ mk[t[i]] = "clear" /\ s => c + 1 >= 1 + v[i]
        /\ mk[t[i]] = "clear" /\ p /\ ~s => c + 1 >= 2 + v[i]
  BY <1>1, <1>2, <1>4 DEF Covers
<1>7. Covers(v, mk, t, TRUE, s, p, c + 1)
  <2>1. c + 1 >= 1 /\ (~s => c + 1 >= 2)
    BY <1>1 DEF Covers
  <2>2. QED
    BY <1>5, <1>6, <2>1 DEF Covers
<1>8. QED
  BY <1>3, <1>7 DEF Ledger, t

(* The object changes without a recovery of the key. *)
LEMMA LedgerChanges ==
  ASSUME NEW S, NEW mk \in [S -> Mark], NEW q \in Seq(S), NEW x \in S,
         NEW now \in BOOLEAN, NEW next \in BOOLEAN,
         NEW s \in BOOLEAN, NEW p \in BOOLEAN, NEW c \in Int,
         Ledger(mk, q, now, s, p, c),
         next => now, mk[x] = "clear" => now, mk[x] = "show" => ~next
  PROVE  Ledger(mk, Append(q, x), next, s, p, c)
<1>1. PICK u \in [1 .. Len(q) -> Nat] : Covers(u, mk, q, now, s, p, c)
  BY DEF Ledger
<1> DEFINE t == Append(q, x)
           v == [i \in 1 .. Len(t) |-> IF i = Len(t) THEN 0 ELSE u[i]]
<1>2. /\ Len(q) \in Nat /\ Len(t) = Len(q) + 1 /\ t[Len(t)] = x
      /\ \A i \in 1 .. Len(q) : t[i] = q[i]
  OBVIOUS
<1>3. v \in [1 .. Len(t) -> Nat]
  BY <1>2
<1>4. /\ v[Len(t)] = 0
      /\ \A i \in 1 .. Len(q) : v[i] = u[i] /\ u[i] \in Nat
      /\ \A i \in 1 .. Len(t) : i # Len(t) => i \in 1 .. Len(q)
  BY <1>2
<1> HIDE DEF t, v
<1>5. \A i, j \in 1 .. Len(t) :
        i < j => /\ v[i] >= v[j]
                 /\ mk[t[i]] = "show" /\ mk[t[j]] = "clear" => v[i] > v[j]
  <2> SUFFICES ASSUME NEW i \in 1 .. Len(t), NEW j \in 1 .. Len(t), i < j
               PROVE  /\ v[i] >= v[j]
                      /\ mk[t[i]] = "show" /\ mk[t[j]] = "clear" => v[i] > v[j]
    OBVIOUS
  <2>1. i \in 1 .. Len(q) /\ t[i] = q[i] /\ v[i] = u[i] /\ u[i] \in Nat
    BY <1>2, <1>4
  <2>2. CASE j = Len(t)
    BY <1>1, <1>2, <1>4, <2>1, <2>2 DEF Covers
  <2>3. CASE j # Len(t)
    <3>1. j \in 1 .. Len(q) /\ t[j] = q[j] /\ v[j] = u[j] /\ u[j] \in Nat
      BY <1>2, <1>4, <2>3
    <3>2. QED
      BY <1>1, <2>1, <3>1 DEF Covers
  <2>4. QED
    BY <2>2, <2>3
<1>6. \A i \in 1 .. Len(t) :
        /\ ~s => c >= 1 + v[i]
        /\ mk[t[i]] = "show" /\ next => v[i] >= 1
        /\ mk[t[i]] = "clear" /\ s => c >= 1 + v[i]
        /\ mk[t[i]] = "clear" /\ p /\ ~s => c >= 2 + v[i]
  BY <1>1, <1>2, <1>4 DEF Covers
<1>7. Covers(v, mk, t, next, s, p, c)
  BY <1>1, <1>5, <1>6 DEF Covers
<1>8. QED
  BY <1>3, <1>7 DEF Ledger, t

LEMMA LedgerFails ==
  ASSUME NEW S, NEW mk \in [S -> Mark], NEW q \in Seq(S), NEW x \in S,
         NEW now \in BOOLEAN, NEW s \in BOOLEAN, NEW p \in BOOLEAN, NEW c \in Int,
         Ledger(mk, q, now, s, p, c), mk[x] # "clear"
  PROVE  Ledger(mk, Append(q, x), FALSE, s, p, c)
<1>1. \A next \in BOOLEAN : ~next => Ledger(mk, Append(q, x), next, s, p, c)
  BY LedgerChanges
<1>2. QED
  BY <1>1

(* The object stops being well and nobody is told. *)
LEMMA LedgerSilent ==
  ASSUME NEW mk, NEW q, NEW now \in BOOLEAN, NEW next \in BOOLEAN, NEW s, NEW p, NEW c,
         Ledger(mk, q, now, s, p, c), next => now
  PROVE  Ledger(mk, q, next, s, p, c)
  BY DEF Ledger, Covers

(* The next item is reconciled: what it means for the key decides whether  *)
(* the key stays, is cleared or fires.                                     *)
LEMMA LedgerTakes ==
  ASSUME NEW S, NEW mk \in [S -> Mark], NEW q \in Seq(S), q # <<>>,
         NEW now \in BOOLEAN, NEW s \in BOOLEAN, NEW p \in BOOLEAN, NEW c \in Int,
         NEW s2 \in BOOLEAN, NEW c2 \in Int,
         Ledger(mk, q, now, s, p, c),
         \/ s2 = s /\ c2 = c
         \/ mk[Head(q)] = "clear" /\ ~s2 /\ c2 = (IF p /\ s THEN c + 1 ELSE c)
         \/ mk[Head(q)] = "show" /\ ~s /\ s2 /\ c2 = c - 1
  PROVE  Ledger(mk, Tail(q), now, s2, p, c2)
<1>1. PICK u \in [1 .. Len(q) -> Nat] : Covers(u, mk, q, now, s, p, c)
  BY DEF Ledger
<1> DEFINE t == Tail(q)
           v == [i \in 1 .. Len(t) |-> u[i + 1]]
<1>2. /\ Len(q) \in Nat /\ Len(q) >= 1 /\ Len(t) = Len(q) - 1 /\ Head(q) = q[1]
      /\ \A i \in 1 .. Len(t) : t[i] = q[i + 1]
  OBVIOUS
<1>3. v \in [1 .. Len(t) -> Nat]
  BY <1>2
<1>4. /\ 1 \in 1 .. Len(q) /\ u[1] \in Nat
      /\ \A i \in 1 .. Len(t) :
           v[i] = u[i + 1] /\ v[i] \in Nat /\ i + 1 \in 1 .. Len(q) /\ 1 < i + 1
  BY <1>2
<1> HIDE DEF t, v
<1>5. \A i, j \in 1 .. Len(t) :
        i < j => /\ v[i] >= v[j]
                 /\ mk[t[i]] = "show" /\ mk[t[j]] = "clear" => v[i] > v[j]
  <2> SUFFICES ASSUME NEW i \in 1 .. Len(t), NEW j \in 1 .. Len(t), i < j
               PROVE  /\ v[i] >= v[j]
                      /\ mk[t[i]] = "show" /\ mk[t[j]] = "clear" => v[i] > v[j]
    OBVIOUS
  <2>1. i + 1 < j + 1
    BY <1>2
  <2>2. QED
    BY <1>1, <1>2, <1>4, <2>1 DEF Covers
<1>6. \A i \in 1 .. Len(t) :
        /\ u[1] >= v[i]
        /\ mk[q[1]] = "show" /\ mk[t[i]] = "clear" => u[1] > v[i]
        /\ ~s => c >= 1 + v[i]
        /\ mk[t[i]] = "show" /\ now => v[i] >= 1
        /\ mk[t[i]] = "clear" /\ s => c >= 1 + v[i]
        /\ mk[t[i]] = "clear" /\ p /\ ~s => c >= 2 + v[i]
  BY <1>1, <1>2, <1>4 DEF Covers
<1>7. CASE s2 = s /\ c2 = c
  <2>1. Covers(v, mk, t, now, s2, p, c2)
    BY <1>1, <1>5, <1>6, <1>7 DEF Covers
  <2>2. QED
    BY <1>3, <2>1 DEF Ledger, t
<1>8. CASE mk[Head(q)] = "clear" /\ ~s2 /\ c2 = (IF p /\ s THEN c + 1 ELSE c)
  <2>1. /\ c2 >= 1 + u[1] /\ (p => c2 >= 2 + u[1])
    BY <1>1, <1>2, <1>4, <1>8 DEF Covers
  <2>2. Covers(v, mk, t, now, s2, p, c2)
    BY <1>4, <1>5, <1>6, <1>8, <2>1 DEF Covers
  <2>3. QED
    BY <1>3, <2>2 DEF Ledger, t
<1>9. CASE mk[Head(q)] = "show" /\ ~s /\ s2 /\ c2 = c - 1
  <2>1. /\ c2 >= u[1] /\ (now => u[1] >= 1)
    BY <1>1, <1>2, <1>4, <1>9 DEF Covers
  <2>2. \A i \in 1 .. Len(t) : mk[t[i]] = "clear" => c2 >= 1 + v[i]
    BY <1>2, <1>4, <1>6, <1>9, <2>1
  <2>3. Covers(v, mk, t, now, s2, p, c2)
    BY <1>4, <1>5, <1>6, <1>9, <2>1, <2>2 DEF Covers
  <2>4. QED
    BY <1>3, <2>3 DEF Ledger, t
<1>10. QED
  BY <1>7, <1>8, <1>9

(* The poller looks at the pod: an unseen key fires. *)
LEMMA LedgerPolled ==
  ASSUME NEW S, NEW mk \in [S -> Mark], NEW q \in Seq(S),
         NEW now \in BOOLEAN, NEW s \in BOOLEAN, NEW c \in Int,
         Ledger(mk, q, now, s, TRUE, c)
  PROVE  Ledger(mk, q, now, TRUE, FALSE, IF s THEN c ELSE c - 1)
<1>1. PICK u \in [1 .. Len(q) -> Nat] : Covers(u, mk, q, now, s, TRUE, c)
  BY DEF Ledger
<1>2. CASE s
  <2>1. Covers(u, mk, q, now, TRUE, FALSE, c)
    BY <1>1, <1>2 DEF Covers
  <2>2. QED
    BY <1>2, <2>1 DEF Ledger
<1>3. CASE ~s
  <2>1. Covers(u, mk, q, now, TRUE, FALSE, c - 1)
    BY <1>1, <1>3 DEF Covers
  <2>2. QED
    BY <1>3, <2>1 DEF Ledger
<1>4. QED
  BY <1>2, <1>3

(* The poller lists a pod that no item shows as well, or drops one. *)
LEMMA LedgerListed ==
  ASSUME NEW mk, NEW q, NEW now \in BOOLEAN, NEW s, NEW p \in BOOLEAN, NEW p2 \in BOOLEAN, NEW c,
         Ledger(mk, q, now, s, p, c),
         p2 /\ ~p => ~now /\ \A i \in 1 .. Len(q) : mk[q[i]] # "clear"
  PROVE  Ledger(mk, q, now, s, p2, c)
  BY DEF Ledger, Covers

----------------------------------------------------------------------------
(* Type correctness *)

(* SetToSeq lists what is in the set. *)
LEMMA SetToSeqLists ==
  ASSUME NEW S, IsFiniteSet(S)
  PROVE  SetToSeq(S) \in Seq(S)
<1>1. Cardinality(S) \in Nat /\ ExistsBijection(1 .. Cardinality(S), S)
  BY FS_CardinalityType
<1>2. \E f \in [1 .. Cardinality(S) -> S] : IsInjective(f)
  BY <1>1 DEF ExistsBijection, Bijection, Injection, IsInjective
<1>3. SetToSeq(S) \in [1 .. Cardinality(S) -> S]
  BY <1>2 DEF SetToSeq
<1>4. QED
  BY <1>1, <1>3

LEMMA SeqWidens ==
  ASSUME NEW S, NEW T, S \subseteq T, NEW q \in Seq(S)
  PROVE  q \in Seq(T)
  OBVIOUS

LEMMA NoLoopTyped ==
  ASSUME NEW w \in Watcher
  PROVE  NoLoop \in Loop(w)
  BY DEF NoLoop, Loop

LEMMA NoPodTyped == NoPod \in PodStatus
<1>1. <<"starting", 0>> \in ContainerState
  BY DEF ContainerState
<1>2. QED
  BY <1>1 DEF NoPod, PodStatus

LEMMA ItemForms ==
  /\ Item("pods") = Pod \X PodStatus
  /\ Item("nodes") = Node \X SUBSET Condition
  /\ Item("scans") = Workload \X Scan
  BY DEF Item

(* Finitely many objects have finitely many versions. *)
LEMMA FinitePairs ==
  ASSUME NEW S, IsFiniteSet(S), NEW f
  PROVE  IsFiniteSet({<<x, f[x]>> : x \in S})
<1> DEFINE T == {<<x, f[x]>> : x \in S}
           g == [x \in S |-> <<x, f[x]>>]
<1>1. g \in Surjection(S, T)
  BY DEF Surjection
<1>2. QED
  BY <1>1, FS_Surjection

(* A list of a loop is a sequence of its items, each as it is. *)
LEMMA ListedItems ==
  ASSUME TypeOK, NEW w \in Watcher
  PROVE  /\ Listed(w) \subseteq Item(w)
         /\ SetToSeq(Listed(w)) \in Seq(Listed(w))
<1>1. CASE w = "pods"
  <2>1. Listed(w) = {<<p, pods[p]>> : p \in {p \in Pod : pods[p] # NoPod}}
    BY <1>1 DEF Listed
  <2>2. IsFiniteSet({p \in Pod : pods[p] # NoPod})
    BY AgentAssumption, FS_Subset
  <2>3. IsFiniteSet(Listed(w))
    BY <2>1, <2>2, FinitePairs
  <2>4. Listed(w) \subseteq Item(w)
    BY <1>1, <2>1, ItemForms DEF TypeOK
  <2>5. QED
    BY <2>3, <2>4, SetToSeqLists
<1>2. CASE w = "nodes"
  <2>1. Listed(w) = {<<n, nodes[n]>> : n \in Node}
    BY <1>2 DEF Listed
  <2>3. IsFiniteSet(Listed(w))
    BY <2>1, AgentAssumption, FinitePairs
  <2>4. Listed(w) \subseteq Item(w)
    BY <1>2, <2>1, ItemForms DEF TypeOK
  <2>5. QED
    BY <2>3, <2>4, SetToSeqLists
<1>3. CASE w = "scans"
  <2>1. Listed(w) = {<<x, scans[x]>> : x \in {x \in Workload : scans[x] # NoScan}}
    BY <1>3 DEF Listed
  <2>2. IsFiniteSet({x \in Workload : scans[x] # NoScan})
    BY AgentAssumption, FS_Subset
  <2>3. IsFiniteSet(Listed(w))
    BY <2>1, <2>2, FinitePairs
  <2>4. Listed(w) \subseteq Item(w)
    BY <1>3, <2>1, ItemForms DEF TypeOK
  <2>5. QED
    BY <2>3, <2>4, SetToSeqLists
<1>4. QED
  BY <1>1, <1>2, <1>3 DEF Watcher

(* The parts of a loop. *)
LEMMA LoopTyped ==
  ASSUME TypeOK, NEW w \in Watcher
  PROVE  /\ w \in DOMAIN watch
         /\ watch[w].up \in BOOLEAN
         /\ watch[w].list \in Seq(Item(w)) /\ watch[w].stream \in Seq(Item(w))
         /\ watch[w].out \in Seq(Event)
         /\ ~watch[w].up => watch[w] = NoLoop
<1>1. watch[w] \in Loop(w)
  BY DEF TypeOK
<1>2. QED
  BY <1>1 DEF TypeOK, Loop

LEMMA HeadTail ==
  ASSUME NEW S, NEW q \in Seq(S), q # <<>>
  PROVE  Head(q) \in S /\ Tail(q) \in Seq(S) /\ Len(Tail(q)) = Len(q) - 1
  OBVIOUS

LEMMA NextItemTyped ==
  ASSUME TypeOK, NEW w \in Watcher, HasItem(w)
  PROVE  NextItem(w) \in Item(w)
<1>1. CASE watch[w].list # <<>>
  <2>1. Head(watch[w].list) \in Item(w)
    BY <1>1, LoopTyped, HeadTail
  <2>2. QED
    BY <1>1, <2>1 DEF NextItem
<1>2. CASE watch[w].list = <<>>
  <2>1. Head(watch[w].stream) \in Item(w)
    BY <1>2, LoopTyped, HeadTail DEF HasItem
  <2>2. QED
    BY <1>2, <2>1 DEF NextItem
<1>3. QED
  BY <1>1, <1>2

(* The conjunct of TypeOK about the loops. *)
LoopsTyped ==
  /\ DOMAIN watch = Watcher
  /\ \A w \in Watcher : watch[w] \in Loop(w) /\ (watch[w].up \/ watch[w] = NoLoop)

(* A loop is replaced by one of the right shape. *)
LEMMA LoopReplaced ==
  ASSUME TypeOK, NEW w \in Watcher, NEW l \in Loop(w), l.up \/ l = NoLoop,
         DOMAIN watch' = Watcher, watch'[w] = l,
         \A x \in Watcher \ {w} : watch'[x] = watch[x]
  PROVE  LoopsTyped'
  BY DEF TypeOK, LoopsTyped

LEMMA LoopBuilt ==
  ASSUME NEW w, NEW l \in Loop(w), NEW ls \in Seq(Item(w)), NEW st \in Seq(Item(w)),
         NEW o \in Seq(Event)
  PROVE  [l EXCEPT !.out = o, !.list = ls, !.stream = st] \in Loop(w)
  BY DEF Loop

LEMMA StreamBuilt ==
  ASSUME NEW w, NEW l \in Loop(w), NEW st \in Seq(Item(w))
  PROVE  [l EXCEPT !.stream = st] \in Loop(w)
  BY DEF Loop

LEMMA OutBuilt ==
  ASSUME NEW w, NEW l \in Loop(w), NEW o \in Seq(Event)
  PROVE  [l EXCEPT !.out = o] \in Loop(w)
  BY DEF Loop

(* What a loop is after the next item has been taken. *)
LEMMA TakesLoop ==
  ASSUME TypeOK, NEW w \in Watcher, HasItem(w), NEW out, Takes(w, out)
  PROVE  /\ DOMAIN watch' = Watcher
         /\ \A x \in Watcher \ {w} : watch'[x] = watch[x]
         /\ watch'[w] = [watch[w] EXCEPT
              !.out = out,
              !.list = IF watch[w].list # <<>> THEN Tail(watch[w].list) ELSE watch[w].list,
              !.stream = IF watch[w].list = <<>> THEN Tail(watch[w].stream) ELSE watch[w].stream]
<1>1. DOMAIN watch = Watcher /\ watch[w] \in Loop(w)
  BY DEF TypeOK
<1>2. QED
  BY <1>1 DEF Takes, Loop

LEMMA TakesTyped ==
  ASSUME TypeOK, NEW w \in Watcher, HasItem(w), NEW out \in Seq(Event), Takes(w, out)
  PROVE  LoopsTyped'
<1> DEFINE ls == IF watch[w].list # <<>> THEN Tail(watch[w].list) ELSE watch[w].list
           st == IF watch[w].list = <<>> THEN Tail(watch[w].stream) ELSE watch[w].stream
           l == [watch[w] EXCEPT !.out = out, !.list = ls, !.stream = st]
<1>1. ls \in Seq(Item(w))
  BY LoopTyped, HeadTail
<1>2. st \in Seq(Item(w))
  <2>1. CASE watch[w].list = <<>>
    BY <2>1, LoopTyped, HeadTail DEF HasItem
  <2>2. CASE watch[w].list # <<>>
    BY <2>2, LoopTyped
  <2>3. QED
    BY <2>1, <2>2
<1>3. watch[w] \in Loop(w)
  BY DEF TypeOK
<1>4. l \in Loop(w)
  <2> HIDE DEF ls, st
  <2>1. QED
    BY <1>1, <1>2, <1>3, LoopBuilt
<1>5. watch[w].up
  BY LoopTyped DEF HasItem, NoLoop
<1>6. l.up = watch[w].up
  BY <1>3 DEF Loop
<1>7. /\ DOMAIN watch' = Watcher /\ watch'[w] = l
      /\ \A x \in Watcher \ {w} : watch'[x] = watch[x]
  BY TakesLoop
<1> HIDE DEF l
<1>8. QED
  BY <1>4, <1>5, <1>6, <1>7, LoopReplaced

LEMMA TypeInit == Init => TypeOK
<1> SUFFICES ASSUME Init PROVE TypeOK
  OBVIOUS
<1>1. pods \in [Pod -> PodStatus]
  BY FoundAssumption DEF Init
<1>2. scans \in [Workload -> Scan]
  BY DEF Init, NoScan, Scan
<1>3. \A w \in Watcher : watch[w] = NoLoop
  BY DEF Init
<1>4. LoopsTyped
  BY <1>3, NoLoopTyped DEF Init, LoopsTyped
<1>5. /\ poll \in [rest : SUBSET Pod, out : Seq(Event)]
      /\ queue \in [Source -> Seq(Event)] /\ \A s \in Source : Len(queue[s]) <= Capacity
      /\ merged \in Seq(Event) /\ Len(merged) <= Capacity
  BY AgentAssumption DEF Init
<1>6. credit \in [Key -> Int]
  BY DEF Init, StartCredit
<1>7. QED
  BY <1>1, <1>2, <1>4, <1>5, <1>6, AgentAssumption DEF Init, TypeOK, LoopsTyped

(* A change of the cluster reaches the stream of a loop that is up. *)
LEMMA ChangesLoop ==
  ASSUME TypeOK, NEW w \in Watcher, NEW x, NEW status, Changes(w, x, status)
  PROVE  /\ DOMAIN watch' = Watcher
         /\ \A y \in Watcher \ {w} : watch'[y] = watch[y]
         /\ watch'[w] = [watch[w] EXCEPT
              !.stream = IF watch[w].up THEN Append(watch[w].stream, <<x, status>>)
                         ELSE watch[w].stream]
<1>1. DOMAIN watch = Watcher /\ watch[w] \in Loop(w)
  BY DEF TypeOK
<1>2. QED
  BY <1>1 DEF Changes, Loop

LEMMA ChangesTyped ==
  ASSUME TypeOK, NEW w \in Watcher, NEW x, NEW status,
         <<x, status>> \in Item(w), Changes(w, x, status)
  PROVE  LoopsTyped' /\ clock' \in 0 .. MaxChanges
<1> DEFINE st == IF watch[w].up THEN Append(watch[w].stream, <<x, status>>) ELSE watch[w].stream
           l == [watch[w] EXCEPT !.stream = st]
<1>1. st \in Seq(Item(w))
  BY LoopTyped
<1>2. watch[w] \in Loop(w)
  BY DEF TypeOK
<1>3. l \in Loop(w)
  <2> HIDE DEF st
  <2>1. QED
    BY <1>1, <1>2, StreamBuilt
<1>4. l.up \/ l = NoLoop
  <2>1. CASE watch[w].up
    BY <2>1, <1>2 DEF Loop
  <2>2. CASE ~watch[w].up
    BY <2>2, <1>2, LoopTyped DEF Loop, NoLoop
  <2>3. QED
    BY <2>1, <2>2
<1>5. /\ DOMAIN watch' = Watcher /\ watch'[w] = l
      /\ \A y \in Watcher \ {w} : watch'[y] = watch[y]
  BY ChangesLoop
<1> HIDE DEF l
<1>6. LoopsTyped'
  BY <1>3, <1>4, <1>5, LoopReplaced
<1>7. clock' \in 0 .. MaxChanges
  BY AgentAssumption DEF Changes, TypeOK
<1>8. QED
  BY <1>6, <1>7

LEMMA TypePodBecomes ==
  ASSUME TypeOK, NEW p \in Pod, NEW pod \in PodStatus, PodBecomes(p, pod)
  PROVE  TypeOK'
<1>1. LoopsTyped' /\ clock' \in 0 .. MaxChanges
  <2>1. <<p, pod>> \in Item("pods")
    BY ItemForms
  <2>2. QED
    BY <2>1, ChangesTyped DEF PodBecomes, Watcher
<1>2. pods' \in [Pod -> PodStatus]
  BY DEF PodBecomes, TypeOK
<1>3. credit' \in [Key -> Int]
  BY DEF PodBecomes, TypeOK
<1>4. UNCHANGED <<enabled, nodes, scans, health, entries, queue, merged, told, lost, fires>>
  BY DEF PodBecomes, Changes
<1>5. QED
  BY <1>1, <1>2, <1>3, <1>4 DEF TypeOK, LoopsTyped, health

(* The statuses a step of the cluster gives a pod. *)
LEMMA PodStatuses ==
  ASSUME TypeOK, NEW p \in Pod
  PROVE  /\ [NoPod EXCEPT !.phase = "young"] \in PodStatus
         /\ [pods[p] EXCEPT !.phase = "running"] \in PodStatus
         /\ [pods[p] EXCEPT !.phase = "stuck"] \in PodStatus
         /\ \A c \in Container, s \in ContainerState :
              [pods[p] EXCEPT !.container[c] = s] \in PodStatus
<1>1. pods[p] \in PodStatus
  BY DEF TypeOK
<1>2. QED
  BY <1>1, NoPodTyped DEF PodStatus

LEMMA TypeContainerChanges ==
  ASSUME TypeOK, NEW p \in Pod, NEW c \in Container, ContainerChanges(p, c)
  PROVE  TypeOK'
<1>1. PICK s \in ({"ready"} \cup Waiting) \X {0} \cup {<<"OOMKilled", clock + 1>>} :
        PodBecomes(p, [pods[p] EXCEPT !.container[c] = s])
  BY DEF ContainerChanges
<1>2. s \in ContainerState
  <2>1. clock + 1 \in 1 .. MaxChanges
    BY <1>1, AgentAssumption DEF PodBecomes, Changes, TypeOK
  <2>2. QED
    BY <2>1 DEF ContainerState, FailureState
<1>3. QED
  BY <1>1, <1>2, PodStatuses, TypePodBecomes

LEMMA TypePodSilently ==
  ASSUME TypeOK, NEW p \in Pod, NEW pod \in PodStatus, PodSilently(p, pod),
         told' \subseteq Key, lost' \subseteq Key
  PROVE  TypeOK'
<1>1. clock' \in 0 .. MaxChanges
  BY AgentAssumption DEF PodSilently, TypeOK
<1>2. pods' \in [Pod -> PodStatus]
  BY DEF PodSilently, TypeOK
<1>3. UNCHANGED <<enabled, nodes, scans, watch, health, entries, queue, merged, credit, fires>>
  BY DEF PodSilently
<1>4. QED
  BY <1>1, <1>2, <1>3 DEF TypeOK, health

LEMMA KeysInKey ==
  /\ \A p \in Pod : PodKeys(p) \subseteq Key
  /\ \A n \in Node : NodeKeys(n) \subseteq Key
  /\ \A n \in Node, cond \in Condition : NodeKey(n, cond) \in Key
<1>1. /\ \A p \in Pod : PodKeys(p) \subseteq Key
      /\ \A n \in Node : NodeKeys(n) \subseteq Key
  BY DEF Key
<1>2. \A n \in Node, cond \in Condition : NodeKey(n, cond) \in NodeKeys(n)
  BY DEF NodeKeys
<1>3. QED
  BY <1>1, <1>2

LEMMA TypeNodeChanges ==
  ASSUME TypeOK, NEW n \in Node, NEW cond \in Condition, NodeChanges(n, cond)
  PROVE  TypeOK'
<1> DEFINE bad == IF cond \in nodes[n] THEN nodes[n] \ {cond} ELSE nodes[n] \cup {cond}
<1>1. bad \in SUBSET Condition
  BY DEF TypeOK
<1>2. LoopsTyped' /\ clock' \in 0 .. MaxChanges
  <2>1. <<n, bad>> \in Item("nodes")
    BY <1>1, ItemForms
  <2>2. QED
    BY <2>1, ChangesTyped DEF NodeChanges, Watcher
<1>3. nodes' \in [Node -> SUBSET Condition]
  BY <1>1 DEF NodeChanges, TypeOK
<1>4. credit' \in [Key -> Int]
  BY KeysInKey DEF NodeChanges, TypeOK
<1>5. UNCHANGED <<enabled, pods, scans, health, entries, queue, merged, told, lost, fires>>
  BY DEF NodeChanges, Changes
<1>6. QED
  BY <1>2, <1>3, <1>4, <1>5 DEF TypeOK, LoopsTyped, health

LEMMA TypeScanChanges ==
  ASSUME TypeOK, NEW x \in Workload, NEW scan \in Scan, ScanChanges(x, scan)
  PROVE  TypeOK'
<1>1. LoopsTyped' /\ clock' \in 0 .. MaxChanges
  <2>1. <<x, scan>> \in Item("scans")
    BY ItemForms
  <2>2. QED
    BY <2>1, ChangesTyped DEF ScanChanges, Watcher
<1>2. scans' \in [Workload -> Scan]
  BY DEF ScanChanges, TypeOK
<1>3. UNCHANGED <<enabled, pods, nodes, health, entries, queue, merged, told, lost, credit, fires>>
  BY DEF ScanChanges, Changes
<1>4. QED
  BY <1>1, <1>2, <1>3 DEF TypeOK, LoopsTyped, health

LEMMA TypeClusterStep ==
  ASSUME TypeOK, ClusterStep PROVE TypeOK'
<1>1. CASE \E p \in Pod : PodCreated(p)
  BY <1>1, PodStatuses, TypePodBecomes DEF PodCreated
<1>2. CASE \E p \in Pod : PodStarts(p)
  BY <1>2, PodStatuses, TypePodBecomes DEF PodStarts
<1>3. CASE \E p \in Pod : PodSticks(p)
  BY <1>3, PodStatuses, TypePodSilently DEF PodSticks, TypeOK
<1>4. CASE \E p \in Pod : PodDeleted(p)
  <2>1. \A p \in Pod : PodKeys(p) \subseteq Key
    BY DEF Key
  <2>2. PICK p \in Pod : PodDeleted(p)
    BY <1>4
  <2>3. told' \subseteq Key /\ lost' \subseteq Key
    BY <2>1, <2>2 DEF PodDeleted, TypeOK
  <2>4. QED
    BY <2>2, <2>3, NoPodTyped, TypePodSilently DEF PodDeleted
<1>5. QED
  BY <1>1, <1>2, <1>3, <1>4, TypeContainerChanges, TypeNodeChanges, TypeScanChanges
     DEF ClusterStep

LEMMA FreshLoop ==
  ASSUME NEW w \in Watcher, NEW ls \in Seq(Item(w))
  PROVE  LET l == [NoLoop EXCEPT !.up = TRUE, !.list = ls]
         IN l \in Loop(w) /\ l.up /\ l.list = ls /\ l.stream = <<>>
<1>1. NoLoop \in Loop(w) /\ NoLoop.stream = <<>>
  BY NoLoopTyped DEF NoLoop
<1>2. QED
  BY <1>1 DEF Loop

LEMMA TypeListObjects ==
  ASSUME TypeOK, NEW w \in Watcher, ListObjects(w) PROVE TypeOK'
<1> DEFINE ls == SetToSeq(Listed(w))
           l == [NoLoop EXCEPT !.up = TRUE, !.list = ls]
<1>1. ls \in Seq(Item(w))
  BY ListedItems, SeqWidens
<1>2. l \in Loop(w) /\ l.up
  <2> HIDE DEF ls
  <2>1. QED
    BY <1>1, FreshLoop
<1>3. watch' = [watch EXCEPT ![w] = l]
  BY DEF ListObjects
<1> HIDE DEF l
<1>4. /\ DOMAIN watch' = Watcher /\ watch'[w] = l
      /\ \A x \in Watcher \ {w} : watch'[x] = watch[x]
  BY <1>3 DEF TypeOK
<1>5. LoopsTyped'
  BY <1>2, <1>4, LoopReplaced
<1>6. UNCHANGED <<enabled, cluster, health, entries, queue, merged, history>>
  BY DEF ListObjects
<1>7. QED
  BY <1>5, <1>6 DEF TypeOK, LoopsTyped, cluster, health, history

LEMMA TypeWatchCloses ==
  ASSUME TypeOK, NEW w \in Watcher, WatchCloses(w) PROVE TypeOK'
<1>1. LoopsTyped'
  BY NoLoopTyped DEF WatchCloses, TypeOK, LoopsTyped
<1>2. UNCHANGED <<enabled, cluster, health, entries, queue, merged, history>>
  BY DEF WatchCloses
<1>3. QED
  BY <1>1, <1>2 DEF TypeOK, LoopsTyped, cluster, health, history

(* The failures of a pod are keys of it, and never its pending key. *)
LEMMA FailuresAreKeys ==
  ASSUME NEW p \in Pod, NEW pod \in PodStatus
  PROVE  /\ Failures(p, pod) \subseteq PodKeys(p)
         /\ PendingKey(p) \notin Failures(p, pod)
<1>1. \A s \in FailureState : s # <<"Pending", 0>>
  BY AgentAssumption DEF FailureState
<1>2. Failures(p, pod) \subseteq {p} \X Container \X FailureState
  BY DEF Failures
<1>3. PendingKey(p) \notin {p} \X Container \X FailureState
  BY <1>1 DEF PendingKey
<1>4. QED
  BY <1>2, <1>3 DEF PodKeys

LEMMA KeyIsEvent == Key \subseteq Event
  BY DEF Event

LEMMA TypeReconcilePod ==
  ASSUME TypeOK, ReconcilePod PROVE TypeOK'
<1> DEFINE p == NextItem("pods")[1]
           pod == NextItem("pods")[2]
<1>1. p \in Pod /\ pod \in PodStatus
  BY NextItemTyped, ItemForms DEF ReconcilePod, Watcher
<1>2. HasItem("pods") /\ UNCHANGED <<enabled, cluster, poll, entries, queue, merged, fires>>
  BY DEF ReconcilePod
<1>3. Failures(p, pod) \subseteq Key
  BY <1>1, FailuresAreKeys, KeysInKey
<1>4. /\ seen' \subseteq Key /\ told' \subseteq Key /\ lost' \subseteq Key /\ credit' \in [Key -> Int]
      /\ \E out \in Seq(Event) : Takes("pods", out)
  <2>0. <<>> \in Seq(Event)
    OBVIOUS
  <2>1. CASE AllReady(pod) /\ ClearPod(p) /\ Takes("pods", <<>>) /\ Overtaken(p)
    <3>1. seen' \subseteq Key /\ told' \subseteq Key /\ lost' \subseteq Key
      BY <2>1 DEF TypeOK, ClearPod
    <3>2. credit' \in [Key -> Int]
      <4>1. PendingKey(p) \in Key
        BY <1>1, KeysInKey DEF PodKeys
      <4> HIDE DEF p
      <4>2. QED
        BY <2>1, <4>1 DEF TypeOK, Overtaken
    <3>3. QED
      BY <2>0, <2>1, <3>1, <3>2
  <2>2. CASE (\E k \in Failures(p, pod) \ seen :
                MarkSeen({k}) /\ Takes("pods", <<k>>) /\ Fires({k})) /\ UNCHANGED <<told, lost>>
    <3>1. PICK k \in Failures(p, pod) \ seen :
            MarkSeen({k}) /\ Takes("pods", <<k>>) /\ Fires({k})
      BY <2>2
    <3>2. <<k>> \in Seq(Event) /\ k \in Key
      BY <1>3, <3>1, KeyIsEvent
    <3>3. seen' \subseteq Key /\ told' \subseteq Key /\ lost' \subseteq Key /\ credit' \in [Key -> Int]
      BY <2>2, <3>1, <3>2 DEF TypeOK, MarkSeen, Fires
    <3>4. QED
      BY <3>1, <3>2, <3>3
  <2>3. CASE Takes("pods", <<>>) /\ UNCHANGED <<seen, told, lost, credit>>
    <3>1. seen' \subseteq Key /\ told' \subseteq Key /\ lost' \subseteq Key /\ credit' \in [Key -> Int]
      BY <2>3 DEF TypeOK
    <3>2. QED
      BY <2>0, <2>3, <3>1
  <2>4. QED
    BY <2>1, <2>2, <2>3 DEF ReconcilePod
<1>5. LoopsTyped'
  BY <1>2, <1>4, TakesTyped DEF Watcher
<1>6. QED
  BY <1>2, <1>4, <1>5 DEF TypeOK, LoopsTyped, cluster

LEMMA TypeReconcileNode ==
  ASSUME TypeOK, ReconcileNode PROVE TypeOK'
<1> DEFINE n == NextItem("nodes")[1]
           bad == {NodeKey(n, cond) : cond \in NextItem("nodes")[2]}
           good == NodeKeys(n) \ bad
<1>1. n \in Node /\ NextItem("nodes")[2] \subseteq Condition
  BY NextItemTyped, ItemForms DEF ReconcileNode, Watcher
<1>2. bad \subseteq Key
  BY <1>1, KeysInKey
<1>3. bad \ seen \subseteq Key /\ IsFiniteSet(bad \ seen)
  <2>1. IsFiniteSet(NextItem("nodes")[2])
    BY <1>1, AgentAssumption, FS_Subset
  <2>2. IsFiniteSet(bad)
    <3> DEFINE g == [cond \in NextItem("nodes")[2] |-> NodeKey(n, cond)]
    <3>1. g \in Surjection(NextItem("nodes")[2], bad)
      BY DEF Surjection
    <3>2. QED
      BY <2>1, <3>1, FS_Surjection
  <2>3. QED
    BY <1>2, <2>2, FS_Subset
<1> HIDE DEF bad
<1>4. SetToSeq(bad \ seen) \in Seq(Event)
  BY <1>3, SetToSeqLists, SeqWidens, KeyIsEvent
<1>5. /\ seen' = (seen \ good) \cup bad /\ told' = told \ good /\ lost' = lost \ good
      /\ HasItem("nodes") /\ Takes("nodes", SetToSeq(bad \ seen)) /\ Fires(bad \ seen)
      /\ UNCHANGED <<enabled, cluster, poll, entries, queue, merged, fires>>
  BY DEF ReconcileNode, bad
<1> HIDE DEF good
<1>6. LoopsTyped'
  BY <1>4, <1>5, TakesTyped DEF Watcher
<1>7. seen' \subseteq Key /\ told' \subseteq Key /\ lost' \subseteq Key /\ credit' \in [Key -> Int]
  BY <1>2, <1>5 DEF TypeOK, Fires
<1>8. QED
  BY <1>5, <1>6, <1>7 DEF TypeOK, LoopsTyped, cluster

LEMMA CountedTyped ==
  ASSUME NEW scan \in Scan
  PROVE  Counted(scan) \in 0 .. 2
  BY DEF Counted, Scan

LEMMA TypeReconcileScan ==
  ASSUME TypeOK, ReconcileScan PROVE TypeOK'
<1> DEFINE x == NextItem("scans")[1]
           listed == watch["scans"].list # <<>>
           total == Counted(IF listed THEN NextItem("scans")[2] ELSE scans[x])
<1>1. x \in Workload /\ NextItem("scans")[2] \in Scan
  BY NextItemTyped, ItemForms DEF ReconcileScan, Watcher
<1>2. total \in 0 .. 2
  <2>1. scans[x] \in Scan
    BY <1>1 DEF TypeOK
  <2>2. QED
    BY <1>1, <2>1, CountedTyped
<1>3. HasItem("scans") /\ UNCHANGED <<enabled, cluster, health, queue, merged, told, lost, credit>>
  BY DEF ReconcileScan
<1>4. <<>> \in Seq(Event) /\ <<ScanKey(x, total)>> \in Seq(Event)
  <2>1. ScanKey(x, total) \in {ScanKey(y, t) : y \in Workload, t \in 0 .. 2}
    <3> HIDE DEF x, total
    <3>1. QED
      BY <1>1, <1>2 DEF ScanKey
  <2> HIDE DEF x, total
  <2>2. ScanKey(x, total) \in Event
    BY <2>1 DEF Event
  <2>3. QED
    BY <2>2
<1>5. /\ entries' \in [Workload -> 0 .. 2] /\ fires' \in [Workload -> Nat]
      /\ \E out \in Seq(Event) : Takes("scans", out)
  <2>1. CASE /\ entries' = [entries EXCEPT ![x] = total]
             /\ Takes("scans", IF listed THEN <<>> ELSE <<ScanKey(x, total)>>)
             /\ fires' = [fires EXCEPT ![x] = IF listed THEN @ ELSE @ + 1]
    <3> HIDE DEF x, total, listed
    <3>1. entries' \in [Workload -> 0 .. 2] /\ fires' \in [Workload -> Nat]
      BY <1>1, <1>2, <2>1 DEF TypeOK
    <3>2. (IF listed THEN <<>> ELSE <<ScanKey(x, total)>>) \in Seq(Event)
      BY <1>4
    <3>3. QED
      BY <2>1, <3>1, <3>2
  <2>2. CASE Takes("scans", <<>>) /\ UNCHANGED <<entries, fires>>
    BY <1>4, <2>2 DEF TypeOK
  <2>3. QED
    BY <2>1, <2>2 DEF ReconcileScan
<1>6. LoopsTyped'
  BY <1>3, <1>5, TakesTyped DEF Watcher
<1>7. QED
  BY <1>3, <1>5, <1>6 DEF TypeOK, LoopsTyped, cluster, health

LEMMA PollTyped ==
  ASSUME TypeOK
  PROVE  poll.rest \subseteq Pod /\ poll.out \in Seq(Event)
  BY DEF TypeOK

LEMMA TypePollStep ==
  ASSUME TypeOK, PollStep PROVE TypeOK'
<1>1. CASE PollList
  <2>1. poll' \in [rest : SUBSET Pod, out : Seq(Event)]
    BY <1>1 DEF PollList, TypeOK
  <2>2. UNCHANGED <<enabled, cluster, watch, seen, entries, queue, merged, history>>
    BY <1>1 DEF PollList
  <2>3. QED
    BY <2>1, <2>2 DEF TypeOK, cluster, history
<1>2. CASE CheckPending
  <2>1. PICK p \in poll.rest :
          LET new == {PendingKey(p)} \ seen
          IN /\ MarkSeen(new)
             /\ poll' = [rest |-> poll.rest \ {p}, out |-> SetToSeq(new)]
             /\ Fires(new)
    BY <1>2 DEF CheckPending
  <2> DEFINE new == {PendingKey(p)} \ seen
  <2>2. new \subseteq Key
    BY PollTyped, KeysInKey DEF PodKeys
  <2>3. IsFiniteSet(new)
    BY FS_Singleton, FS_Subset
  <2>4. SetToSeq(new) \in Seq(Event)
    <3> HIDE DEF new
    <3>1. QED
      BY <2>2, <2>3, SetToSeqLists, SeqWidens, KeyIsEvent
  <2>5. MarkSeen(new) /\ poll' = [rest |-> poll.rest \ {p}, out |-> SetToSeq(new)] /\ Fires(new)
    BY <2>1
  <2> HIDE DEF new
  <2>6. poll' \in [rest : SUBSET Pod, out : Seq(Event)]
    BY <2>4, <2>5, PollTyped
  <2>7. seen' \subseteq Key /\ credit' \in [Key -> Int]
    BY <2>2, <2>5 DEF MarkSeen, Fires, TypeOK
  <2>8. UNCHANGED <<enabled, cluster, watch, entries, queue, merged, told, lost, fires>>
    BY <1>2 DEF CheckPending
  <2>9. QED
    BY <2>6, <2>7, <2>8 DEF TypeOK, cluster
<1>3. CASE SendPending
  <2>1. poll.out # <<>> /\ Len(queue["k8shealth"]) < Capacity
    BY <1>3 DEF SendPending
  <2>2. Head(poll.out) \in Event /\ Tail(poll.out) \in Seq(Event)
    BY <2>1, PollTyped, HeadTail
  <2>3. queue["k8shealth"] \in Seq(Event)
    BY DEF TypeOK, Source
  <2>4. /\ Append(queue["k8shealth"], Head(poll.out)) \in Seq(Event)
        /\ Len(Append(queue["k8shealth"], Head(poll.out))) <= Capacity
    BY <2>1, <2>2, <2>3, AgentAssumption
  <2>5. queue' = [queue EXCEPT !["k8shealth"] = Append(queue["k8shealth"], Head(poll.out))]
    BY <1>3 DEF SendPending, TypeOK
  <2>6. /\ queue' \in [Source -> Seq(Event)]
        /\ \A s \in Source : Len(queue'[s]) <= Capacity
    BY <2>4, <2>5 DEF TypeOK
  <2>7. poll' \in [rest : SUBSET Pod, out : Seq(Event)]
    BY <1>3, <2>2 DEF SendPending, TypeOK
  <2>8. UNCHANGED <<enabled, cluster, watch, seen, entries, merged, history>>
    BY <1>3 DEF SendPending
  <2>9. QED
    BY <2>6, <2>7, <2>8 DEF TypeOK, cluster, history
<1>4. QED
  BY <1>1, <1>2, <1>3 DEF PollStep

LEMMA TypeSendEvent ==
  ASSUME TypeOK, NEW w \in Watcher, SendEvent(w) PROVE TypeOK'
<1> DEFINE src == SourceOf(w)
           l == [watch[w] EXCEPT !.out = Tail(watch[w].out)]
<1>1. watch[w].out # <<>> /\ Len(queue[src]) < Capacity
  BY DEF SendEvent
<1>2. src \in Source
  BY DEF SourceOf, Source
<1>3. Head(watch[w].out) \in Event /\ Tail(watch[w].out) \in Seq(Event)
  BY <1>1, LoopTyped, HeadTail
<1>4. queue[src] \in Seq(Event)
  BY <1>2 DEF TypeOK
<1> HIDE DEF src
<1>5. /\ Append(queue[src], Head(watch[w].out)) \in Seq(Event)
      /\ Len(Append(queue[src], Head(watch[w].out))) <= Capacity
  BY <1>1, <1>3, <1>4, AgentAssumption
<1>6. queue' = [queue EXCEPT ![src] = Append(queue[src], Head(watch[w].out))]
  BY <1>2 DEF SendEvent, TypeOK, src
<1>7. /\ queue' \in [Source -> Seq(Event)]
      /\ \A s \in Source : Len(queue'[s]) <= Capacity
  BY <1>2, <1>5, <1>6 DEF TypeOK
<1>8. watch[w] \in Loop(w) /\ watch[w].up
  BY <1>1, LoopTyped DEF TypeOK, NoLoop
<1>9. l \in Loop(w) /\ l.up
  BY <1>3, <1>8, OutBuilt DEF Loop
<1>10. /\ DOMAIN watch' = Watcher /\ watch'[w] = l
       /\ \A x \in Watcher \ {w} : watch'[x] = watch[x]
  BY <1>8 DEF SendEvent, TypeOK
<1> HIDE DEF l
<1>11. LoopsTyped'
  BY <1>9, <1>10, LoopReplaced
<1>12. UNCHANGED <<enabled, cluster, health, entries, merged, history>>
  BY DEF SendEvent
<1>13. QED
  BY <1>7, <1>11, <1>12 DEF TypeOK, LoopsTyped, cluster, health, history

LEMMA TypeFanIn ==
  ASSUME TypeOK, NEW s \in Source, FanIn(s) PROVE TypeOK'
<1>1. queue[s] # <<>> /\ Len(merged) < Capacity /\ queue[s] \in Seq(Event)
  BY DEF FanIn, TypeOK
<1>2. /\ Head(queue[s]) \in Event /\ Tail(queue[s]) \in Seq(Event)
      /\ Len(Tail(queue[s])) = Len(queue[s]) - 1
  BY <1>1, HeadTail
<1>3. merged' \in Seq(Event) /\ Len(merged') <= Capacity
  BY <1>1, <1>2, AgentAssumption DEF FanIn, TypeOK
<1>4. Len(Tail(queue[s])) <= Capacity
  BY <1>1, <1>2, AgentAssumption DEF TypeOK
<1>5. /\ queue' \in [Source -> Seq(Event)]
      /\ \A r \in Source : Len(queue'[r]) <= Capacity
  BY <1>2, <1>4 DEF FanIn, TypeOK
<1>6. UNCHANGED <<enabled, cluster, watch, health, entries, history>>
  BY DEF FanIn
<1>7. QED
  BY <1>3, <1>5, <1>6 DEF TypeOK, cluster, health, history

LEMMA TypeForward ==
  ASSUME TypeOK, Forward PROVE TypeOK'
<1>1. merged' \in Seq(Event) /\ Len(merged') <= Capacity
  <2>1. merged # <<>> /\ merged \in Seq(Event) /\ Len(merged) <= Capacity
    BY DEF Forward, TypeOK
  <2>2. Tail(merged) \in Seq(Event) /\ Len(Tail(merged)) = Len(merged) - 1
    BY <2>1, HeadTail
  <2>3. QED
    BY <2>1, <2>2, AgentAssumption DEF Forward
<1>2. told' \subseteq Key /\ lost' \subseteq Key /\ clock' \in 0 .. MaxChanges
  BY AgentAssumption DEF Forward, TypeOK
<1>3. UNCHANGED <<enabled, pods, nodes, scans, watch, health, entries, queue, credit, fires>>
  BY DEF Forward
<1>4. QED
  BY <1>1, <1>2, <1>3 DEF TypeOK, health

LEMMA TypeAgentRestarts ==
  ASSUME TypeOK, AgentRestarts PROVE TypeOK'
<1>1. clock' \in 0 .. MaxChanges
  BY AgentAssumption DEF AgentRestarts, TypeOK
<1>2. LoopsTyped'
  BY NoLoopTyped DEF AgentRestarts, LoopsTyped
<1>3. /\ poll' \in [rest : SUBSET Pod, out : Seq(Event)]
      /\ queue' \in [Source -> Seq(Event)] /\ \A s \in Source : Len(queue'[s]) <= Capacity
      /\ merged' \in Seq(Event) /\ Len(merged') <= Capacity
  BY AgentAssumption DEF AgentRestarts
<1>4. /\ seen' = {} /\ told' = {} /\ lost' = {} /\ credit' \in [Key -> Int]
      /\ entries' \in [Workload -> 0 .. 2] /\ fires' \in [Workload -> Nat]
  BY DEF AgentRestarts, StartCredit
<1>5. UNCHANGED <<enabled, pods, nodes, scans>>
  BY DEF AgentRestarts
<1>6. QED
  BY <1>1, <1>2, <1>3, <1>4, <1>5 DEF TypeOK, LoopsTyped

LEMMA TypeNext ==
  ASSUME TypeOK, [Next]_vars PROVE TypeOK'
<1>1. CASE \E w \in Watcher : LoopStep(w) \/ WatchCloses(w)
  BY <1>1, TypeListObjects, TypeReconcilePod, TypeReconcileNode, TypeReconcileScan,
     TypeSendEvent, TypeWatchCloses DEF LoopStep, Reconcile
<1>2. CASE \E s \in Source : FanIn(s)
  BY <1>2, TypeFanIn
<1>3. CASE UNCHANGED vars
  BY <1>3 DEF TypeOK, vars, cluster, health, history
<1>4. QED
  BY <1>1, <1>2, <1>3, TypeClusterStep, TypePollStep, TypeForward, TypeAgentRestarts DEF Next

(* TypeOK, for every cluster: loops that are down hold nothing back, the   *)
(* channels keep their capacity, and only keys of the cluster are seen.    *)
THEOREM AgentTypeCorrect == Spec => []TypeOK
  BY TypeInit, TypeNext, PTL DEF Spec

----------------------------------------------------------------------------
(* The inductive invariant *)

(* What an item of a watch means for a key: a recovery, the failure, or     *)
(* nothing.                                                                *)
PodMark(p, k) ==
  [item \in Item("pods") |->
     IF item[1] # p THEN "none"
     ELSE IF AllReady(item[2]) THEN "clear"
     ELSE IF k \in Failures(p, item[2]) THEN "show" ELSE "none"]

NodeMark(n, cond) ==
  [item \in Item("nodes") |->
     IF item[1] # n THEN "none" ELSE IF cond \in item[2] THEN "show" ELSE "clear"]

(* The poller looks for the pending keys of pods. *)
NeverPolled == FALSE
Polled(p, k) == p \in poll.rest /\ k = PendingKey(p)

PodLedger(p, k) ==
  Ledger(PodMark(p, k), Backlog("pods"), AllReady(pods[p]), k \in seen, Polled(p, k), credit[k])

NodeLedger(n, cond) ==
  Ledger(NodeMark(n, cond), Backlog("nodes"), cond \notin nodes[n],
         NodeKey(n, cond) \in seen, NeverPolled, credit[NodeKey(n, cond)])

PodLedgers == \A p \in Pod : \A k \in PodKeys(p) : PodLedger(p, k)

NodeLedgers == \A n \in Node : \A cond \in Condition : NodeLedger(n, cond)

(* What is held back of a stuck pod says nothing of a recovery. *)
StuckUnready ==
  \A p \in Pod : pods[p].phase = "stuck" =>
    \A i \in 1 .. Len(Backlog("pods")) :
      PodMark(p, PendingKey(p))[Backlog("pods")[i]] # "clear"

FindingsCounted == \A x \in Workload : fires[x] <= entries[x]

LedgerInv == PodLedgers /\ NodeLedgers /\ StuckUnready /\ FindingsCounted

(* The keys of different objects differ. *)
LEMMA KeyObjects ==
  /\ \A p \in Pod : \A k \in PodKeys(p) : k[1] = p
  /\ \A n \in Node, cond \in Condition : NodeKey(n, cond)[1] = n
  /\ \A n \in Node : \A k \in NodeKeys(n) : k[1] = n
  BY DEF PodKeys, PendingKey, NodeKey, NodeKeys

LEMMA NodeKeysDiffer ==
  ASSUME NEW n, NEW m, NEW cond, NEW d, NodeKey(n, cond) = NodeKey(m, d)
  PROVE  n = m /\ cond = d
  BY DEF NodeKey

LEMMA KeysApart ==
  /\ \A p, r \in Pod : \A k \in PodKeys(p) : k \in PodKeys(r) => p = r
  /\ \A p \in Pod, n \in Node : \A k \in PodKeys(p) : k \notin NodeKeys(n)
  /\ \A p \in Pod, n \in Node, cond \in Condition : NodeKey(n, cond) \notin PodKeys(p)
  BY KeyObjects, AgentAssumption

LEMMA MarksTyped ==
  /\ \A p, k : PodMark(p, k) \in [Item("pods") -> Mark]
  /\ \A n, cond : NodeMark(n, cond) \in [Item("nodes") -> Mark]
  BY DEF PodMark, NodeMark, Mark

(* A ready pod has no failure. *)
LEMMA PodMarkIs ==
  ASSUME NEW p \in Pod, NEW k, NEW r \in Pod, NEW pod \in PodStatus
  PROVE  LET m == PodMark(p, k)[<<r, pod>>]
         IN /\ m = "clear" <=> r = p /\ AllReady(pod)
            /\ m = "show" => r = p /\ ~AllReady(pod) /\ k \in Failures(p, pod)
            /\ r = p /\ ~AllReady(pod) /\ k \in Failures(p, pod) => m = "show"
<1>1. <<r, pod>> \in Item("pods")
  BY ItemForms
<1>2. QED
  BY <1>1 DEF PodMark

LEMMA NodeMarkIs ==
  ASSUME NEW n \in Node, NEW cond, NEW m \in Node, NEW bad \in SUBSET Condition
  PROVE  LET mk == NodeMark(n, cond)[<<m, bad>>]
         IN /\ mk = "clear" <=> m = n /\ cond \notin bad
            /\ mk = "show" <=> m = n /\ cond \in bad
<1>1. <<m, bad>> \in Item("nodes")
  BY ItemForms
<1>2. QED
  BY <1>1 DEF NodeMark

----------------------------------------------------------------------------
(* What the steps do to a backlog *)

LEMMA BacklogTyped ==
  ASSUME TypeOK, NEW w \in Watcher
  PROVE  Backlog(w) \in Seq(Item(w))
  BY LoopTyped DEF Backlog

LEMMA ConcatTakes ==
  ASSUME NEW S, NEW a \in Seq(S), NEW b \in Seq(S), a # <<>>
  PROVE  /\ a \o b # <<>> /\ Head(a \o b) = Head(a)
         /\ Tail(a \o b) = Tail(a) \o b
  OBVIOUS

LEMMA ConcatEmpty ==
  ASSUME NEW S, NEW b \in Seq(S)
  PROVE  <<>> \o b = b /\ b \o <<>> = b
  OBVIOUS

LEMMA NothingHeldBack == <<>> \o <<>> = <<>>
<1>1. <<>> \in Seq({})
  OBVIOUS
<1>2. QED
  BY <1>1, ConcatEmpty

LEMMA StreamGrows ==
  ASSUME NEW w, NEW l \in Loop(w), NEW item \in Item(w), NEW m,
         m = [l EXCEPT !.stream = Append(l.stream, item)]
  PROVE  m.list \o m.stream = Append(l.list \o l.stream, item)
<1>1. l.list \in Seq(Item(w)) /\ l.stream \in Seq(Item(w))
  BY DEF Loop
<1>2. m.list = l.list /\ m.stream = Append(l.stream, item)
  BY DEF Loop
<1>3. \A a, b \in Seq(Item(w)) : a \o Append(b, item) = Append(a \o b, item)
  OBVIOUS
<1>4. l.list \o Append(l.stream, item) = Append(l.list \o l.stream, item)
  BY <1>1, <1>3, Zenon
<1>5. QED
  BY <1>2, <1>4, Zenon

LEMMA BacklogTakes ==
  ASSUME TypeOK, NEW w \in Watcher, HasItem(w), NEW out, Takes(w, out)
  PROVE  /\ Backlog(w) # <<>> /\ NextItem(w) = Head(Backlog(w))
         /\ Backlog(w)' = Tail(Backlog(w))
         /\ \A x \in Watcher \ {w} : Backlog(x)' = Backlog(x)
<1>1. /\ watch[w] \in Loop(w)
      /\ watch[w].list \in Seq(Item(w)) /\ watch[w].stream \in Seq(Item(w))
  BY LoopTyped DEF TypeOK
<1>2. \A x \in Watcher \ {w} : Backlog(x)' = Backlog(x)
  BY TakesLoop DEF Backlog
<1>3. CASE watch[w].list # <<>>
  <2>1. watch'[w].list = Tail(watch[w].list) /\ watch'[w].stream = watch[w].stream
    BY <1>1, <1>3, TakesLoop DEF Loop
  <2>2. Backlog(w)' = Tail(watch[w].list) \o watch[w].stream
    BY <2>1 DEF Backlog
  <2>3. /\ Backlog(w) # <<>> /\ Head(Backlog(w)) = Head(watch[w].list)
        /\ Tail(Backlog(w)) = Tail(watch[w].list) \o watch[w].stream
    BY <1>1, <1>3, ConcatTakes DEF Backlog
  <2>4. QED
    BY <1>2, <1>3, <2>2, <2>3 DEF NextItem
<1>4. CASE watch[w].list = <<>>
  <2>1. /\ watch'[w].list = <<>> /\ watch'[w].stream = Tail(watch[w].stream)
        /\ watch[w].stream # <<>>
    BY <1>1, <1>4, TakesLoop DEF Loop, HasItem
  <2>2. Tail(watch[w].stream) \in Seq(Item(w))
    BY <1>1, <2>1, HeadTail
  <2>3. Backlog(w) = watch[w].stream /\ Backlog(w)' = Tail(watch[w].stream)
    BY <1>1, <1>4, <2>1, <2>2, ConcatEmpty DEF Backlog
  <2>4. QED
    BY <1>2, <1>4, <2>1, <2>3 DEF NextItem
<1>5. QED
  BY <1>3, <1>4

LEMMA BacklogChanges ==
  ASSUME TypeOK, NEW w \in Watcher, NEW x, NEW status,
         <<x, status>> \in Item(w), Changes(w, x, status)
  PROVE  /\ \A y \in Watcher \ {w} : Backlog(y)' = Backlog(y)
         /\ \/ Backlog(w)' = Append(Backlog(w), <<x, status>>)
            \/ Backlog(w) = <<>> /\ Backlog(w)' = <<>>
<1>1. /\ watch[w] \in Loop(w)
      /\ watch[w].list \in Seq(Item(w)) /\ watch[w].stream \in Seq(Item(w))
  BY LoopTyped DEF TypeOK
<1>2. \A y \in Watcher \ {w} : Backlog(y)' = Backlog(y)
  BY ChangesLoop DEF Backlog
<1>3. CASE watch[w].up
  <2>1. watch'[w] = [watch[w] EXCEPT
                       !.stream = IF watch[w].up THEN Append(watch[w].stream, <<x, status>>)
                                  ELSE watch[w].stream]
    BY ChangesLoop
  <2>2. watch'[w] = [watch[w] EXCEPT !.stream = Append(watch[w].stream, <<x, status>>)]
    BY <1>3, <2>1, Zenon
  <2>3. watch'[w].list \o watch'[w].stream
          = Append(watch[w].list \o watch[w].stream, <<x, status>>)
    BY <1>1, <2>2, StreamGrows
  <2>4. QED
    BY <1>2, <2>3 DEF Backlog
<1>4. CASE ~watch[w].up
  <2>1. watch[w].list = <<>> /\ watch[w].stream = <<>>
    BY <1>4, LoopTyped DEF NoLoop
  <2>2. watch'[w].list = <<>> /\ watch'[w].stream = <<>>
    BY <1>1, <1>4, <2>1, ChangesLoop DEF Loop
  <2>3. QED
    BY <1>2, <2>1, <2>2, NothingHeldBack DEF Backlog
<1>5. QED
  BY <1>3, <1>4

LEMMA BacklogListed ==
  ASSUME TypeOK, NEW w \in Watcher, ListObjects(w)
  PROVE  /\ \A y \in Watcher \ {w} : Backlog(y)' = Backlog(y)
         /\ Backlog(w)' \in Seq(Listed(w))
<1> DEFINE ls == SetToSeq(Listed(w))
           l == [NoLoop EXCEPT !.up = TRUE, !.list = ls]
<1>1. ls \in Seq(Listed(w)) /\ ls \in Seq(Item(w))
  BY ListedItems, SeqWidens
<1>2. watch' = [watch EXCEPT ![w] = l]
  BY DEF ListObjects
<1> HIDE DEF ls
<1>3. l.list = ls /\ l.stream = <<>>
  BY <1>1, FreshLoop
<1> HIDE DEF l
<1>4. watch'[w] = l /\ \A y \in Watcher \ {w} : watch'[y] = watch[y]
  BY <1>2 DEF TypeOK
<1>5. Backlog(w)' = ls
  BY <1>1, <1>3, <1>4, ConcatEmpty DEF Backlog
<1>6. QED
  BY <1>1, <1>4, <1>5 DEF Backlog

LEMMA BacklogCloses ==
  ASSUME TypeOK, NEW w \in Watcher, WatchCloses(w)
  PROVE  /\ \A y \in Watcher \ {w} : Backlog(y)' = Backlog(y)
         /\ Backlog(w)' = <<>>
<1>1. watch'[w] = NoLoop /\ \A y \in Watcher \ {w} : watch'[y] = watch[y]
  BY DEF WatchCloses, TypeOK
<1>2. watch'[w].list = <<>> /\ watch'[w].stream = <<>>
  BY <1>1 DEF NoLoop
<1>3. QED
  BY <1>1, <1>2, NothingHeldBack DEF Backlog

LEMMA BacklogSends ==
  ASSUME TypeOK, NEW w \in Watcher, SendEvent(w)
  PROVE  \A y \in Watcher : Backlog(y)' = Backlog(y)
<1>1. watch[w] \in Loop(w) /\ DOMAIN watch = Watcher
  BY DEF TypeOK
<1>2. /\ watch'[w].list = watch[w].list /\ watch'[w].stream = watch[w].stream
      /\ \A y \in Watcher \ {w} : watch'[y] = watch[y]
  BY <1>1 DEF SendEvent, Loop
<1>3. QED
  BY <1>2 DEF Backlog

----------------------------------------------------------------------------
(* Every step keeps the ledgers *)

(* A ledger is in order after the step when it is so for the new values. *)
LEMMA PodLedgerNext ==
  ASSUME NEW p \in Pod, NEW k \in PodKeys(p),
         Ledger(PodMark(p, k), Backlog("pods")', AllReady(pods'[p]), k \in seen',
                Polled(p, k)', credit'[k])
  PROVE  PodLedger(p, k)'
<1>1. PodMark(p, k)' = PodMark(p, k) /\ AllReady(pods[p])' = AllReady(pods'[p])
  BY DEF PodMark, AllReady, Item, PodStatus, ContainerState, FailureState, Failures, Scan
<1>2. QED
  BY <1>1 DEF PodLedger

LEMMA NodeLedgerNext ==
  ASSUME NEW n \in Node, NEW cond \in Condition,
         Ledger(NodeMark(n, cond), Backlog("nodes")', cond \notin nodes'[n],
                NodeKey(n, cond) \in seen', NeverPolled, credit'[NodeKey(n, cond)])
  PROVE  NodeLedger(n, cond)'
  BY DEF NodeLedger

(* Steps that do not touch what the ledgers of the pods are about. *)
LEMMA PodsFrame ==
  ASSUME PodLedgers, StuckUnready, Backlog("pods")' = Backlog("pods"), UNCHANGED pods,
         poll'.rest = poll.rest,
         \A p \in Pod : \A k \in PodKeys(p) : (k \in seen' <=> k \in seen) /\ credit'[k] = credit[k]
  PROVE  PodLedgers' /\ StuckUnready'
<1>1. PodLedgers'
  <2> SUFFICES ASSUME NEW p \in Pod, NEW k \in PodKeys(p)
               PROVE  PodLedger(p, k)'
    BY DEF PodLedgers, PodKeys, PendingKey, FailureState
  <2>1. PodLedger(p, k)
    BY DEF PodLedgers
  <2>2. Polled(p, k)' = Polled(p, k) /\ (k \in seen') = (k \in seen)
    BY DEF Polled
  <2>3. QED
    BY <2>1, <2>2, PodLedgerNext DEF PodLedger
<1>2. StuckUnready'
  BY DEF StuckUnready
<1>3. QED
  BY <1>1, <1>2

LEMMA NodesFrame ==
  ASSUME NodeLedgers, Backlog("nodes")' = Backlog("nodes"), UNCHANGED nodes,
         \A n \in Node : \A k \in NodeKeys(n) : (k \in seen' <=> k \in seen) /\ credit'[k] = credit[k]
  PROVE  NodeLedgers'
<1> SUFFICES ASSUME NEW n \in Node, NEW cond \in Condition
             PROVE  NodeLedger(n, cond)'
  BY DEF NodeLedgers
<1>1. NodeLedger(n, cond) /\ NodeKey(n, cond) \in NodeKeys(n)
  BY DEF NodeLedgers, NodeKeys
<1>2. (NodeKey(n, cond) \in seen') = (NodeKey(n, cond) \in seen)
  BY <1>1
<1>3. QED
  BY <1>1, <1>2, NodeLedgerNext DEF NodeLedger

LEMMA LedgerScalars ==
  ASSUME NEW mk, NEW q, NEW now, NEW s, NEW p, NEW c, Ledger(mk, q, now, s, p, c)
  PROVE  c >= 0 /\ (~s => c >= 1) /\ (now /\ s => c >= 1) /\ (now /\ p /\ ~s => c >= 2)
  BY DEF Ledger, Covers

LEMMA AppendItems ==
  ASSUME NEW S, NEW q \in Seq(S), NEW x \in S
  PROVE  \A i \in 1 .. Len(Append(q, x)) :
           \/ i \in 1 .. Len(q) /\ Append(q, x)[i] = q[i]
           \/ Append(q, x)[i] = x
  OBVIOUS

LEMMA TailItems ==
  ASSUME NEW S, NEW q \in Seq(S), q # <<>>
  PROVE  \A i \in 1 .. Len(Tail(q)) : i + 1 \in 1 .. Len(q) /\ Tail(q)[i] = q[i + 1]
  OBVIOUS

LEMMA PodCredit ==
  ASSUME TypeOK, NEW p \in Pod, NEW k \in PodKeys(p)
  PROVE  k \in Key /\ credit[k] \in Int
  BY KeysInKey DEF TypeOK

(* Cited for what a Boolean is. *)
LEMMA PodBooleans ==
  ASSUME NEW p, NEW k, NEW pod
  PROVE  Polled(p, k) \in BOOLEAN /\ AllReady(pod) \in BOOLEAN
  BY DEF Polled, AllReady

LEMMA NodesUnpolled == NeverPolled \in BOOLEAN /\ ~NeverPolled
  BY DEF NeverPolled

LEMMA LedgerInit == Init => LedgerInv
<1> SUFFICES ASSUME Init PROVE LedgerInv
  OBVIOUS
<1>1. \A w \in Watcher : Backlog(w) = <<>>
  <2>1. \A w \in Watcher : watch[w].list = <<>> /\ watch[w].stream = <<>>
    BY DEF Init, NoLoop
  <2>2. QED
    BY <2>1, NothingHeldBack DEF Backlog
<1>2. /\ seen = {} /\ poll.rest = {} /\ \A k \in Key : credit[k] = 1
      /\ \A x \in Workload : fires[x] = 0 /\ entries[x] = 0
  BY DEF Init, StartCredit
<1>3. PodLedgers
  <2> SUFFICES ASSUME NEW p \in Pod, NEW k \in PodKeys(p)
               PROVE  PodLedger(p, k)
    BY DEF PodLedgers
  <2>1. Backlog("pods") = <<>> /\ credit[k] = 1 /\ k \notin seen /\ ~Polled(p, k)
    BY <1>1, <1>2, KeysInKey DEF Watcher, Polled
  <2>2. Ledger(PodMark(p, k), <<>>, AllReady(pods[p]), k \in seen, Polled(p, k), 1)
    BY <2>1, LedgerEmpty
  <2>3. QED
    BY <2>1, <2>2 DEF PodLedger
<1>4. NodeLedgers
  <2> SUFFICES ASSUME NEW n \in Node, NEW cond \in Condition
               PROVE  NodeLedger(n, cond)
    BY DEF NodeLedgers
  <2>1. Backlog("nodes") = <<>> /\ credit[NodeKey(n, cond)] = 1 /\ NodeKey(n, cond) \notin seen
    BY <1>1, <1>2, KeysInKey DEF Watcher
  <2>2. Ledger(NodeMark(n, cond), <<>>, cond \notin nodes[n], NodeKey(n, cond) \in seen, NeverPolled, 1)
    BY <2>1, LedgerEmpty, NodesUnpolled
  <2>3. QED
    BY <2>1, <2>2 DEF NodeLedger
<1>5. StuckUnready
  BY <1>1 DEF StuckUnready, Watcher
<1>6. FindingsCounted
  BY <1>2 DEF FindingsCounted
<1>7. QED
  BY <1>3, <1>4, <1>5, <1>6 DEF LedgerInv

LEMMA LedgerPodBecomes ==
  ASSUME TypeOK, LedgerInv, NEW p \in Pod, NEW pod \in PodStatus, PodBecomes(p, pod),
         pod.phase = "stuck" => pods[p].phase = "stuck"
  PROVE  LedgerInv'
<1>1. /\ pods' = [pods EXCEPT ![p] = pod] /\ Changes("pods", p, pod)
      /\ credit' = [k \in Key |-> IF k \in PodKeys(p) /\ AllReady(pod) THEN credit[k] + 1
                                  ELSE credit[k]]
      /\ UNCHANGED <<nodes, poll, seen, entries, fires>>
  BY DEF PodBecomes, Changes, health
<1>2. <<p, pod>> \in Item("pods")
  BY ItemForms
<1>3. /\ Backlog("nodes")' = Backlog("nodes")
      /\ \/ Backlog("pods")' = Append(Backlog("pods"), <<p, pod>>)
         \/ Backlog("pods") = <<>> /\ Backlog("pods")' = <<>>
  BY <1>1, <1>2, BacklogChanges DEF Watcher
<1>4. Backlog("pods") \in Seq(Item("pods"))
  BY BacklogTyped DEF Watcher
<1>5. \A r \in Pod : pods'[r] = IF r = p THEN pod ELSE pods[r]
  BY <1>1 DEF TypeOK
<1>6. PodLedgers'
  <2> SUFFICES ASSUME NEW r \in Pod, NEW k \in PodKeys(r)
               PROVE  PodLedger(r, k)'
    BY DEF PodLedgers, PodKeys, PendingKey, FailureState
  <2> DEFINE mk == PodMark(r, k)
             q == Backlog("pods")
             now == AllReady(pods[r])
             s == k \in seen
             c == credit[k]
  <2>1. Ledger(mk, q, now, s, Polled(r, k), c)
    BY DEF LedgerInv, PodLedgers, PodLedger
  <2>2. Polled(r, k)' = Polled(r, k) /\ (k \in seen') = s
    BY <1>1 DEF Polled
  <2>3. mk \in [Item("pods") -> Mark] /\ c \in Int
    BY MarksTyped, PodCredit
  <2>4. Polled(r, k) \in BOOLEAN /\ now \in BOOLEAN /\ s \in BOOLEAN
    BY PodBooleans
  <2>5. k \in Key /\ (k \in PodKeys(p) <=> r = p)
    BY KeysInKey, KeysApart
  <2>6. CASE r = p /\ AllReady(pod)
    <3>1. credit'[k] = c + 1 /\ AllReady(pods'[r]) = TRUE
      BY <1>1, <1>5, <2>5, <2>6 DEF AllReady
    <3>2. mk[<<p, pod>>] = "clear"
      BY <2>6, PodMarkIs
    <3> HIDE DEF mk, q, now, s, c
    <3>3. Ledger(mk, Append(q, <<p, pod>>), TRUE, s, Polled(r, k), c + 1)
      BY <1>2, <1>4, <2>1, <2>3, <2>4, <3>2, LedgerRecovers DEF q
    <3>4. Ledger(mk, <<>>, TRUE, s, Polled(r, k), c + 1)
      <4>1. c + 1 \in Int /\ c + 1 >= 1 /\ (~s => c + 1 >= 2)
        BY <2>1, <2>3, LedgerScalars
      <4>2. QED
        BY <4>1, LedgerUnwatched
    <3>5. Ledger(mk, Backlog("pods")', AllReady(pods'[r]), k \in seen', Polled(r, k)', credit'[k])
      BY <1>3, <2>2, <3>1, <3>3, <3>4 DEF q
    <3>6. QED
      BY <3>5, PodLedgerNext DEF mk
  <2>7. CASE r = p /\ ~AllReady(pod)
    <3>1. credit'[k] = c /\ AllReady(pods'[r]) = FALSE
      BY <1>1, <1>5, <2>5, <2>7 DEF AllReady
    <3>2. mk[<<p, pod>>] # "clear"
      BY <2>7, PodMarkIs
    <3> HIDE DEF mk, q, now, s, c
    <3>3. Ledger(mk, Append(q, <<p, pod>>), FALSE, s, Polled(r, k), c)
      BY <1>2, <1>4, <2>1, <2>3, <2>4, <3>2, LedgerFails DEF q
    <3>4. Ledger(mk, q, FALSE, s, Polled(r, k), c)
      BY <2>1, <2>4, LedgerSilent
    <3>5. Ledger(mk, Backlog("pods")', AllReady(pods'[r]), k \in seen', Polled(r, k)', credit'[k])
      BY <1>3, <2>2, <3>1, <3>3, <3>4 DEF q
    <3>6. QED
      BY <3>5, PodLedgerNext DEF mk
  <2>8. CASE r # p
    <3>1. credit'[k] = c /\ AllReady(pods'[r]) = now
      BY <1>1, <1>5, <2>5, <2>8
    <3>2. mk[<<p, pod>>] # "clear" /\ mk[<<p, pod>>] # "show"
      BY <2>8, PodMarkIs
    <3> HIDE DEF mk, q, now, s, c
    <3>3. Ledger(mk, Append(q, <<p, pod>>), now, s, Polled(r, k), c)
      BY <1>2, <1>4, <2>1, <2>3, <2>4, <3>2, LedgerChanges DEF q
    <3>4. Ledger(mk, Backlog("pods")', AllReady(pods'[r]), k \in seen', Polled(r, k)', credit'[k])
      BY <1>3, <2>1, <2>2, <3>1, <3>3 DEF q
    <3>5. QED
      BY <3>4, PodLedgerNext DEF mk
  <2>9. QED
    BY <2>6, <2>7, <2>8
<1>7. StuckUnready'
  <2> SUFFICES ASSUME NEW r \in Pod, pods'[r].phase = "stuck", NEW i \in 1 .. Len(Backlog("pods")')
               PROVE  PodMark(r, PendingKey(r))[Backlog("pods")'[i]] # "clear"
    BY DEF StuckUnready
  <2>1. pods[r].phase = "stuck"
    BY <1>5
  <2>2. PodMark(r, PendingKey(r))[<<p, pod>>] # "clear"
    <3>1. ~(r = p /\ AllReady(pod))
      BY <1>5 DEF AllReady
    <3>2. QED
      BY <3>1, PodMarkIs
  <2>3. \A j \in 1 .. Len(Backlog("pods")) : PodMark(r, PendingKey(r))[Backlog("pods")[j]] # "clear"
    BY <2>1 DEF LedgerInv, StuckUnready
  <2>4. CASE Backlog("pods")' = Append(Backlog("pods"), <<p, pod>>)
    <3>1. \/ i \in 1 .. Len(Backlog("pods")) /\ Backlog("pods")'[i] = Backlog("pods")[i]
          \/ Backlog("pods")'[i] = <<p, pod>>
      BY <1>2, <1>4, <2>4, AppendItems
    <3>2. QED
      BY <2>2, <2>3, <3>1
  <2>5. CASE Backlog("pods")' = <<>>
    BY <2>5
  <2>6. QED
    BY <1>3, <2>4, <2>5
<1>8. NodeLedgers'
  <2>1. \A n \in Node : \A k \in NodeKeys(n) : (k \in seen' <=> k \in seen) /\ credit'[k] = credit[k]
    BY <1>1, KeysInKey, KeysApart
  <2>2. QED
    BY <1>1, <1>3, <2>1, NodesFrame DEF LedgerInv
<1>9. QED
  BY <1>1, <1>6, <1>7, <1>8 DEF LedgerInv, FindingsCounted

LEMMA LedgerPodSilently ==
  ASSUME TypeOK, LedgerInv, NEW p \in Pod, NEW pod, PodSilently(p, pod),
         ~AllReady(pod), pod.phase = "stuck" => Backlog("pods") = <<>>
  PROVE  LedgerInv'
<1>1. /\ pods' = [pods EXCEPT ![p] = pod]
      /\ UNCHANGED <<nodes, watch, poll, seen, entries, fires, credit>>
  BY DEF PodSilently, health, history
<1>2. Backlog("pods")' = Backlog("pods") /\ Backlog("nodes")' = Backlog("nodes")
  BY <1>1 DEF Backlog
<1>3. \A r \in Pod : pods'[r] = IF r = p THEN pod ELSE pods[r]
  BY <1>1 DEF TypeOK
<1>4. PodLedgers'
  <2> SUFFICES ASSUME NEW r \in Pod, NEW k \in PodKeys(r)
               PROVE  PodLedger(r, k)'
    BY DEF PodLedgers, PodKeys, PendingKey, FailureState
  <2>1. Ledger(PodMark(r, k), Backlog("pods"), AllReady(pods[r]), k \in seen, Polled(r, k), credit[k])
    BY DEF LedgerInv, PodLedgers, PodLedger
  <2>2. AllReady(pods'[r]) => AllReady(pods[r])
    BY <1>3
  <2>3. Ledger(PodMark(r, k), Backlog("pods"), AllReady(pods'[r]), k \in seen, Polled(r, k), credit[k])
    BY <2>1, <2>2, PodBooleans, LedgerSilent
  <2>4. Polled(r, k)' = Polled(r, k) /\ (k \in seen') = (k \in seen) /\ credit'[k] = credit[k]
    BY <1>1 DEF Polled
  <2>5. QED
    BY <1>2, <2>3, <2>4, PodLedgerNext
<1>5. StuckUnready'
  <2> SUFFICES ASSUME NEW r \in Pod, pods'[r].phase = "stuck", NEW i \in 1 .. Len(Backlog("pods"))
               PROVE  PodMark(r, PendingKey(r))[Backlog("pods")[i]] # "clear"
    BY <1>2 DEF StuckUnready
  <2>1. CASE r = p
    BY <1>3, <2>1
  <2>2. CASE r # p
    BY <1>3, <2>2 DEF LedgerInv, StuckUnready
  <2>3. QED
    BY <2>1, <2>2
<1>6. NodeLedgers'
  BY <1>1, <1>2, NodesFrame DEF LedgerInv
<1>7. QED
  BY <1>1, <1>4, <1>5, <1>6 DEF LedgerInv, FindingsCounted

LEMMA NodeCredit ==
  ASSUME TypeOK, NEW n \in Node, NEW cond \in Condition
  PROVE  credit[NodeKey(n, cond)] \in Int
  BY KeysInKey DEF TypeOK

LEMMA LedgerNodeChanges ==
  ASSUME TypeOK, LedgerInv, NEW n \in Node, NEW cond \in Condition, NodeChanges(n, cond)
  PROVE  LedgerInv'
<1> DEFINE bad == IF cond \in nodes[n] THEN nodes[n] \ {cond} ELSE nodes[n] \cup {cond}
<1>1. /\ nodes' = [nodes EXCEPT ![n] = bad] /\ Changes("nodes", n, bad)
      /\ credit' = [credit EXCEPT ![NodeKey(n, cond)] = IF cond \in bad THEN @ ELSE @ + 1]
      /\ UNCHANGED <<pods, poll, seen, entries, fires>>
  BY DEF NodeChanges, Changes, health
<1>2. bad \in SUBSET Condition /\ nodes[n] \in SUBSET Condition
  BY DEF TypeOK
<1>3. /\ (cond \in bad) <=> (cond \notin nodes[n])
      /\ \A d \in Condition : d # cond => (d \in bad <=> d \in nodes[n])
  OBVIOUS
<1> HIDE DEF bad
<1>4. <<n, bad>> \in Item("nodes")
  BY <1>2, ItemForms
<1>5. /\ Backlog("pods")' = Backlog("pods")
      /\ \/ Backlog("nodes")' = Append(Backlog("nodes"), <<n, bad>>)
         \/ Backlog("nodes") = <<>> /\ Backlog("nodes")' = <<>>
  BY <1>1, <1>4, BacklogChanges DEF Watcher
<1>6. Backlog("nodes") \in Seq(Item("nodes"))
  BY BacklogTyped DEF Watcher
<1>7. \A m \in Node : nodes'[m] = IF m = n THEN bad ELSE nodes[m]
  BY <1>1 DEF TypeOK
<1>8. NodeLedgers'
  <2> SUFFICES ASSUME NEW m \in Node, NEW d \in Condition
               PROVE  NodeLedger(m, d)'
    BY DEF NodeLedgers
  <2> DEFINE mk == NodeMark(m, d)
             q == Backlog("nodes")
             now == d \notin nodes[m]
             s == NodeKey(m, d) \in seen
             c == credit[NodeKey(m, d)]
  <2>1. Ledger(mk, q, now, s, NeverPolled, c)
    BY DEF LedgerInv, NodeLedgers, NodeLedger
  <2>2. (NodeKey(m, d) \in seen') = s
    BY <1>1
  <2>3. mk \in [Item("nodes") -> Mark] /\ c \in Int
    BY MarksTyped, NodeCredit
  <2>4. NeverPolled \in BOOLEAN /\ now \in BOOLEAN /\ s \in BOOLEAN
    BY NodesUnpolled
  <2>5. CASE m = n /\ d = cond /\ cond \in nodes[n]
    <3>1. credit'[NodeKey(m, d)] = c + 1 /\ (d \notin nodes'[m]) = TRUE
      BY <1>1, <1>3, <1>7, <2>5, KeysInKey DEF TypeOK
    <3>2. mk[<<n, bad>>] = "clear"
      BY <1>2, <1>3, <2>5, NodeMarkIs
    <3> HIDE DEF mk, q, now, s, c
    <3>3. Ledger(mk, Append(q, <<n, bad>>), TRUE, s, NeverPolled, c + 1)
      BY <1>4, <1>6, <2>1, <2>3, <2>4, <3>2, LedgerRecovers DEF q
    <3>4. Ledger(mk, <<>>, TRUE, s, NeverPolled, c + 1)
      <4>1. c + 1 \in Int /\ c + 1 >= 1 /\ (~s => c + 1 >= 2)
        BY <2>1, <2>3, LedgerScalars
      <4>2. QED
        BY <4>1, LedgerUnwatched
    <3>5. Ledger(mk, Backlog("nodes")', d \notin nodes'[m], NodeKey(m, d) \in seen', NeverPolled,
                 credit'[NodeKey(m, d)])
      BY <1>5, <2>2, <3>1, <3>3, <3>4 DEF q
    <3>6. QED
      BY <3>5, NodeLedgerNext DEF mk
  <2>6. CASE m = n /\ d = cond /\ cond \notin nodes[n]
    <3>1. credit'[NodeKey(m, d)] = c /\ (d \notin nodes'[m]) = FALSE
      BY <1>1, <1>3, <1>7, <2>6, KeysInKey DEF TypeOK
    <3>2. mk[<<n, bad>>] # "clear"
      BY <1>2, <1>3, <2>6, NodeMarkIs
    <3> HIDE DEF mk, q, now, s, c
    <3>3. Ledger(mk, Append(q, <<n, bad>>), FALSE, s, NeverPolled, c)
      BY <1>4, <1>6, <2>1, <2>3, <2>4, <3>2, LedgerFails DEF q
    <3>4. Ledger(mk, q, FALSE, s, NeverPolled, c)
      BY <2>1, <2>4, LedgerSilent
    <3>5. Ledger(mk, Backlog("nodes")', d \notin nodes'[m], NodeKey(m, d) \in seen', NeverPolled,
                 credit'[NodeKey(m, d)])
      BY <1>5, <2>2, <3>1, <3>3, <3>4 DEF q
    <3>6. QED
      BY <3>5, NodeLedgerNext DEF mk
  <2>7. CASE ~(m = n /\ d = cond)
    <3>1. NodeKey(m, d) # NodeKey(n, cond)
      BY <2>7, NodeKeysDiffer
    <3>2. credit'[NodeKey(m, d)] = c /\ (d \notin nodes'[m]) = now
      BY <1>1, <1>3, <1>7, <2>7, <3>1, KeysInKey DEF TypeOK
    <3>3. (mk[<<n, bad>>] = "clear" => now) /\ (mk[<<n, bad>>] = "show" => ~now)
      BY <1>2, <1>3, <2>7, NodeMarkIs
    <3> HIDE DEF mk, q, now, s, c
    <3>4. Ledger(mk, Append(q, <<n, bad>>), now, s, NeverPolled, c)
      BY <1>4, <1>6, <2>1, <2>3, <2>4, <3>3, LedgerChanges DEF q
    <3>5. Ledger(mk, Backlog("nodes")', d \notin nodes'[m], NodeKey(m, d) \in seen', NeverPolled,
                 credit'[NodeKey(m, d)])
      BY <1>5, <2>1, <2>2, <3>2, <3>4 DEF q
    <3>6. QED
      BY <3>5, NodeLedgerNext DEF mk
  <2>8. QED
    BY <2>5, <2>6, <2>7
<1>9. PodLedgers' /\ StuckUnready'
  <2>1. \A p \in Pod : \A k \in PodKeys(p) : (k \in seen' <=> k \in seen) /\ credit'[k] = credit[k]
    BY <1>1, KeysInKey, KeysApart DEF TypeOK
  <2>2. QED
    BY <1>1, <1>5, <2>1, PodsFrame DEF LedgerInv
<1>10. QED
  BY <1>1, <1>8, <1>9 DEF LedgerInv, FindingsCounted

(* Steps that leave every key, its credit and every backlog alone. *)
LEMMA LedgersFrame ==
  ASSUME LedgerInv, Backlog("pods")' = Backlog("pods"), Backlog("nodes")' = Backlog("nodes"),
         UNCHANGED <<pods, nodes, seen, credit>>, poll'.rest = poll.rest
  PROVE  PodLedgers' /\ NodeLedgers' /\ StuckUnready'
  BY PodsFrame, NodesFrame DEF LedgerInv

LEMMA LedgerClusterStep ==
  ASSUME TypeOK, LedgerInv, ClusterStep PROVE LedgerInv'
<1>1. ASSUME NEW p \in Pod, PodCreated(p) PROVE LedgerInv'
  <2>1. [NoPod EXCEPT !.phase = "young"].phase = "young"
    BY DEF NoPod
  <2>2. QED
    BY <1>1, <2>1, PodStatuses, LedgerPodBecomes DEF PodCreated
<1>2. ASSUME NEW p \in Pod, PodStarts(p) PROVE LedgerInv'
  <2>1. [pods[p] EXCEPT !.phase = "running"].phase # "stuck"
    BY DEF TypeOK, PodStatus
  <2>2. QED
    BY <1>2, <2>1, PodStatuses, LedgerPodBecomes DEF PodStarts
<1>3. ASSUME NEW p \in Pod, PodSticks(p) PROVE LedgerInv'
  <2>1. [pods[p] EXCEPT !.phase = "stuck"].phase = "stuck"
    BY DEF TypeOK, PodStatus
  <2>2. Backlog("pods") = <<>>
    BY <1>3, NothingHeldBack DEF PodSticks, Backlog
  <2>3. ~AllReady([pods[p] EXCEPT !.phase = "stuck"])
    BY <2>1 DEF AllReady
  <2>4. QED
    BY <1>3, <2>2, <2>3, LedgerPodSilently DEF PodSticks
<1>4. ASSUME NEW p \in Pod, PodDeleted(p) PROVE LedgerInv'
  <2>1. NoPod.phase = "absent"
    BY DEF NoPod
  <2>2. QED
    BY <1>4, <2>1, LedgerPodSilently DEF PodDeleted, AllReady
<1>5. ASSUME NEW p \in Pod, NEW c \in Container, ContainerChanges(p, c) PROVE LedgerInv'
  <2>1. PICK s \in ({"ready"} \cup Waiting) \X {0} \cup {<<"OOMKilled", clock + 1>>} :
          PodBecomes(p, [pods[p] EXCEPT !.container[c] = s])
    BY <1>5 DEF ContainerChanges
  <2>2. s \in ContainerState
    <3>1. clock + 1 \in 1 .. MaxChanges
      BY <2>1, AgentAssumption DEF PodBecomes, Changes, TypeOK
    <3>2. QED
      BY <3>1 DEF ContainerState, FailureState
  <2>3. [pods[p] EXCEPT !.container[c] = s].phase = pods[p].phase
    BY DEF TypeOK, PodStatus
  <2>4. [pods[p] EXCEPT !.container[c] = s] \in PodStatus
    BY <2>2, PodStatuses
  <2>5. QED
    BY <2>1, <2>3, <2>4, LedgerPodBecomes
<1>6. ASSUME NEW x \in Workload, NEW scan \in Scan, ScanChanges(x, scan) PROVE LedgerInv'
  <2>1. <<x, scan>> \in Item("scans")
    BY ItemForms
  <2>2. Changes("scans", x, scan) /\ UNCHANGED <<pods, nodes, credit, seen, poll, entries, fires>>
    BY <1>6 DEF ScanChanges, Changes, health
  <2>3. Backlog("pods")' = Backlog("pods") /\ Backlog("nodes")' = Backlog("nodes")
    BY <2>1, <2>2, BacklogChanges DEF Watcher
  <2>4. QED
    BY <2>2, <2>3, LedgersFrame DEF LedgerInv, FindingsCounted
<1>7. QED
  BY <1>1, <1>2, <1>3, <1>4, <1>5, <1>6, LedgerNodeChanges DEF ClusterStep

LEMMA LedgerListObjects ==
  ASSUME TypeOK, LedgerInv, NEW w \in Watcher, ListObjects(w) PROVE LedgerInv'
<1>1. UNCHANGED <<pods, nodes, poll, seen, entries, credit, fires>>
  BY DEF ListObjects, cluster, health, history
<1>2. CASE w = "pods"
  <2>1. /\ Backlog("nodes")' = Backlog("nodes") /\ Backlog("pods")' \in Seq(Listed("pods"))
        /\ Backlog("pods")' \in Seq(Item("pods")) /\ Backlog("pods") \in Seq(Item("pods"))
    BY <1>2, BacklogListed, ListedItems, SeqWidens, BacklogTyped DEF Watcher
  <2>2. \A i \in 1 .. Len(Backlog("pods")') :
          \E r \in Pod : Backlog("pods")'[i] = <<r, pods[r]>> /\ pods[r] \in PodStatus
    <3>1. Listed("pods") = {<<p, pods[p]>> : p \in {p \in Pod : pods[p] # NoPod}}
      BY DEF Listed
    <3>2. \A i \in 1 .. Len(Backlog("pods")') : Backlog("pods")'[i] \in Listed("pods")
      BY <2>1
    <3>3. QED
      BY <3>1, <3>2 DEF TypeOK
  <2>3. PodLedgers'
    <3> SUFFICES ASSUME NEW p \in Pod, NEW k \in PodKeys(p)
                 PROVE  PodLedger(p, k)'
      BY DEF PodLedgers, PodKeys, PendingKey, FailureState
    <3> DEFINE mk == PodMark(p, k)
               now == AllReady(pods[p])
               s == k \in seen
    <3>1. Ledger(mk, Backlog("pods"), now, s, Polled(p, k), credit[k])
      BY DEF LedgerInv, PodLedgers, PodLedger
    <3>2. \A i \in 1 .. Len(Backlog("pods")') :
            /\ mk[Backlog("pods")'[i]] = "clear" => now
            /\ mk[Backlog("pods")'[i]] = "show" => ~now
      <4> TAKE i \in 1 .. Len(Backlog("pods")')
      <4>1. PICK r \in Pod : Backlog("pods")'[i] = <<r, pods[r]>> /\ pods[r] \in PodStatus
        BY <2>2
      <4>2. /\ mk[<<r, pods[r]>>] = "clear" <=> r = p /\ AllReady(pods[r])
            /\ mk[<<r, pods[r]>>] = "show" => r = p /\ ~AllReady(pods[r])
        BY <4>1, PodMarkIs
      <4> HIDE DEF mk
      <4>3. QED
        BY <4>1, <4>2
    <3>3. mk \in [Item("pods") -> Mark] /\ credit[k] \in Int
      BY MarksTyped, PodCredit
    <3>4. Polled(p, k) \in BOOLEAN /\ now \in BOOLEAN /\ s \in BOOLEAN
      BY PodBooleans
    <3>5. /\ Polled(p, k)' = Polled(p, k) /\ (k \in seen') = s /\ credit'[k] = credit[k]
          /\ AllReady(pods'[p]) = now
      BY <1>1 DEF Polled
    <3> HIDE DEF mk, now, s
    <3>6. Ledger(mk, Backlog("pods")', now, s, Polled(p, k), credit[k])
      BY <2>1, <3>1, <3>2, <3>3, <3>4, LedgerRelisted
    <3>7. QED
      BY <3>5, <3>6, PodLedgerNext DEF mk
  <2>4. StuckUnready'
    <3> SUFFICES ASSUME NEW p \in Pod, pods[p].phase = "stuck", NEW i \in 1 .. Len(Backlog("pods")')
                 PROVE  PodMark(p, PendingKey(p))[Backlog("pods")'[i]] # "clear"
      BY <1>1 DEF StuckUnready
    <3>1. ~AllReady(pods[p])
      BY DEF AllReady
    <3>2. PICK r \in Pod : Backlog("pods")'[i] = <<r, pods[r]>> /\ pods[r] \in PodStatus
      BY <2>2
    <3>3. PodMark(p, PendingKey(p))[<<r, pods[r]>>] = "clear" <=> r = p /\ AllReady(pods[r])
      BY <3>2, PodMarkIs
    <3>4. QED
      BY <3>1, <3>2, <3>3
  <2>5. NodeLedgers'
    BY <1>1, <2>1, NodesFrame DEF LedgerInv
  <2>6. QED
    BY <1>1, <2>3, <2>4, <2>5 DEF LedgerInv, FindingsCounted
<1>3. CASE w = "nodes"
  <2>1. /\ Backlog("pods")' = Backlog("pods") /\ Backlog("nodes")' \in Seq(Listed("nodes"))
        /\ Backlog("nodes")' \in Seq(Item("nodes")) /\ Backlog("nodes") \in Seq(Item("nodes"))
    BY <1>3, BacklogListed, ListedItems, SeqWidens, BacklogTyped DEF Watcher
  <2>2. \A i \in 1 .. Len(Backlog("nodes")') :
          \E m \in Node : Backlog("nodes")'[i] = <<m, nodes[m]>> /\ nodes[m] \in SUBSET Condition
    <3>1. Listed("nodes") = {<<n, nodes[n]>> : n \in Node}
      BY DEF Listed
    <3>2. \A i \in 1 .. Len(Backlog("nodes")') : Backlog("nodes")'[i] \in Listed("nodes")
      BY <2>1
    <3>3. QED
      BY <3>1, <3>2 DEF TypeOK
  <2>3. NodeLedgers'
    <3> SUFFICES ASSUME NEW n \in Node, NEW cond \in Condition
                 PROVE  NodeLedger(n, cond)'
      BY DEF NodeLedgers
    <3> DEFINE mk == NodeMark(n, cond)
               now == cond \notin nodes[n]
               s == NodeKey(n, cond) \in seen
               c == credit[NodeKey(n, cond)]
    <3>1. Ledger(mk, Backlog("nodes"), now, s, NeverPolled, c)
      BY DEF LedgerInv, NodeLedgers, NodeLedger
    <3>2. \A i \in 1 .. Len(Backlog("nodes")') :
            /\ mk[Backlog("nodes")'[i]] = "clear" => now
            /\ mk[Backlog("nodes")'[i]] = "show" => ~now
      <4> TAKE i \in 1 .. Len(Backlog("nodes")')
      <4>1. PICK m \in Node : Backlog("nodes")'[i] = <<m, nodes[m]>> /\ nodes[m] \in SUBSET Condition
        BY <2>2
      <4>2. /\ mk[<<m, nodes[m]>>] = "clear" <=> m = n /\ cond \notin nodes[m]
            /\ mk[<<m, nodes[m]>>] = "show" <=> m = n /\ cond \in nodes[m]
        BY <4>1, NodeMarkIs
      <4> HIDE DEF mk
      <4>3. QED
        BY <4>1, <4>2
    <3>3. mk \in [Item("nodes") -> Mark] /\ c \in Int
      BY MarksTyped, NodeCredit
    <3>4. NeverPolled \in BOOLEAN /\ now \in BOOLEAN /\ s \in BOOLEAN
      BY NodesUnpolled
    <3>5. /\ (NodeKey(n, cond) \in seen') = s /\ credit'[NodeKey(n, cond)] = c
          /\ (cond \notin nodes'[n]) = now
      BY <1>1
    <3> HIDE DEF mk, now, s, c
    <3>6. Ledger(mk, Backlog("nodes")', now, s, NeverPolled, c)
      BY <2>1, <3>1, <3>2, <3>3, <3>4, LedgerRelisted
    <3>7. QED
      BY <3>5, <3>6, NodeLedgerNext DEF mk
  <2>4. PodLedgers' /\ StuckUnready'
    BY <1>1, <2>1, PodsFrame DEF LedgerInv
  <2>5. QED
    BY <1>1, <2>3, <2>4 DEF LedgerInv, FindingsCounted
<1>4. CASE w = "scans"
  <2>1. Backlog("pods")' = Backlog("pods") /\ Backlog("nodes")' = Backlog("nodes")
    BY <1>4, BacklogListed DEF Watcher
  <2>2. QED
    BY <1>1, <2>1, LedgersFrame DEF LedgerInv, FindingsCounted
<1>5. QED
  BY <1>2, <1>3, <1>4 DEF Watcher

(* With an empty backlog, the ledgers of the pods or nodes stay in order. *)
LEMMA PodsEmptied ==
  ASSUME TypeOK, LedgerInv, Backlog("pods")' = <<>>, UNCHANGED <<pods, poll, seen, credit>>
  PROVE  PodLedgers' /\ StuckUnready'
<1>1. PodLedgers'
  <2> SUFFICES ASSUME NEW p \in Pod, NEW k \in PodKeys(p)
               PROVE  PodLedger(p, k)'
    BY DEF PodLedgers, PodKeys, PendingKey, FailureState
  <2>1. Ledger(PodMark(p, k), Backlog("pods"), AllReady(pods[p]), k \in seen, Polled(p, k), credit[k])
    BY DEF LedgerInv, PodLedgers, PodLedger
  <2>2. Ledger(PodMark(p, k), <<>>, AllReady(pods[p]), k \in seen, Polled(p, k), credit[k])
    BY <2>1, PodCredit, LedgerScalars, LedgerEmpty
  <2>3. Polled(p, k)' = Polled(p, k)
    BY DEF Polled
  <2>4. QED
    BY <2>2, <2>3, PodLedgerNext
<1>2. StuckUnready'
  BY DEF StuckUnready
<1>3. QED
  BY <1>1, <1>2

LEMMA NodesEmptied ==
  ASSUME TypeOK, LedgerInv, Backlog("nodes")' = <<>>, UNCHANGED <<nodes, seen, credit>>
  PROVE  NodeLedgers'
<1> SUFFICES ASSUME NEW n \in Node, NEW cond \in Condition
             PROVE  NodeLedger(n, cond)'
  BY DEF NodeLedgers
<1> DEFINE now == cond \notin nodes[n]
           s == NodeKey(n, cond) \in seen
           c == credit[NodeKey(n, cond)]
<1>1. Ledger(NodeMark(n, cond), Backlog("nodes"), now, s, NeverPolled, c)
  BY DEF LedgerInv, NodeLedgers, NodeLedger
<1>2. c \in Int
  BY NodeCredit
<1> HIDE DEF now, s, c
<1>3. Ledger(NodeMark(n, cond), <<>>, now, s, NeverPolled, c)
  BY <1>1, <1>2, LedgerScalars, LedgerEmpty
<1>4. QED
  BY <1>3, NodeLedgerNext DEF now, s, c

LEMMA LedgerWatchCloses ==
  ASSUME TypeOK, LedgerInv, NEW w \in Watcher, WatchCloses(w) PROVE LedgerInv'
<1>1. UNCHANGED <<pods, nodes, poll, seen, entries, credit, fires>>
  BY DEF WatchCloses, cluster, health, history
<1>2. (w # "pods" => Backlog("pods")' = Backlog("pods")) /\ (w = "pods" => Backlog("pods")' = <<>>)
  BY BacklogCloses DEF Watcher
<1>3. (w # "nodes" => Backlog("nodes")' = Backlog("nodes")) /\ (w = "nodes" => Backlog("nodes")' = <<>>)
  BY BacklogCloses DEF Watcher
<1>4. PodLedgers' /\ StuckUnready'
  BY <1>1, <1>2, PodsEmptied, PodsFrame DEF LedgerInv
<1>5. NodeLedgers'
  BY <1>1, <1>3, NodesEmptied, NodesFrame DEF LedgerInv
<1>6. QED
  BY <1>1, <1>4, <1>5 DEF LedgerInv, FindingsCounted

LEMMA LedgerReconcilePod ==
  ASSUME TypeOK, LedgerInv, ReconcilePod PROVE LedgerInv'
<1> DEFINE p == NextItem("pods")[1]
           pod == NextItem("pods")[2]
           q == Backlog("pods")
<1>1. HasItem("pods") /\ UNCHANGED <<pods, nodes, poll, entries, fires>>
  BY DEF ReconcilePod, cluster
<1>2. p \in Pod /\ pod \in PodStatus /\ NextItem("pods") = <<p, pod>>
  BY <1>1, NextItemTyped, ItemForms DEF Watcher
<1>3. \E out : Takes("pods", out)
  BY DEF ReconcilePod
<1>4. /\ q # <<>> /\ Head(q) = <<p, pod>> /\ Backlog("pods")' = Tail(q)
      /\ Backlog("nodes")' = Backlog("nodes") /\ q \in Seq(Item("pods"))
  BY <1>1, <1>2, <1>3, BacklogTakes, BacklogTyped DEF Watcher
<1>5. Failures(p, pod) \subseteq PodKeys(p) /\ PodKeys(p) \subseteq Key
  BY <1>2, FailuresAreKeys, KeysInKey
<1>6. \/ /\ AllReady(pod) /\ seen' = seen \ PodKeys(p)
         /\ credit' = [credit EXCEPT ![PendingKey(p)] =
                         IF p \in poll.rest /\ PendingKey(p) \in seen THEN @ + 1 ELSE @]
      \/ /\ ~AllReady(pod)
         /\ \E k \in Failures(p, pod) \ seen : seen' = seen \cup {k} /\ Fires({k})
      \/ UNCHANGED <<seen, credit>>
  BY DEF ReconcilePod, ClearPod, MarkSeen, Overtaken
<1> HIDE DEF p, pod, q
<1>7. PodLedgers'
  <2> SUFFICES ASSUME NEW r \in Pod, NEW k \in PodKeys(r)
               PROVE  PodLedger(r, k)'
    BY DEF PodLedgers, PodKeys, PendingKey, FailureState
  <2> DEFINE mk == PodMark(r, k)
             now == AllReady(pods[r])
             s == k \in seen
             s2 == k \in seen'
             c == credit[k]
             c2 == credit'[k]
  <2>1. Ledger(mk, q, now, s, Polled(r, k), c)
    BY DEF LedgerInv, PodLedgers, PodLedger, q
  <2>2. Polled(r, k)' = Polled(r, k) /\ AllReady(pods'[r]) = now
    BY <1>1 DEF Polled
  <2>3. mk \in [Item("pods") -> Mark] /\ c \in Int /\ k \in Key
    BY MarksTyped, PodCredit
  <2>4. Polled(r, k) \in BOOLEAN /\ now \in BOOLEAN /\ s \in BOOLEAN /\ s2 \in BOOLEAN
    BY PodBooleans
  <2>5. k \in PodKeys(p) <=> r = p
    BY <1>2, KeysApart
  <2>6. \/ s2 = s /\ c2 = c
        \/ mk[Head(q)] = "clear" /\ ~s2 /\ c2 = (IF Polled(r, k) /\ s THEN c + 1 ELSE c)
        \/ mk[Head(q)] = "show" /\ ~s /\ s2 /\ c2 = c - 1
    <3>1. CASE /\ AllReady(pod) /\ seen' = seen \ PodKeys(p)
               /\ credit' = [credit EXCEPT ![PendingKey(p)] =
                               IF p \in poll.rest /\ PendingKey(p) \in seen THEN @ + 1 ELSE @]
      <4>1. CASE r = p
        <5>1. mk[Head(q)] = "clear"
          BY <1>2, <1>4, <3>1, <4>1, PodMarkIs
        <5>2. ~s2
          BY <2>5, <3>1, <4>1
        <5>3. c2 = (IF Polled(r, k) /\ s THEN c + 1 ELSE c)
          BY <2>3, <3>1, <4>1 DEF TypeOK, Polled
        <5>4. QED
          BY <5>1, <5>2, <5>3
      <4>2. CASE r # p
        <5>1. k # PendingKey(p)
          BY <2>5, <4>2 DEF PodKeys
        <5>2. QED
          BY <2>3, <2>5, <3>1, <4>2, <5>1 DEF TypeOK
      <4>3. QED
        BY <4>1, <4>2
    <3>2. CASE /\ ~AllReady(pod)
               /\ \E j \in Failures(p, pod) \ seen : seen' = seen \cup {j} /\ Fires({j})
      <4>1. PICK j \in Failures(p, pod) \ seen : seen' = seen \cup {j} /\ Fires({j})
        BY <3>2
      <4>2. CASE k = j
        <5>1. r = p
          BY <1>5, <2>5, <4>1, <4>2
        <5>2. mk[Head(q)] = "show"
          BY <1>2, <1>4, <3>2, <4>1, <4>2, <5>1, PodMarkIs
        <5>3. ~s /\ s2 /\ c2 = c - 1
          BY <2>3, <4>1, <4>2 DEF Fires
        <5>4. QED
          BY <5>2, <5>3
      <4>3. CASE k # j
        BY <2>3, <4>1, <4>3 DEF Fires
      <4>4. QED
        BY <4>2, <4>3
    <3>3. CASE UNCHANGED <<seen, credit>>
      BY <3>3
    <3>4. QED
      BY <1>6, <3>1, <3>2, <3>3
  <2>7. c2 \in Int
    BY <2>3, <2>6
  <2> HIDE DEF mk, now, s, s2, c, c2
  <2>8. Ledger(mk, Tail(q), now, s2, Polled(r, k), c2)
    BY <1>4, <2>1, <2>3, <2>4, <2>6, <2>7, LedgerTakes
  <2>9. QED
    BY <1>4, <2>2, <2>8, PodLedgerNext DEF mk, s2, c2
<1>8. StuckUnready'
  <2> SUFFICES ASSUME NEW r \in Pod, pods[r].phase = "stuck", NEW i \in 1 .. Len(Tail(q))
               PROVE  PodMark(r, PendingKey(r))[Tail(q)[i]] # "clear"
    BY <1>1, <1>4 DEF StuckUnready
  <2>1. i + 1 \in 1 .. Len(q) /\ Tail(q)[i] = q[i + 1]
    BY <1>4, TailItems
  <2>2. QED
    BY <2>1 DEF LedgerInv, StuckUnready, q
<1>9. NodeLedgers'
  <2>1. \A n \in Node : \A k \in NodeKeys(n) :
          k \in Key /\ k \notin PodKeys(p) /\ k # PendingKey(p)
    BY <1>2, KeysInKey, KeysApart DEF PodKeys
  <2>2. \A n \in Node : \A k \in NodeKeys(n) : (k \in seen' <=> k \in seen) /\ credit'[k] = credit[k]
    BY <1>5, <1>6, <2>1 DEF TypeOK, Fires
  <2>3. QED
    BY <1>1, <1>4, <2>2, NodesFrame DEF LedgerInv
<1>10. QED
  BY <1>1, <1>7, <1>8, <1>9 DEF LedgerInv, FindingsCounted

LEMMA LedgerReconcileNode ==
  ASSUME TypeOK, LedgerInv, ReconcileNode PROVE LedgerInv'
<1> DEFINE n == NextItem("nodes")[1]
           now2 == NextItem("nodes")[2]
           bad == {NodeKey(n, cond) : cond \in now2}
           good == NodeKeys(n) \ bad
           q == Backlog("nodes")
<1>1. HasItem("nodes") /\ UNCHANGED <<pods, nodes, poll, entries, fires>>
  BY DEF ReconcileNode, cluster
<1>2. n \in Node /\ now2 \in SUBSET Condition /\ NextItem("nodes") = <<n, now2>>
  BY <1>1, NextItemTyped, ItemForms DEF Watcher
<1>3. \E out : Takes("nodes", out)
  BY DEF ReconcileNode
<1>4. /\ q # <<>> /\ Head(q) = <<n, now2>> /\ Backlog("nodes")' = Tail(q)
      /\ Backlog("pods")' = Backlog("pods") /\ q \in Seq(Item("nodes"))
  BY <1>1, <1>2, <1>3, BacklogTakes, BacklogTyped DEF Watcher
<1>5. seen' = (seen \ good) \cup bad /\ Fires(bad \ seen)
  BY DEF ReconcileNode
<1> HIDE DEF n, now2, q
<1>6. \A m \in Node, d \in Condition :
        /\ NodeKey(m, d) \in bad <=> m = n /\ d \in now2
        /\ NodeKey(m, d) \in good <=> m = n /\ d \notin now2
  <2> SUFFICES ASSUME NEW m \in Node, NEW d \in Condition
               PROVE  /\ NodeKey(m, d) \in bad <=> m = n /\ d \in now2
                      /\ NodeKey(m, d) \in good <=> m = n /\ d \notin now2
    OBVIOUS
  <2>1. NodeKey(m, d) \in bad <=> m = n /\ d \in now2
    BY NodeKeysDiffer
  <2>2. NodeKey(m, d) \in NodeKeys(n) <=> m = n
    BY NodeKeysDiffer DEF NodeKeys
  <2>3. QED
    BY <2>1, <2>2
<1>7. \A p \in Pod : \A k \in PodKeys(p) : k \notin bad /\ k \notin good /\ k \in Key
  <2>1. bad \subseteq NodeKeys(n)
    BY <1>2 DEF NodeKeys
  <2>2. QED
    BY <1>2, <2>1, KeysInKey, KeysApart
<1> HIDE DEF bad, good
<1>8. NodeLedgers'
  <2> SUFFICES ASSUME NEW m \in Node, NEW d \in Condition
               PROVE  NodeLedger(m, d)'
    BY DEF NodeLedgers
  <2> DEFINE k == NodeKey(m, d)
             mk == NodeMark(m, d)
             now == d \notin nodes[m]
             s == k \in seen
             s2 == k \in seen'
             c == credit[k]
             c2 == credit'[k]
  <2>1. Ledger(mk, q, now, s, NeverPolled, c)
    BY DEF LedgerInv, NodeLedgers, NodeLedger, q
  <2>2. (d \notin nodes'[m]) = now
    BY <1>1
  <2>3. mk \in [Item("nodes") -> Mark] /\ c \in Int /\ k \in Key
    BY MarksTyped, NodeCredit, KeysInKey
  <2>4. NeverPolled \in BOOLEAN /\ now \in BOOLEAN /\ s \in BOOLEAN /\ s2 \in BOOLEAN
    BY NodesUnpolled
  <2>5. \/ s2 = s /\ c2 = c
        \/ mk[Head(q)] = "clear" /\ ~s2 /\ c2 = (IF NeverPolled /\ s THEN c + 1 ELSE c)
        \/ mk[Head(q)] = "show" /\ ~s /\ s2 /\ c2 = c - 1
    <3>1. c2 = IF k \in bad \ seen THEN c - 1 ELSE c
      BY <1>5, <2>3 DEF Fires
    <3>2. CASE m # n
      BY <1>5, <1>6, <3>1, <3>2
    <3>3. CASE m = n /\ d \notin now2
      <4>1. mk[Head(q)] = "clear"
        BY <1>2, <1>4, <3>3, NodeMarkIs
      <4>2. ~s2 /\ c2 = c
        BY <1>5, <1>6, <3>1, <3>3
      <4>3. QED
        BY <4>1, <4>2, NodesUnpolled
    <3>4. CASE m = n /\ d \in now2
      <4>1. mk[Head(q)] = "show"
        BY <1>2, <1>4, <3>4, NodeMarkIs
      <4>2. s2 /\ c2 = IF s THEN c ELSE c - 1
        BY <1>5, <1>6, <3>1, <3>4
      <4>3. QED
        BY <4>1, <4>2
    <3>5. QED
      BY <3>2, <3>3, <3>4
  <2>6. c2 \in Int
    BY <2>3, <2>5
  <2> HIDE DEF mk, now, s, s2, c, c2
  <2>7. Ledger(mk, Tail(q), now, s2, NeverPolled, c2)
    BY <1>4, <2>1, <2>3, <2>4, <2>5, <2>6, LedgerTakes
  <2>8. QED
    BY <1>4, <2>2, <2>7, NodeLedgerNext DEF mk, s2, c2
<1>9. PodLedgers' /\ StuckUnready'
  <2>1. \A p \in Pod : \A k \in PodKeys(p) : (k \in seen' <=> k \in seen) /\ credit'[k] = credit[k]
    BY <1>5, <1>7 DEF Fires
  <2>2. QED
    BY <1>1, <1>4, <2>1, PodsFrame DEF LedgerInv
<1>10. QED
  BY <1>1, <1>8, <1>9 DEF LedgerInv, FindingsCounted

LEMMA LedgerReconcileScan ==
  ASSUME TypeOK, LedgerInv, ReconcileScan PROVE LedgerInv'
<1> DEFINE x == NextItem("scans")[1]
           listed == watch["scans"].list # <<>>
           total == Counted(IF listed THEN NextItem("scans")[2] ELSE scans[x])
<1>1. HasItem("scans") /\ UNCHANGED <<pods, nodes, poll, seen, credit>>
  BY DEF ReconcileScan, cluster, health
<1>2. x \in Workload /\ NextItem("scans")[2] \in Scan
  BY <1>1, NextItemTyped, ItemForms DEF Watcher
<1>3. total \in 0 .. 2
  <2>1. scans[x] \in Scan
    BY <1>2 DEF TypeOK
  <2>2. QED
    BY <1>2, <2>1, CountedTyped
<1>4. \E out : Takes("scans", out)
  BY DEF ReconcileScan
<1>5. Backlog("pods")' = Backlog("pods") /\ Backlog("nodes")' = Backlog("nodes")
  BY <1>1, <1>4, BacklogTakes DEF Watcher
<1>6. \/ /\ total > entries[x]
         /\ entries' = [entries EXCEPT ![x] = total]
         /\ fires' = [fires EXCEPT ![x] = IF listed THEN @ ELSE @ + 1]
      \/ UNCHANGED <<entries, fires>>
  BY DEF ReconcileScan, IsNew
<1> HIDE DEF x, total, listed
<1>7. FindingsCounted'
  <2> SUFFICES ASSUME NEW y \in Workload PROVE fires'[y] <= entries'[y]
    BY DEF FindingsCounted
  <2>1. fires[y] <= entries[y] /\ fires[y] \in Nat /\ entries[y] \in 0 .. 2
    BY DEF TypeOK, LedgerInv, FindingsCounted
  <2>2. CASE UNCHANGED <<entries, fires>>
    BY <2>1, <2>2
  <2>3. CASE /\ total > entries[x]
             /\ entries' = [entries EXCEPT ![x] = total]
             /\ fires' = [fires EXCEPT ![x] = IF listed THEN @ ELSE @ + 1]
    <3>1. CASE y = x
      <4>1. entries'[y] = total /\ (fires'[y] = fires[y] \/ fires'[y] = fires[y] + 1)
        BY <1>2, <2>3, <3>1 DEF TypeOK
      <4>2. QED
        BY <1>3, <2>1, <2>3, <3>1, <4>1
    <3>2. CASE y # x
      BY <2>1, <2>3, <3>2 DEF TypeOK
    <3>3. QED
      BY <3>1, <3>2
  <2>4. QED
    BY <1>6, <2>2, <2>3
<1>8. QED
  BY <1>1, <1>5, <1>7, LedgersFrame DEF LedgerInv

LEMMA LedgerPollStep ==
  ASSUME TypeOK, LedgerInv, PollStep PROVE LedgerInv'
<1>0. UNCHANGED <<pods, nodes, watch, entries, fires>>
  BY DEF PollStep, PollList, CheckPending, SendPending, cluster, history
<1>1. Backlog("pods")' = Backlog("pods") /\ Backlog("nodes")' = Backlog("nodes")
  BY <1>0 DEF Backlog
<1>2. CASE PollList
  <2>1. poll'.rest = {p \in Pod : pods[p].phase = "stuck"} /\ UNCHANGED <<seen, credit>>
    BY <1>2 DEF PollList, TypeOK, history
  <2>2. PodLedgers'
    <3> SUFFICES ASSUME NEW p \in Pod, NEW k \in PodKeys(p)
                 PROVE  PodLedger(p, k)'
      BY DEF PodLedgers, PodKeys, PendingKey, FailureState
    <3>1. Ledger(PodMark(p, k), Backlog("pods"), AllReady(pods[p]), k \in seen, Polled(p, k), credit[k])
      BY DEF LedgerInv, PodLedgers, PodLedger
    <3>2. Polled(p, k)' => /\ ~AllReady(pods[p])
                           /\ \A i \in 1 .. Len(Backlog("pods")) :
                                PodMark(p, k)[Backlog("pods")[i]] # "clear"
      BY <2>1 DEF Polled, AllReady, LedgerInv, StuckUnready
    <3>3. Polled(p, k)' \in BOOLEAN
      BY DEF Polled
    <3>4. Ledger(PodMark(p, k), Backlog("pods"), AllReady(pods[p]), k \in seen, Polled(p, k)', credit[k])
      BY <3>1, <3>2, <3>3, PodBooleans, LedgerListed
    <3>5. QED
      BY <1>0, <1>1, <2>1, <3>4, PodLedgerNext
  <2>3. StuckUnready'
    BY <1>0, <1>1 DEF LedgerInv, StuckUnready
  <2>4. NodeLedgers'
    BY <1>0, <1>1, <2>1, NodesFrame DEF LedgerInv
  <2>5. QED
    BY <1>0, <2>2, <2>3, <2>4 DEF LedgerInv, FindingsCounted
<1>3. CASE CheckPending
  <2>1. PICK p \in poll.rest :
          LET new == {PendingKey(p)} \ seen
          IN /\ MarkSeen(new)
             /\ poll' = [rest |-> poll.rest \ {p}, out |-> SetToSeq(new)]
             /\ Fires(new)
    BY <1>3 DEF CheckPending
  <2>2. /\ p \in Pod /\ seen' = seen \cup {PendingKey(p)} /\ poll'.rest = poll.rest \ {p}
        /\ Fires({PendingKey(p)} \ seen)
    <3>1. poll'.rest = poll.rest \ {p}
      BY <2>1
    <3>2. QED
      BY <2>1, <3>1, PollTyped DEF MarkSeen
  <2>3. PodLedgers'
    <3> SUFFICES ASSUME NEW r \in Pod, NEW k \in PodKeys(r)
                 PROVE  PodLedger(r, k)'
      BY DEF PodLedgers, PodKeys, PendingKey, FailureState
    <3> DEFINE mk == PodMark(r, k)
               now == AllReady(pods[r])
               s == k \in seen
               c == credit[k]
    <3>1. Ledger(mk, Backlog("pods"), now, s, Polled(r, k), c)
      BY DEF LedgerInv, PodLedgers, PodLedger
    <3>2. mk \in [Item("pods") -> Mark] /\ c \in Int /\ k \in Key
      BY MarksTyped, PodCredit
    <3>3. now \in BOOLEAN /\ s \in BOOLEAN /\ Backlog("pods") \in Seq(Item("pods"))
      BY PodBooleans, BacklogTyped DEF Watcher
    <3>4. k = PendingKey(p) => r = p
      BY <2>2, KeysApart DEF PodKeys
    <3>5. CASE k = PendingKey(p)
      <4>1. Polled(r, k) = TRUE /\ Polled(r, k)' = FALSE
        BY <2>1, <2>2, <3>4, <3>5 DEF Polled
      <4>2. (k \in seen') = TRUE /\ credit'[k] = IF s THEN c ELSE c - 1
        BY <2>2, <3>2, <3>5 DEF Fires
      <4> HIDE DEF mk, now, s, c
      <4>3. Ledger(mk, Backlog("pods"), now, TRUE, FALSE, IF s THEN c ELSE c - 1)
        BY <3>1, <3>2, <3>3, <4>1, LedgerPolled
      <4>4. QED
        BY <1>0, <1>1, <4>1, <4>2, <4>3, PodLedgerNext DEF mk, now
    <3>6. CASE k # PendingKey(p)
      <4>1. Polled(r, k)' = Polled(r, k)
        BY <2>2, <3>6 DEF Polled
      <4>2. (k \in seen') = s /\ credit'[k] = c
        BY <2>2, <3>2, <3>6 DEF Fires
      <4> HIDE DEF s, c
      <4>3. QED
        BY <1>0, <1>1, <3>1, <4>1, <4>2, PodLedgerNext
    <3>7. QED
      BY <3>5, <3>6
  <2>4. StuckUnready'
    BY <1>0, <1>1 DEF LedgerInv, StuckUnready
  <2>5. NodeLedgers'
    <3>1. \A n \in Node : \A k \in NodeKeys(n) : k \in Key /\ k # PendingKey(p)
      BY <2>2, KeysInKey, KeysApart DEF PodKeys
    <3>2. \A n \in Node : \A k \in NodeKeys(n) : (k \in seen' <=> k \in seen) /\ credit'[k] = credit[k]
      BY <2>2, <3>1 DEF Fires
    <3>3. QED
      BY <1>0, <1>1, <3>2, NodesFrame DEF LedgerInv
  <2>6. QED
    BY <1>0, <2>3, <2>4, <2>5 DEF LedgerInv, FindingsCounted
<1>4. CASE SendPending
  <2>1. poll'.rest = poll.rest /\ UNCHANGED <<seen, credit>>
    BY <1>4 DEF SendPending, TypeOK, history
  <2>2. QED
    BY <1>0, <1>1, <2>1, LedgersFrame DEF LedgerInv, FindingsCounted
<1>5. QED
  BY <1>2, <1>3, <1>4 DEF PollStep

LEMMA LedgerSendEvent ==
  ASSUME TypeOK, LedgerInv, NEW w \in Watcher, SendEvent(w) PROVE LedgerInv'
<1>1. UNCHANGED <<pods, nodes, poll, seen, entries, credit, fires>>
  BY DEF SendEvent, cluster, health, history
<1>2. Backlog("pods")' = Backlog("pods") /\ Backlog("nodes")' = Backlog("nodes")
  BY BacklogSends DEF Watcher
<1>3. QED
  BY <1>1, <1>2, LedgersFrame DEF LedgerInv, FindingsCounted

(* The channels, the forwarder and steps that change nothing. *)
LEMMA LedgerSame ==
  ASSUME LedgerInv, UNCHANGED <<pods, nodes, watch, poll, seen, entries, credit, fires>>
  PROVE  LedgerInv'
<1>1. Backlog("pods")' = Backlog("pods") /\ Backlog("nodes")' = Backlog("nodes")
  BY DEF Backlog
<1>2. QED
  BY <1>1, LedgersFrame DEF LedgerInv, FindingsCounted

LEMMA LedgerAgentRestarts ==
  ASSUME AgentRestarts PROVE LedgerInv'
<1>1. \A w \in Watcher : Backlog(w)' = <<>>
  <2>1. \A w \in Watcher : watch'[w].list = <<>> /\ watch'[w].stream = <<>>
    BY DEF AgentRestarts, NoLoop
  <2>2. QED
    BY <2>1, NothingHeldBack DEF Backlog
<1>2. /\ seen' = {} /\ poll'.rest = {} /\ \A k \in Key : credit'[k] = 1
      /\ \A x \in Workload : fires'[x] = 0 /\ entries'[x] = 0
  BY DEF AgentRestarts, StartCredit
<1>3. PodLedgers'
  <2> SUFFICES ASSUME NEW p \in Pod, NEW k \in PodKeys(p)
               PROVE  PodLedger(p, k)'
    BY DEF PodLedgers, PodKeys, PendingKey, FailureState
  <2>1. Backlog("pods")' = <<>> /\ credit'[k] = 1 /\ k \notin seen' /\ ~Polled(p, k)'
    BY <1>1, <1>2, KeysInKey DEF Watcher, Polled
  <2>2. Ledger(PodMark(p, k), <<>>, AllReady(pods'[p]), k \in seen', Polled(p, k)', 1)
    BY <2>1, LedgerEmpty
  <2>3. QED
    BY <2>1, <2>2, PodLedgerNext
<1>4. NodeLedgers'
  <2> SUFFICES ASSUME NEW n \in Node, NEW cond \in Condition
               PROVE  NodeLedger(n, cond)'
    BY DEF NodeLedgers
  <2>1. /\ Backlog("nodes")' = <<>> /\ credit'[NodeKey(n, cond)] = 1
        /\ NodeKey(n, cond) \notin seen'
    BY <1>1, <1>2, KeysInKey DEF Watcher
  <2>2. Ledger(NodeMark(n, cond), <<>>, cond \notin nodes'[n], NodeKey(n, cond) \in seen', NeverPolled, 1)
    BY <2>1, LedgerEmpty, NodesUnpolled
  <2>3. QED
    BY <2>1, <2>2, NodeLedgerNext
<1>5. StuckUnready'
  BY <1>1 DEF StuckUnready, Watcher
<1>6. FindingsCounted'
  BY <1>2 DEF FindingsCounted
<1>7. QED
  BY <1>3, <1>4, <1>5, <1>6 DEF LedgerInv

LEMMA LedgerNext ==
  ASSUME TypeOK, LedgerInv, [Next]_vars PROVE LedgerInv'
<1>1. CASE \E w \in Watcher : LoopStep(w) \/ WatchCloses(w)
  BY <1>1, LedgerListObjects, LedgerReconcilePod, LedgerReconcileNode, LedgerReconcileScan,
     LedgerSendEvent, LedgerWatchCloses DEF LoopStep, Reconcile
<1>2. CASE \E s \in Source : FanIn(s)
  BY <1>2, LedgerSame DEF FanIn, cluster, health, history
<1>3. CASE Forward
  BY <1>3, LedgerSame DEF Forward, health
<1>4. CASE UNCHANGED vars
  BY <1>4, LedgerSame DEF vars, cluster, health, history
<1>5. QED
  BY <1>1, <1>2, <1>3, <1>4, LedgerClusterStep, LedgerPollStep, LedgerAgentRestarts DEF Next

(* The ledger of every key of every pod and node stays in order: what a    *)
(* watch holds back of a recovery has been paid for before it is seen.     *)
THEOREM LedgersInductive == Spec => [](TypeOK /\ LedgerInv)
  BY TypeInit, TypeNext, LedgerInit, LedgerNext, PTL DEF Spec

LEMMA LedgerImpliesNoRefire == TypeOK /\ LedgerInv => NoRefire
<1> SUFFICES ASSUME TypeOK, LedgerInv PROVE NoRefire
  OBVIOUS
<1>1. ASSUME NEW k \in Key PROVE credit[k] >= 0
  <2>1. CASE \E p \in Pod : k \in PodKeys(p)
    BY <2>1, LedgerScalars DEF LedgerInv, PodLedgers, PodLedger
  <2>2. CASE \E n \in Node : k \in NodeKeys(n)
    <3>1. PICK n \in Node, cond \in Condition : k = NodeKey(n, cond)
      BY <2>2 DEF NodeKeys
    <3>2. NodeLedger(n, cond)
      BY DEF LedgerInv, NodeLedgers
    <3>3. QED
      BY <3>1, <3>2, LedgerScalars DEF NodeLedger
  <2>3. QED
    BY <1>1, <2>1, <2>2 DEF Key
<1>2. QED
  BY <1>1 DEF NoRefire, LedgerInv, FindingsCounted

(* NoRefire, for every cluster and any number of changes: a condition is   *)
(* reported once, once more per recovery, and once more per list of the    *)
(* poller that a recovery overtakes; a workload has no more events than    *)
(* findings.                                                               *)
THEOREM ConditionsAreNotRefired == Spec => []NoRefire
  BY LedgersInductive, LedgerImpliesNoRefire, PTL
============================================================================
