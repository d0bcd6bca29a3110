------------------------- MODULE WorkflowAdminProofs -------------------------
(***************************************************************************)
(* The table of workflows and its run log, for any workflows, events, slots *)
(* edits and faults: deletions are final, the counter is the log, an event  *)
(* is lost only to as many errors and deletions as it has attempts or to    *)
(* dying once too often, and what the builder opens it saves unchanged,     *)
(* blank texts aside.  The recursive functions of the builder's walk and    *)
(* filter are unfolded first, by induction over the least counterexample.   *)
(***************************************************************************)
EXTENDS WorkflowAdmin, FiniteSetTheorems, SequenceTheorems, WellFoundedInduction, TLAPS

(* Induction by the least counterexample. *)
LEMMA LeastNumber ==
  ASSUME NEW S \in SUBSET Nat, NEW k \in S
  PROVE  \E n \in S : \A m \in S : n <= m
<1>1. PICK n \in S : \A m \in S : <<m, n>> \notin OpToRel(<, Nat)
  BY WFMin, NatLessThanWellFounded, Zenon
<1>2. \A m \in S : ~(m < n)
  BY <1>1, Zenon DEF OpToRel
<1> QED
  BY <1>2

(* A set of numbers that has 0, and with each number the next, has them all. *)
LEMMA Induction ==
  ASSUME NEW S, 0 \in S, \A n \in Nat : n \in S => n + 1 \in S
  PROVE  Nat \subseteq S
<1> SUFFICES ASSUME NEW k \in Nat \ S PROVE FALSE
  OBVIOUS
<1>1. PICK n \in Nat \ S : \A m \in Nat \ S : n <= m
  BY LeastNumber
<1>2. n # 0 /\ n - 1 \in Nat
  BY <1>1
<1>3. n - 1 \in S
  BY <1>1, <1>2
<1> QED
  BY <1>1, <1>2, <1>3

-----------------------------------------------------------------------------
(* Keep's recursive function exists, and is what its equations say. *)
KeptEquals(g, s, S, n) ==
  g = [k \in 0..n |-> IF k = 0 THEN <<>>
                      ELSE IF s[k] \in S THEN Append(g[k - 1], s[k]) ELSE g[k - 1]]

Kept(s, S) == CHOOSE g : KeptEquals(g, s, S, Len(s))

(* There is such a function: one for n extends to n + 1. *)
LEMMA KeptExists ==
  ASSUME NEW s, NEW S, NEW N \in Nat
  PROVE  \E g : KeptEquals(g, s, S, N)
<1> DEFINE Reached == {n \in Nat : \E g : KeptEquals(g, s, S, n)}
<1>1. 0 \in Reached
  <2> DEFINE g == [k \in 0..0 |-> <<>>]
  <2>1. KeptEquals(g, s, S, 0)
    BY DEF KeptEquals
  <2> QED
    BY <2>1
<1>2. ASSUME NEW n \in Nat, n \in Reached PROVE n + 1 \in Reached
  <2>1. PICK g : KeptEquals(g, s, S, n)
    BY <1>2
  <2> DEFINE last == IF s[n + 1] \in S THEN Append(g[n], s[n + 1]) ELSE g[n]
             h == [k \in 0..(n + 1) |-> IF k = n + 1 THEN last ELSE g[k]]
  <2>2. \A k \in 0..n : g[k] = IF k = 0 THEN <<>>
                      ELSE IF s[k] \in S THEN Append(g[k - 1], s[k]) ELSE g[k - 1]
    BY <2>1 DEF KeptEquals
  <2>3. \A k \in 0..n : h[k] = g[k]
    OBVIOUS
  <2>4. h[n + 1] = IF s[n + 1] \in S THEN Append(h[n], s[n + 1]) ELSE h[n]
    BY <2>3
  <2>5. \A k \in 0..n : h[k] = IF k = 0 THEN <<>>
                      ELSE IF s[k] \in S THEN Append(h[k - 1], s[k]) ELSE h[k - 1]
    BY <2>2, <2>3
  <2> HIDE DEF last
  <2>6. h \in [0..(n + 1) -> {h[k] : k \in 0..(n + 1)}]
    OBVIOUS
  <2> HIDE DEF h
  <2>7. \A k \in 0..(n + 1) : h[k] = IF k = 0 THEN <<>>
                      ELSE IF s[k] \in S THEN Append(h[k - 1], s[k]) ELSE h[k - 1]
    BY <2>4, <2>5
  <2>8. KeptEquals(h, s, S, n + 1)
    BY <2>6, <2>7 DEF KeptEquals
  <2> QED
    BY <2>8
<1> QED
  BY <1>1, <1>2, Induction

(* Keep by its equations. *)
LEMMA KeepUnfolds ==
  ASSUME NEW s, NEW S, Len(s) \in Nat
  PROVE  /\ Keep(s, S) = Kept(s, S)[Len(s)]
         /\ Kept(s, S)[0] = <<>>
         /\ \A k \in 1..Len(s) :
              Kept(s, S)[k] = IF s[k] \in S THEN Append(Kept(s, S)[k - 1], s[k])
                              ELSE Kept(s, S)[k - 1]
<1>1. Keep(s, S) = Kept(s, S)[Len(s)]
  BY DEF Keep, Kept, KeptEquals
<1>2. KeptEquals(Kept(s, S), s, S, Len(s))
  BY KeptExists DEF Kept
<1> DEFINE g == Kept(s, S)
<1>3. g = [k \in 0..Len(s) |-> IF k = 0 THEN <<>>
                               ELSE IF s[k] \in S THEN Append(g[k - 1], s[k]) ELSE g[k - 1]]
  BY <1>2 DEF KeptEquals
<1> HIDE DEF g
<1>4. \A k \in 0..Len(s) : g[k] = IF k = 0 THEN <<>>
                               ELSE IF s[k] \in S THEN Append(g[k - 1], s[k]) ELSE g[k - 1]
  BY <1>3
<1>5. g[0] = <<>>
  BY <1>4
<1>6. \A k \in 1..Len(s) : g[k] = IF s[k] \in S THEN Append(g[k - 1], s[k]) ELSE g[k - 1]
  BY <1>4
<1> QED
  BY <1>1, <1>5, <1>6 DEF g

(* What is kept of s is in S. *)
LEMMA KeepType ==
  ASSUME NEW T, NEW s \in Seq(T), NEW S
  PROVE  Keep(s, S) \in Seq(T \cap S)
<1> DEFINE G == {n \in Nat : n <= Len(s) => Kept(s, S)[n] \in Seq(T \cap S)}
<1>1. 0 \in G
  <2>1. Len(s) \in Nat /\ Kept(s, S)[0] = <<>>
    BY KeepUnfolds
  <2>2. <<>> \in Seq(T \cap S)
    OBVIOUS
  <2> QED
    BY <2>1, <2>2
<1>2. ASSUME NEW n \in Nat, n \in G PROVE n + 1 \in G
  <2> SUFFICES ASSUME n + 1 <= Len(s) PROVE Kept(s, S)[n + 1] \in Seq(T \cap S)
    OBVIOUS
  <2>1. Kept(s, S)[n] \in Seq(T \cap S)
    BY <1>2
  <2>2. n + 1 \in 1..Len(s) /\ (n + 1) - 1 = n /\ s[n + 1] \in T
    OBVIOUS
  <2>3. Kept(s, S)[n + 1] = IF s[n + 1] \in S THEN Append(Kept(s, S)[n], s[n + 1]) ELSE Kept(s, S)[n]
    BY <2>2, KeepUnfolds
  <2> QED
    BY <2>1, <2>2, <2>3
<1> HIDE DEF G
<1>3. Len(s) \in G
  <2>1. Len(s) \in Nat /\ Nat \subseteq G
    BY <1>1, <1>2, Induction
  <2> QED
    BY <2>1
<1> QED
  BY <1>3, KeepUnfolds DEF G

(* Nothing is lost of a sequence whose elements are all in S. *)
LEMMA KeepAll ==
  ASSUME NEW S, NEW s \in Seq(S)
  PROVE  Keep(s, S) = s
<1> DEFINE G == {n \in Nat : n <= Len(s) => Kept(s, S)[n] = [k \in 1..n |-> s[k]]}
<1>1. 0 \in G
  <2>1. Len(s) \in Nat /\ Kept(s, S)[0] = <<>>
    BY KeepUnfolds
  <2> QED
    BY <2>1
<1>2. ASSUME NEW n \in Nat, n \in G PROVE n + 1 \in G
  <2> SUFFICES ASSUME n + 1 <= Len(s) PROVE Kept(s, S)[n + 1] = [k \in 1..(n + 1) |-> s[k]]
    OBVIOUS
  <2> DEFINE p == [k \in 1..n |-> s[k]]
  <2>1. Kept(s, S)[n] = p
    BY <1>2
  <2>2. n + 1 \in 1..Len(s) /\ (n + 1) - 1 = n /\ s[n + 1] \in S
    OBVIOUS
  <2>3. Kept(s, S)[n + 1] = Append(Kept(s, S)[n], s[n + 1])
    <3> HIDE DEF p, G
    <3>1. \A k \in 1..Len(s) :
              Kept(s, S)[k] = IF s[k] \in S THEN Append(Kept(s, S)[k - 1], s[k])
                              ELSE Kept(s, S)[k - 1]
      BY KeepUnfolds
    <3> QED
      BY <2>2, <3>1
  <2>4. p \in Seq(S) /\ Len(p) = n
    OBVIOUS
  <2> HIDE DEF p
  <2>5. Kept(s, S)[n + 1] = Append(p, s[n + 1])
    BY <2>1, <2>2, <2>3
  <2> QED
    BY <2>2, <2>4, <2>5 DEF p
<1> HIDE DEF G
<1>3. Len(s) \in G
  <2>1. Len(s) \in Nat /\ Nat \subseteq G
    BY <1>1, <1>2, Induction
  <2> QED
    BY <2>1
<1>4. [k \in 1..Len(s) |-> s[k]] = s
  OBVIOUS
<1> QED
  BY <1>3, <1>4, KeepUnfolds DEF G

-----------------------------------------------------------------------------
(* Walk's recursive function, likewise. *)
WalkedEquals(w, c, n) ==
  w = [k \in 0..n |-> IF k = 0 THEN <<0>> ELSE Extend(c.edges, w[k - 1])]

Walked(c) == CHOOSE w : WalkedEquals(w, c, Len(c.blocks))

(* There is such a function. *)
LEMMA WalkedExists ==
  ASSUME NEW c, NEW N \in Nat
  PROVE  \E w : WalkedEquals(w, c, N)
<1> DEFINE Reached == {n \in Nat : \E w : WalkedEquals(w, c, n)}
<1>1. 0 \in Reached
  <2> DEFINE w == [k \in 0..0 |-> <<0>>]
  <2>1. WalkedEquals(w, c, 0)
    BY DEF WalkedEquals
  <2> QED
    BY <2>1
<1>2. ASSUME NEW n \in Nat, n \in Reached PROVE n + 1 \in Reached
  <2>1. PICK w : WalkedEquals(w, c, n)
    BY <1>2
  <2> DEFINE v == [k \in 0..(n + 1) |-> IF k = n + 1 THEN Extend(c.edges, w[n]) ELSE w[k]]
  <2>2. \A k \in 0..n : w[k] = IF k = 0 THEN <<0>> ELSE Extend(c.edges, w[k - 1])
    BY <2>1 DEF WalkedEquals
  <2>3. (\A k \in 0..n : v[k] = w[k]) /\ v[n + 1] = Extend(c.edges, v[n])
    OBVIOUS
  <2>4. \A k \in 0..n : v[k] = IF k = 0 THEN <<0>> ELSE Extend(c.edges, v[k - 1])
    BY <2>2, <2>3
  <2>5. v \in [0..(n + 1) -> {v[k] : k \in 0..(n + 1)}]
    OBVIOUS
  <2> HIDE DEF v
  <2>6. \A k \in 0..(n + 1) : v[k] = IF k = 0 THEN <<0>> ELSE Extend(c.edges, v[k - 1])
    BY <2>3, <2>4
  <2>7. WalkedEquals(v, c, n + 1)
    BY <2>5, <2>6 DEF WalkedEquals
  <2> QED
    BY <2>7
<1> QED
  BY <1>1, <1>2, Induction

(* Walk by its equations. *)
LEMMA WalkUnfolds ==
  ASSUME NEW c, Len(c.blocks) \in Nat
  PROVE  /\ Walk(c) = Tail(Walked(c)[Len(c.blocks)])
         /\ Walked(c)[0] = <<0>>
         /\ \A k \in 1..Len(c.blocks) : Walked(c)[k] = Extend(c.edges, Walked(c)[k - 1])
<1> DEFINE w == Walked(c)
<1>1. Walk(c) = Tail(w[Len(c.blocks)])
  BY DEF Walk, Walked, WalkedEquals
<1>2. WalkedEquals(w, c, Len(c.blocks))
  BY WalkedExists DEF Walked
<1> HIDE DEF w
<1>3. \A k \in 0..Len(c.blocks) : w[k] = IF k = 0 THEN <<0>> ELSE Extend(c.edges, w[k - 1])
  BY <1>2 DEF WalkedEquals
<1>4. w[0] = <<0>> /\ \A k \in 1..Len(c.blocks) : w[k] = Extend(c.edges, w[k - 1])
  BY <1>3
<1> QED
  BY <1>1, <1>4 DEF w

BlocksOf(c) == {b \in DOMAIN c.blocks : c.blocks[b] # None}
SourcesOf(c) == BlocksOf(c) \cup (IF c.trigger = None THEN {} ELSE {0})

(* A canvas whose edges lead from what is on it to a block on it. *)
TypedCanvas(c) ==
  /\ c \in [id : 0..MaxRows, enabled : BOOLEAN, trigger : Triggers \cup {None},
            blocks : Seq(Actions \cup {None}), edges : Seq(Nat \X Nat)]
  /\ \A k \in DOMAIN c.edges : c.edges[k][1] \in SourcesOf(c) /\ c.edges[k][2] \in BlocksOf(c)

(* The first edge from the end of a path leads to a block on the canvas. *)
LEMMA ExtendType ==
  ASSUME NEW c, TypedCanvas(c), NEW path \in Seq(Nat), path # <<>>, Tail(path) \in Seq(BlocksOf(c))
  PROVE  /\ Extend(c.edges, path) \in Seq(Nat) /\ Extend(c.edges, path) # <<>>
         /\ Tail(Extend(c.edges, path)) \in Seq(BlocksOf(c))
<1> DEFINE out == {k \in DOMAIN c.edges : c.edges[k][1] = Last(path)}
           first == CHOOSE k \in out : \A m \in out : k <= m
           next == c.edges[first][2]
<1>1. CASE out = {} \/ next \in ToSet(path)
  <2>1. Extend(c.edges, path) = path
    BY <1>1, Zenon DEF Extend
  <2> QED
    BY <2>1
<1>2. CASE out # {} /\ next \notin ToSet(path)
  <2>1. Extend(c.edges, path) = Append(path, next)
    BY <1>2, Zenon DEF Extend
  <2>2. c.edges \in Seq(Nat \X Nat) /\ out \in SUBSET Nat
    BY DEF TypedCanvas
  <2> HIDE DEF out
  <2>3. \E k \in out : \A m \in out : k <= m
    BY <1>2, <2>2, LeastNumber
  <2>4. first \in out
    BY <2>3, Zenon
  <2> HIDE DEF first
  <2>5. next \in BlocksOf(c)
    BY <2>4 DEF out, TypedCanvas
  <2>6. next \in Nat
    BY <2>2, <2>4 DEF out
  <2> HIDE DEF next
  <2>7. Append(path, next) \in Seq(Nat) /\ Append(path, next) # <<>>
    BY <2>6
  <2>8. Tail(Append(path, next)) = Append(Tail(path), next)
    BY <2>6
  <2>9. Tail(Append(path, next)) \in Seq(BlocksOf(c))
    BY <2>5, <2>8
  <2> QED
    BY <2>1, <2>7, <2>9
<1> QED
  BY <1>1, <1>2

(* The walk visits blocks of the canvas only. *)
LEMMA WalkType ==
  ASSUME NEW c, TypedCanvas(c)
  PROVE  Walk(c) \in Seq(BlocksOf(c))
<1> DEFINE N == Len(c.blocks)
           w == Walked(c)
           G == {n \in Nat : n <= N => /\ w[n] \in Seq(Nat) /\ w[n] # <<>>
                                       /\ Tail(w[n]) \in Seq(BlocksOf(c))}
<1>1. N \in Nat
  BY DEF TypedCanvas
<1>2. /\ Walk(c) = Tail(w[N]) /\ w[0] = <<0>>
      /\ \A k \in 1..N : w[k] = Extend(c.edges, w[k - 1])
  BY <1>1, WalkUnfolds
<1> HIDE DEF N, w
<1>3. 0 \in G
  <2>1. <<0>> \in Seq(Nat) /\ <<0>> # <<>> /\ Tail(<<0>>) = <<>> /\ <<>> \in Seq(BlocksOf(c))
    OBVIOUS
  <2> QED
    BY <1>2, <2>1
<1>4. ASSUME NEW n \in Nat, n \in G PROVE n + 1 \in G
  <2> SUFFICES ASSUME n + 1 <= N
               PROVE  /\ w[n + 1] \in Seq(Nat) /\ w[n + 1] # <<>>
                      /\ Tail(w[n + 1]) \in Seq(BlocksOf(c))
    OBVIOUS
  <2>1. w[n] \in Seq(Nat) /\ w[n] # <<>> /\ Tail(w[n]) \in Seq(BlocksOf(c))
    BY <1>1, <1>4
  <2>2. n + 1 \in 1..N /\ (n + 1) - 1 = n
    BY <1>1
  <2>3. w[n + 1] = Extend(c.edges, w[n])
    BY <1>2, <2>2
  <2> QED
    BY <2>1, <2>3, ExtendType
<1> HIDE DEF G
<1>5. N \in G
  <2>1. Nat \subseteq G
    BY <1>3, <1>4, Induction
  <2> QED
    BY <1>1, <2>1
<1> QED
  BY <1>1, <1>2, <1>5 DEF G

(* The edges of a chain of n blocks, and the path along it to block n. *)
Chain(n) == [k \in 1..n |-> <<k - 1, k>>]
Upto(n) == [k \in 1..(n + 1) |-> k - 1]

(* One step along a chain. *)
LEMMA ChainStep ==
  ASSUME NEW N \in Nat, NEW n \in Nat, n < N
  PROVE  Extend(Chain(N), Upto(n)) = Upto(n + 1)
<1> DEFINE edges == Chain(N)
           path == Upto(n)
           out == {k \in DOMAIN edges : edges[k][1] = Last(path)}
           first == CHOOSE k \in out : \A m \in out : k <= m
           next == edges[first][2]
<1>1. path \in Seq(Nat) /\ Len(path) = n + 1 /\ Last(path) = n /\ ToSet(path) = 0..n
  <2>1. path \in Seq(Nat) /\ Len(path) = n + 1 /\ \A k \in 1..(n + 1) : path[k] = k - 1
    BY DEF Upto
  <2> HIDE DEF path
  <2>2. Last(path) = n
    BY <2>1 DEF Last
  <2>3. ASSUME NEW k \in 0..n PROVE k \in ToSet(path)
    <3>1. k + 1 \in DOMAIN path /\ path[k + 1] = k
      BY <2>1
    <3> QED
      BY <3>1 DEF ToSet
  <2>4. ToSet(path) \subseteq 0..n
    BY <2>1 DEF ToSet
  <2> QED
    BY <2>1, <2>2, <2>3, <2>4
<1>2. DOMAIN edges = 1..N /\ \A k \in 1..N : edges[k] = <<k - 1, k>>
  BY DEF Chain
<1> HIDE DEF path, edges
<1>3. out = {n + 1}
  BY <1>1, <1>2
<1>4. first = n + 1
  <2> HIDE DEF out
  <2>1. \E k \in out : \A m \in out : k <= m
    BY <1>3
  <2>2. first \in out
    BY <2>1, Zenon
  <2> QED
    BY <1>3, <2>2
<1>5. next = n + 1
  <2>1. edges[n + 1] = <<n, n + 1>>
    BY <1>2
  <2> HIDE DEF first
  <2> QED
    BY <1>4, <2>1
<1>6. Extend(edges, path) = Append(path, next)
  <2>1. ~(out = {} \/ next \in ToSet(path))
    BY <1>1, <1>3, <1>5
  <2> QED
    BY <2>1, Zenon DEF Extend
<1>7. Append(path, n + 1) = Upto(n + 1)
  BY <1>1 DEF Upto, path
<1> QED
  BY <1>5, <1>6, <1>7 DEF path, edges

(* The walk along a chain is the chain. *)
LEMMA ChainWalk ==
  ASSUME NEW c, Len(c.blocks) \in Nat, c.edges = Chain(Len(c.blocks))
  PROVE  Walk(c) = [k \in 1..Len(c.blocks) |-> k]
<1> DEFINE N == Len(c.blocks)
           w == Walked(c)
           G == {n \in Nat : n <= N => w[n] = Upto(n)}
<1>2. /\ Walk(c) = Tail(w[N]) /\ w[0] = <<0>>
      /\ \A k \in 1..N : w[k] = Extend(Chain(N), w[k - 1])
  BY WalkUnfolds
<1>1. N \in Nat
  OBVIOUS
<1> HIDE DEF N, w
<1>3. 0 \in G
  <2>1. Upto(0) = <<0>>
    BY DEF Upto
  <2> QED
    BY <1>2, <2>1
<1>4. ASSUME NEW n \in Nat, n \in G PROVE n + 1 \in G
  <2> SUFFICES ASSUME n + 1 <= N PROVE w[n + 1] = Upto(n + 1)
    OBVIOUS
  <2>1. w[n] = Upto(n) /\ n + 1 \in 1..N /\ (n + 1) - 1 = n /\ n < N
    BY <1>1, <1>4
  <2>2. w[n + 1] = Extend(Chain(N), Upto(n))
    BY <1>2, <2>1
  <2> QED
    BY <1>1, <2>1, <2>2, ChainStep
<1> HIDE DEF G
<1>5. N \in G
  <2>1. Nat \subseteq G
    BY <1>3, <1>4, Induction
  <2> QED
    BY <1>1, <2>1
<1>6. Walk(c) = Tail(Upto(N))
  BY <1>1, <1>2, <1>5 DEF G
<1>7. Tail(Upto(N)) = [k \in 1..N |-> k]
  BY <1>1 DEF Upto
<1> QED
  BY <1>6, <1>7 DEF N

-----------------------------------------------------------------------------
USE WorkflowAssumption

Running == {"load", "record", "commit"}

TableType ==
  /\ created \in 0..MaxRows
  /\ DOMAIN def = Ids /\ \A i \in Ids : def[i] # None => i <= created
  /\ runCount \in [Ids -> Nat] /\ run \in [Events -> Ids \cup {None, Null}]

WorkerType ==
  /\ job \in [Events -> {"waiting", "active", "done", "failed"}]
  /\ attempts \in [Events -> Nat]
  /\ pc \in [Workers -> {"idle"} \cup Running]
  /\ ev \in [Workers -> Events \cup {None}]
  /\ picked \in [Events -> Ids \cup {None}]
  /\ stalls \in [Events -> Nat] /\ throws \in [Events -> Nat] /\ faults \in 0..MaxFaults

(* A running slot has an event of its own, whose run is not yet in the log. *)
SlotInv ==
  /\ \A w \in Workers : pc[w] \in Running => ev[w] \in Events /\ job[ev[w]] = "active"
  /\ \A v, w \in Workers : v # w /\ pc[v] \in Running /\ pc[w] \in Running => ev[v] # ev[w]
  /\ \A e \in Events : job[e] # "done" => run[e] = None

(* What was selected was a row; it is one still while its count is locked. *)
PickInv ==
  /\ \A e \in Events : picked[e] # None => picked[e] <= created
  /\ \A w \in Workers : pc[w] = "commit" /\ picked[ev[w]] # None => def[picked[ev[w]]] # None

Inv == TableType /\ WorkerType /\ SlotInv /\ PickInv

-----------------------------------------------------------------------------
(* The steps by what they do to the table and to the slots. *)
StoreStep ==
  \/ \E d : CreateWorkflow(d)
  \/ \E i, d : UpdateWorkflow(i, d)
  \/ \E i \in Ids : DeleteWorkflow(i)
  \/ UNCHANGED tableVars

LEMMA DashboardSteps ==
  ASSUME Dashboard
  PROVE  StoreStep /\ UNCHANGED workerVars
<1>1. CASE Load \/ OpenNew
  BY <1>1 DEF Load, OpenNew, StoreStep
<1>2. CASE Save
  BY <1>2 DEF Save, StoreStep
<1>3. ASSUME NEW i \in Ids, HandleToggle(i) \/ HandleDelete(i) \/ OpenBuilder(i)
      PROVE  StoreStep /\ UNCHANGED workerVars
  BY <1>3 DEF HandleToggle, HandleDelete, OpenBuilder, StoreStep
<1>4. ASSUME NEW c, Edit(c) PROVE StoreStep /\ UNCHANGED workerVars
  BY <1>4 DEF Edit, StoreStep
<1>5. ASSUME \/ \E type \in {"send_message", "ai_reply", "handoff"} : AddBlock(type)
             \/ \E type \in Triggers : SetTrigger(type)
             \/ ToggleEnabled \/ DeleteTrigger
             \/ \E b \in Blocks : DeleteBlock(b) \/ \E text \in {"none", "blank", "words"} : SetText(b, text)
             \/ \E a \in Sources, b \in Blocks : OnConnect(a, b)
             \/ \E k \in DOMAIN canvas.edges : DeleteEdge(k)
      PROVE  \E c : Edit(c)
  BY <1>5, Zenon DEF AddBlock, SetTrigger, ToggleEnabled, DeleteTrigger, SetText, DeleteBlock, OnConnect, DeleteEdge
<1> QED
  BY <1>1, <1>2, <1>3, <1>4, <1>5 DEF Dashboard

(* Rows are neither revived nor created twice. *)
LEMMA StoreEffect ==
  ASSUME TableType, StoreStep
  PROVE  /\ TableType' /\ created <= created'
         /\ \A i \in Deleted : i \in Deleted' /\ def'[i] = None
<1> USE DEF TableType, Ids, Deleted
<1>1. ASSUME NEW d, CreateWorkflow(d)
      PROVE  /\ TableType' /\ created <= created'
             /\ \A i \in Deleted : i \in Deleted' /\ def'[i] = None
  BY <1>1 DEF CreateWorkflow
<1>2. ASSUME NEW i, NEW d, UpdateWorkflow(i, d)
      PROVE  /\ TableType' /\ created <= created'
             /\ \A j \in Deleted : j \in Deleted' /\ def'[j] = None
  BY <1>2 DEF UpdateWorkflow
<1>3. ASSUME NEW i \in Ids, DeleteWorkflow(i)
      PROVE  /\ TableType' /\ created <= created'
             /\ \A j \in Deleted : j \in Deleted' /\ def'[j] = None
  BY <1>3 DEF DeleteWorkflow
<1>4. CASE UNCHANGED tableVars
  BY <1>4 DEF tableVars
<1> QED
  BY <1>1, <1>2, <1>3, <1>4 DEF StoreStep

(* The worker's steps leave the rows, and at a commit add one run. *)
SlotSteps(w) ==
  \/ \E e \in Events : Take(w, e)
  \/ LoadWorkflows(w) \/ RecordWorkflowRun(w) \/ RecordDeleted(w)
  \/ Throw(w) \/ Die(w)

LEMMA WorkerEffect ==
  ASSUME Inv, NEW w \in Workers, SlotSteps(w) \/ CommitRun(w)
  PROVE  /\ TableType' /\ UNCHANGED <<def, created>>
<1>1. CASE SlotSteps(w)
  BY <1>1 DEF SlotSteps, Take, LoadWorkflows, RecordWorkflowRun, RecordDeleted, Throw, Die, tableVars,
            Inv, TableType
<1>2. CASE CommitRun(w)
  <2>1. /\ ev[w] \in Events /\ picked[ev[w]] \in Ids \cup {None}
        /\ run' = [run EXCEPT ![ev[w]] = picked[ev[w]]]
        /\ runCount' = [i \in Ids |-> runCount[i] + (IF i = picked[ev[w]] THEN 1 ELSE 0)]
        /\ UNCHANGED <<def, created>>
    BY <1>2 DEF CommitRun, Inv, WorkerType, SlotInv, Running
  <2>2. run' \in [Events -> Ids \cup {None, Null}]
    BY <2>1 DEF Inv, TableType
  <2>3. runCount' \in [Ids -> Nat]
    BY <2>1 DEF Inv, TableType
  <2> QED
    BY <2>1, <2>2, <2>3 DEF Inv, TableType
<1> QED
  BY <1>1, <1>2

(* A slot's step that is not its commit, on its own event. *)
LEMMA SelectedIsRow ==
  ASSUME Inv, NEW w \in Workers, LoadWorkflows(w)
  PROVE  \E i \in Rows \cup {None} : picked' = [picked EXCEPT ![ev[w]] = i]
BY DEF LoadWorkflows, SelectWorkflow, Matching

LEMMA SlotStepKeeps ==
  ASSUME Inv, NEW w \in Workers, SlotSteps(w) \/ CommitRun(w)
  PROVE  WorkerType' /\ SlotInv' /\ PickInv'
<1> USE DEF Inv, WorkerType, SlotInv, PickInv, Running, faultVars
<1>1. ASSUME NEW e \in Events, Take(w, e) PROVE WorkerType' /\ SlotInv' /\ PickInv'
  BY <1>1 DEF Take, tableVars
<1>2. CASE LoadWorkflows(w)
  <2>1. PICK i \in Rows \cup {None} : picked' = [picked EXCEPT ![ev[w]] = i]
    BY <1>2, SelectedIsRow
  <2>2. /\ pc[w] = "load" /\ pc' = [pc EXCEPT ![w] = "record"] /\ ev[w] \in Events
        /\ UNCHANGED <<tableVars, job, attempts, ev, faultVars>>
    BY <1>2 DEF LoadWorkflows
  <2>3. i \in Ids \cup {None} /\ (i # None => i <= created)
    BY DEF Rows, TableType
  <2> QED
    BY <2>1, <2>2, <2>3 DEF tableVars
<1>3. CASE RecordWorkflowRun(w)
  BY <1>3 DEF RecordWorkflowRun, tableVars
<1>4. CASE RecordDeleted(w) \/ Throw(w) \/ Die(w)
  <2> DEFINE e == ev[w]
  <2>1. /\ pc[w] # "idle" /\ pc' = [pc EXCEPT ![w] = "idle"] /\ ev' = [ev EXCEPT ![w] = None]
        /\ picked' = [picked EXCEPT ![e] = None]
        /\ \E s \in {"waiting", "failed"} : job' = [job EXCEPT ![e] = s]
        /\ UNCHANGED tableVars
    BY <1>4 DEF RecordDeleted, Throw, Die, FailAttempt, FreeSlot
  <2>2. e \in Events
    BY <2>1
  <2>3. /\ attempts' \in [Events -> Nat] /\ stalls' \in [Events -> Nat]
        /\ throws' \in [Events -> Nat] /\ faults' \in 0..MaxFaults
    <3>1. CASE RecordDeleted(w)
      BY <2>2, <3>1 DEF RecordDeleted, FailAttempt, faultVars
    <3>2. CASE Throw(w)
      BY <2>2, <3>2 DEF Throw, FailAttempt
    <3>3. CASE Die(w)
      BY <2>2, <3>3 DEF Die
    <3> QED
      BY <1>4, <3>1, <3>2, <3>3
  <2> HIDE DEF e
  <2>4. WorkerType'
    <3>1. job' \in [Events -> {"waiting", "active", "done", "failed"}]
      BY <2>1, <2>2
    <3>2. /\ pc' \in [Workers -> {"idle"} \cup Running] /\ ev' \in [Workers -> Events \cup {None}]
          /\ picked' \in [Events -> Ids \cup {None}]
      BY <2>1, <2>2
    <3> QED
      BY <2>3, <3>1, <3>2
  <2>5. PickInv' /\ SlotInv'
    BY <2>1, <2>2, <2>4 DEF tableVars, e
  <2> QED
    BY <2>4, <2>5
<1>5. CASE CommitRun(w)
  <2>1. /\ pc[w] = "commit" /\ pc' = [pc EXCEPT ![w] = "idle"] /\ ev' = [ev EXCEPT ![w] = None]
        /\ job' = [job EXCEPT ![ev[w]] = "done"] /\ picked' = [picked EXCEPT ![ev[w]] = None]
        /\ run' = [run EXCEPT ![ev[w]] = picked[ev[w]]]
        /\ UNCHANGED <<def, created, attempts, faultVars>> /\ ev[w] \in Events
    BY <1>5 DEF CommitRun, FreeSlot
  <2>2. WorkerType'
    BY <2>1
  <2>3. SlotInv' /\ PickInv'
    BY <2>1, <2>2 DEF TableType
  <2> QED
    BY <2>2, <2>3
<1> QED
  BY <1>1, <1>2, <1>3, <1>4, <1>5 DEF SlotSteps

(* The dashboard leaves a row alone whose count a slot has locked. *)
LEMMA StoreKeeps ==
  ASSUME Inv, StoreStep, UNCHANGED workerVars
  PROVE  SlotInv' /\ PickInv'
<1> USE DEF Inv, SlotInv, PickInv, WorkerType, Running, workerVars, faultVars
<1>1. created <= created' /\ created \in Nat /\ created' \in Nat
  BY StoreEffect DEF TableType
<1>2. \A e \in Events : job[e] # "done" => run'[e] = None
  <2>1. ASSUME NEW i \in Ids, DeleteWorkflow(i) PROVE \A e \in Events : run[e] = None => run'[e] = None
    BY <2>1 DEF DeleteWorkflow, Ids
  <2> QED
    BY <2>1 DEF StoreStep, CreateWorkflow, UpdateWorkflow, tableVars
<1>3. SlotInv'
  BY <1>2
<1>4. ASSUME NEW w \in Workers, pc[w] = "commit", picked[ev[w]] # None
      PROVE  def'[picked[ev[w]]] # None
  <2> DEFINE p == picked[ev[w]]
  <2>1. p \in Ids /\ p <= created /\ def[p] # None /\ RowLocked(p)
    BY <1>4 DEF RowLocked
  <2> HIDE DEF p
  <2>2. ASSUME NEW d, CreateWorkflow(d) PROVE def'[p] # None
    BY <2>1, <2>2 DEF CreateWorkflow, TableType, Ids
  <2>3. ASSUME NEW i, NEW d, UpdateWorkflow(i, d) PROVE def'[p] # None
    BY <2>1, <2>3 DEF UpdateWorkflow, TableType
  <2>4. ASSUME NEW i \in Ids, DeleteWorkflow(i) PROVE def'[p] # None
    BY <2>1, <2>4 DEF DeleteWorkflow, TableType
  <2>5. def'[p] # None
    BY <2>1, <2>2, <2>3, <2>4 DEF StoreStep, tableVars
  <2> QED
    BY <2>5 DEF p
<1>5. PickInv'
  <2>1. \A e \in Events : picked[e] # None => picked[e] <= created'
    BY <1>1 DEF Ids
  <2> QED
    BY <2>1, <1>4
<1> QED
  BY <1>3, <1>5

LEMMA NextSteps ==
  ASSUME [Next]_vars
  PROVE  \/ StoreStep /\ UNCHANGED workerVars
         \/ \E w \in Workers : SlotSteps(w) \/ CommitRun(w)
<1>1. CASE UNCHANGED vars
  BY <1>1 DEF vars, StoreStep
<1> QED
  BY <1>1, DashboardSteps DEF Next, Worker, SlotSteps

LEMMA InitInv == Init => Inv
<1> SUFFICES ASSUME Init PROVE Inv
  OBVIOUS
<1>1. TableType
  BY DEF Init, TableType, Ids
<1>2. WorkerType /\ SlotInv /\ PickInv
  BY DEF Init, WorkerType, SlotInv, PickInv, Running
<1> QED
  BY <1>1, <1>2 DEF Inv

LEMMA InvStep == Inv /\ [Next]_vars => Inv'
<1> SUFFICES ASSUME Inv, [Next]_vars PROVE Inv'
  OBVIOUS
<1>1. CASE StoreStep /\ UNCHANGED workerVars
  BY <1>1, StoreEffect, StoreKeeps DEF Inv, WorkerType, workerVars, faultVars
<1>2. ASSUME NEW w \in Workers, SlotSteps(w) \/ CommitRun(w) PROVE Inv'
  BY <1>2, WorkerEffect, SlotStepKeeps DEF Inv
<1> QED
  BY <1>1, <1>2, NextSteps

(* A workflow that was deleted is never a row again. *)
THEOREM DeletionsAreFinal == Spec => DeletedStaysDeleted
<1>1. Inv /\ [Next]_vars => [\A i \in Deleted : def'[i] = None]_vars
  <2> SUFFICES ASSUME Inv, [Next]_vars PROVE \A i \in Deleted : def'[i] = None
    OBVIOUS
  <2>1. CASE StoreStep
    BY <2>1, StoreEffect DEF Inv
  <2>2. ASSUME NEW w \in Workers, SlotSteps(w) \/ CommitRun(w)
        PROVE  \A i \in Deleted : def'[i] = None
    BY <2>2, WorkerEffect DEF Deleted
  <2> QED
    BY <2>1, <2>2, NextSteps
<1> QED
  BY <1>1, InitInv, InvStep, PTL DEF Spec, DeletedStaysDeleted

-----------------------------------------------------------------------------
(* The counter.  An id that was never a row has no runs. *)
NewRowsInv ==
  \A i \in Ids : i > created => runCount[i] = 0 /\ \A e \in Events : run[e] # i

CountInv == NewRowsInv /\ RunCountMatchesLog

LEMMA StoreCounts ==
  ASSUME Inv, CountInv, StoreStep
  PROVE  CountInv'
<1> USE DEF CountInv, NewRowsInv, Ids
<1>1. ASSUME NEW d, CreateWorkflow(d) PROVE CountInv'
  <2>1. /\ created' = created + 1 /\ created' \in Ids /\ def' = [def EXCEPT ![created'] = d]
        /\ UNCHANGED <<runCount, run>> /\ created \in Nat
    BY <1>1 DEF CreateWorkflow, Inv, TableType
  <2>2. NewRowsInv'
    BY <2>1
  <2>3. runCount[created'] = 0 /\ \A e \in Events : run[e] # created'
    BY <2>1
  <2>4. {e \in Events : run[e] = created'} = {}
    BY <2>3
  <2>5. Cardinality({e \in Events : run[e] = created'}) = 0
    BY <2>4, FS_EmptySet
  <2>6. \A i \in Ids : i # created' => def'[i] = def[i]
    BY <2>1 DEF Inv, TableType
  <2>7. ASSUME NEW i \in Ids, def'[i] # None
        PROVE  runCount[i] = Cardinality({e \in Events : run[e] = i})
    <3>1. CASE i = created'
      BY <2>3, <2>5, <3>1
    <3>2. CASE i # created'
      <4>1. i \in Rows
        BY <2>6, <2>7, <3>2 DEF Rows
      <4> QED
        BY <4>1 DEF RunCountMatchesLog
    <3> QED
      BY <3>1, <3>2
  <2>8. RunCountMatchesLog'
    BY <2>1, <2>7 DEF RunCountMatchesLog, Rows
  <2> QED
    BY <2>2, <2>8
<1>2. ASSUME NEW i, NEW d, UpdateWorkflow(i, d) PROVE CountInv'
  <2>1. UNCHANGED <<created, runCount, run>> /\ \A j \in Ids : def'[j] # None => def[j] # None
    BY <1>2 DEF UpdateWorkflow, Inv, TableType
  <2> QED
    BY <2>1 DEF RunCountMatchesLog, Rows
<1>3. ASSUME NEW i \in Ids, DeleteWorkflow(i) PROVE CountInv'
  <2>1. /\ def' = [def EXCEPT ![i] = None] /\ runCount' = [runCount EXCEPT ![i] = 0]
        /\ run' = [e \in Events |-> IF run[e] = i THEN Null ELSE run[e]] /\ created' = created
    BY <1>3 DEF DeleteWorkflow
  <2>2. NewRowsInv'
    BY <2>1 DEF Inv, TableType
  <2>3. ASSUME NEW j \in Ids, def'[j] # None
        PROVE  runCount'[j] = Cardinality({e \in Events : run'[e] = j})
    <3>1. j # i /\ def[j] # None /\ runCount'[j] = runCount[j]
      BY <2>1, <2>3 DEF Inv, TableType
    <3>2. {e \in Events : run'[e] = j} = {e \in Events : run[e] = j}
      BY <2>1, <3>1
    <3> QED
      BY <3>1, <3>2 DEF RunCountMatchesLog, Rows
  <2> QED
    BY <2>2, <2>3 DEF RunCountMatchesLog, Rows
<1>4. CASE UNCHANGED tableVars
  BY <1>4 DEF tableVars, RunCountMatchesLog, Rows
<1> QED
  BY <1>1, <1>2, <1>3, <1>4 DEF StoreStep

LEMMA CommitCounts ==
  ASSUME Inv, CountInv, NEW w \in Workers, CommitRun(w)
  PROVE  CountInv'
<1> DEFINE e == ev[w]
           p == picked[e]
<1>1. /\ e \in Events /\ p \in Ids \cup {None} /\ run[e] = None
      /\ p # None => p <= created /\ def[p] # None
  BY DEF CommitRun, Inv, WorkerType, SlotInv, PickInv, Running
<1>2. /\ run' = [run EXCEPT ![e] = p]
      /\ runCount' = [i \in Ids |-> runCount[i] + (IF i = p THEN 1 ELSE 0)]
      /\ UNCHANGED <<def, created>>
  BY DEF CommitRun
<1> HIDE DEF p, e
<1>3. NewRowsInv'
  <2>1. \A i \in Ids : i > created => i # p /\ runCount'[i] = runCount[i]
    BY <1>1, <1>2 DEF Inv, TableType, Ids
  <2> QED
    BY <1>1, <1>2, <2>1 DEF CountInv, NewRowsInv, Inv, TableType, Ids
<1>4. ASSUME NEW i \in Rows PROVE runCount'[i] = Cardinality({x \in Events : run'[x] = i})
  <2>1. i \in Ids /\ i # None /\ runCount[i] = Cardinality({x \in Events : run[x] = i})
    BY DEF Rows, Ids, CountInv, RunCountMatchesLog
  <2>2. CASE i = p
    <3>1. {x \in Events : run'[x] = i} = {x \in Events : run[x] = i} \cup {e}
      BY <1>1, <1>2, <2>2 DEF Inv, TableType
    <3>2. e \notin {x \in Events : run[x] = i}
      BY <1>1, <2>1
    <3>3. IsFiniteSet({x \in Events : run[x] = i})
      BY FS_Subset
    <3>4. Cardinality({x \in Events : run'[x] = i}) = Cardinality({x \in Events : run[x] = i}) + 1
      BY <3>1, <3>2, <3>3, FS_AddElement
    <3> QED
      BY <1>2, <2>1, <2>2, <3>4
  <2>3. CASE i # p
    <3>1. {x \in Events : run'[x] = i} = {x \in Events : run[x] = i}
      BY <1>1, <1>2, <2>1, <2>3 DEF Inv, TableType
    <3>2. runCount'[i] = runCount[i]
      BY <1>2, <2>1, <2>3 DEF Inv, TableType
    <3> QED
      BY <2>1, <3>1, <3>2
  <2> QED
    BY <2>2, <2>3
<1>5. RunCountMatchesLog'
  BY <1>2, <1>4 DEF RunCountMatchesLog, Rows
<1> QED
  BY <1>3, <1>5 DEF CountInv

LEMMA CountInit == Init => CountInv
<1> SUFFICES ASSUME Init PROVE CountInv
  OBVIOUS
<1>1. /\ runCount = [i \in Ids |-> 0] /\ run = [e \in Events |-> None]
  BY DEF Init
<1>2. \A i \in Ids : {e \in Events : run[e] = i} = {}
  BY <1>1 DEF Ids
<1>3. \A i \in Ids : Cardinality({e \in Events : run[e] = i}) = 0
  BY <1>2, FS_EmptySet
<1>4. RunCountMatchesLog
  BY <1>1, <1>3 DEF RunCountMatchesLog, Rows
<1>5. NewRowsInv
  BY <1>1, <1>2 DEF NewRowsInv
<1> QED
  BY <1>4, <1>5 DEF CountInv

(* The counter of a workflow is the number of its runs in the log. *)
THEOREM CountersMatchLog == Spec => []RunCountMatchesLog
<1>1. Inv /\ CountInv /\ [Next]_vars => CountInv'
  <2> SUFFICES ASSUME Inv, CountInv, [Next]_vars PROVE CountInv'
    OBVIOUS
  <2>1. ASSUME NEW w \in Workers, SlotSteps(w) PROVE UNCHANGED tableVars
    BY <2>1 DEF SlotSteps, Take, LoadWorkflows, RecordWorkflowRun, RecordDeleted, Throw, Die
  <2>2. CASE UNCHANGED tableVars
    BY <2>2, StoreCounts DEF StoreStep
  <2> QED
    BY <2>1, <2>2, StoreCounts, CommitCounts, NextSteps
<1>2. CountInv => RunCountMatchesLog
  BY DEF CountInv
<1> QED
  BY <1>1, <1>2, CountInit, InitInv, InvStep, PTL DEF Spec

-----------------------------------------------------------------------------
(* Every failed attempt of an event threw or is the deletion of another workflow:
   the one an attempt selects was not deleted before. *)
LostInv ==
  /\ \A e \in Events :
       /\ attempts[e] <= throws[e] + Cardinality(Deleted)
       /\ job[e] = "failed" => attempts[e] >= MaxAttempts \/ stalls[e] > MaxStalled
  /\ \A w \in Workers : pc[w] = "record" =>
       attempts[ev[w]] <= throws[ev[w]] + Cardinality(Deleted \ {picked[ev[w]]})

LEMMA DeletedFinite ==
  ASSUME TableType
  PROVE  /\ IsFiniteSet(Deleted) /\ Cardinality(Deleted) \in Nat
         /\ \A S \in SUBSET Deleted : /\ IsFiniteSet(S) /\ Cardinality(S) \in Nat
                                      /\ Cardinality(S) <= Cardinality(Deleted)
<1>1. IsFiniteSet(1..created) /\ Deleted \subseteq 1..created
  BY FS_Interval DEF TableType, Deleted
<1>2. IsFiniteSet(Deleted)
  BY <1>1, FS_Subset
<1> QED
  BY <1>2, FS_Subset, FS_CardinalityType

LEMMA SubsetCounts ==
  ASSUME NEW T, IsFiniteSet(T), NEW S \in SUBSET T
  PROVE  Cardinality(S) \in Nat /\ Cardinality(T) \in Nat /\ Cardinality(S) <= Cardinality(T)
BY FS_Subset, FS_CardinalityType

LEMMA StoreLost ==
  ASSUME Inv, LostInv, StoreStep, UNCHANGED workerVars
  PROVE  LostInv'
<1>1. Deleted \subseteq Deleted' /\ TableType /\ TableType'
  BY StoreEffect DEF Inv
<1>2. IsFiniteSet(Deleted') /\ Cardinality(Deleted) <= Cardinality(Deleted')
      /\ Cardinality(Deleted) \in Nat /\ Cardinality(Deleted') \in Nat
  <2>1. IsFiniteSet(1..created') /\ Deleted' \subseteq 1..created'
    BY <1>1, FS_Interval DEF TableType, Deleted
  <2>2. IsFiniteSet(Deleted')
    BY <2>1, FS_Subset
  <2> QED
    BY <1>1, <2>2, SubsetCounts
<1>3. ASSUME NEW i
      PROVE  /\ Cardinality(Deleted \ {i}) <= Cardinality(Deleted' \ {i})
             /\ Cardinality(Deleted \ {i}) \in Nat /\ Cardinality(Deleted' \ {i}) \in Nat
  <2>1. Deleted \ {i} \subseteq Deleted' \ {i}
    BY <1>1
  <2>2. IsFiniteSet(Deleted' \ {i})
    BY <1>2, FS_Subset
  <2> QED
    BY <2>1, <2>2, SubsetCounts
<1>4. UNCHANGED <<attempts, job, pc, ev, picked, stalls, throws>>
      /\ attempts \in [Events -> Nat] /\ throws \in [Events -> Nat]
      /\ \A w \in Workers : pc[w] = "record" => ev[w] \in Events
  BY DEF workerVars, faultVars, Inv, WorkerType, SlotInv, Running
<1>5. ASSUME NEW e \in Events
      PROVE  /\ attempts[e] <= throws[e] + Cardinality(Deleted')
             /\ job[e] = "failed" => attempts[e] >= MaxAttempts \/ stalls[e] > MaxStalled
  <2>1. attempts[e] \in Nat /\ throws[e] \in Nat /\ attempts[e] <= throws[e] + Cardinality(Deleted)
    BY <1>4 DEF LostInv
  <2> QED
    BY <1>2, <2>1 DEF LostInv
<1>6. ASSUME NEW w \in Workers, pc[w] = "record"
      PROVE  attempts[ev[w]] <= throws[ev[w]] + Cardinality(Deleted' \ {picked[ev[w]]})
  <2>1. /\ attempts[ev[w]] \in Nat /\ throws[ev[w]] \in Nat
        /\ attempts[ev[w]] <= throws[ev[w]] + Cardinality(Deleted \ {picked[ev[w]]})
    BY <1>4, <1>6 DEF LostInv
  <2> DEFINE p == picked[ev[w]]
  <2>2. /\ Cardinality(Deleted \ {p}) <= Cardinality(Deleted' \ {p})
        /\ Cardinality(Deleted \ {p}) \in Nat /\ Cardinality(Deleted' \ {p}) \in Nat
    BY <1>3
  <2> QED
    BY <2>1, <2>2
<1> QED
  BY <1>4, <1>5, <1>6 DEF LostInv

LEMMA SlotLost ==
  ASSUME Inv, LostInv, NEW w \in Workers, SlotSteps(w) \/ CommitRun(w)
  PROVE  LostInv'
<1>1. UNCHANGED <<def, created>> /\ Deleted' = Deleted /\ TableType
  BY WorkerEffect DEF Deleted, Inv
<1> USE DEF Inv, WorkerType, SlotInv, Running, faultVars
<1>2. ASSUME NEW e \in Events, Take(w, e) PROVE LostInv'
  BY <1>1, <1>2 DEF Take, LostInv
<1>3. CASE LoadWorkflows(w)
  <2>1. PICK i \in Rows \cup {None} : picked' = [picked EXCEPT ![ev[w]] = i]
    BY <1>3, SelectedIsRow
  <2>2. /\ pc[w] = "load" /\ pc' = [pc EXCEPT ![w] = "record"] /\ ev[w] \in Events
        /\ UNCHANGED <<job, attempts, ev, stalls, throws>>
    BY <1>3 DEF LoadWorkflows
  <2>3. i \notin Deleted
    BY DEF Rows, Deleted, Ids, TableType
  <2>4. Deleted \ {i} = Deleted
    BY <2>3
  <2> QED
    BY <1>1, <2>1, <2>2, <2>4 DEF LostInv
<1>4. CASE RecordWorkflowRun(w)
  BY <1>1, <1>4 DEF RecordWorkflowRun, LostInv
<1>5. ASSUME NEW e \in Events, e = ev[w], pc[w] # "idle", FreeSlot(w),
             \A x \in Events : x # e => /\ attempts'[x] = attempts[x] /\ throws'[x] = throws[x]
                                       /\ stalls'[x] = stalls[x] /\ job'[x] = job[x],
             attempts'[e] <= throws'[e] + Cardinality(Deleted),
             job'[e] = "failed" => attempts'[e] >= MaxAttempts \/ stalls'[e] > MaxStalled
      PROVE  LostInv'
  <2>1. /\ pc' = [pc EXCEPT ![w] = "idle"] /\ ev' = [ev EXCEPT ![w] = None]
        /\ picked' = [picked EXCEPT ![e] = None]
    BY <1>5 DEF FreeSlot
  <2>2. \A v \in Workers : v # w /\ pc[v] = "record" => ev[v] # e /\ ev[v] \in Events
    BY <1>5
  <2>3. \A x \in Events :
          /\ attempts'[x] <= throws'[x] + Cardinality(Deleted)
          /\ job'[x] = "failed" => attempts'[x] >= MaxAttempts \/ stalls'[x] > MaxStalled
    BY <1>5 DEF LostInv
  <2>4. ASSUME NEW v \in Workers, pc'[v] = "record"
        PROVE  attempts'[ev'[v]] <= throws'[ev'[v]] + Cardinality(Deleted \ {picked'[ev'[v]]})
    <3>1. v # w /\ pc[v] = "record" /\ ev'[v] = ev[v]
      BY <2>1, <2>4
    <3>2. picked'[ev[v]] = picked[ev[v]] /\ attempts'[ev[v]] = attempts[ev[v]]
          /\ throws'[ev[v]] = throws[ev[v]]
      BY <1>5, <2>1, <2>2, <3>1
    <3> QED
      BY <3>1, <3>2 DEF LostInv
  <2> QED
    BY <1>1, <2>3, <2>4 DEF LostInv
<1>6. CASE RecordDeleted(w)
  <2> DEFINE e == ev[w]
             n == attempts[e]
  <2>1. /\ pc[w] = "record" /\ FreeSlot(w)
        /\ attempts' = [attempts EXCEPT ![e] = n + 1] /\ picked[e] \in Deleted
        /\ job' = [job EXCEPT ![e] = IF n + 1 < MaxAttempts THEN "waiting" ELSE "failed"]
        /\ UNCHANGED <<stalls, throws>> /\ e \in Events /\ n \in Nat /\ throws[e] \in Nat
    BY <1>6 DEF RecordDeleted, FailAttempt
  <2>2. n <= throws[e] + Cardinality(Deleted \ {picked[e]})
    BY <2>1 DEF LostInv
  <2>3. Cardinality(Deleted \ {picked[e]}) = Cardinality(Deleted) - 1
    BY <1>1, <2>1, DeletedFinite, FS_RemoveElement
  <2>4. n + 1 <= throws[e] + Cardinality(Deleted)
    BY <1>1, <2>1, <2>2, <2>3, DeletedFinite
  <2> HIDE DEF n
  <2> QED
    BY <1>5, <2>1, <2>4
<1>7. CASE Throw(w)
  <2> DEFINE e == ev[w]
             n == attempts[e]
  <2>1. /\ pc[w] # "idle" /\ FreeSlot(w)
        /\ attempts' = [attempts EXCEPT ![e] = n + 1]
        /\ job' = [job EXCEPT ![e] = IF n + 1 < MaxAttempts THEN "waiting" ELSE "failed"]
        /\ throws' = [throws EXCEPT ![e] = throws[e] + 1]
        /\ UNCHANGED stalls /\ e \in Events /\ n \in Nat /\ throws[e] \in Nat
    BY <1>7 DEF Throw, FailAttempt
  <2>2. n + 1 <= (throws[e] + 1) + Cardinality(Deleted)
    BY <1>1, <2>1, DeletedFinite DEF LostInv
  <2> HIDE DEF n
  <2> QED
    BY <1>5, <2>1, <2>2
<1>8. CASE Die(w)
  <2> DEFINE e == ev[w]
  <2>1. /\ pc[w] # "idle" /\ FreeSlot(w)
        /\ stalls' = [stalls EXCEPT ![e] = stalls[e] + 1]
        /\ job' = [job EXCEPT ![e] = IF stalls[e] < MaxStalled THEN "waiting" ELSE "failed"]
        /\ UNCHANGED <<attempts, throws>> /\ e \in Events /\ stalls[e] \in Nat
    BY <1>8 DEF Die
  <2>2. job'[e] = "failed" => stalls'[e] > MaxStalled
    BY <2>1
  <2>3. attempts[e] <= throws[e] + Cardinality(Deleted)
    BY <2>1 DEF LostInv
  <2> QED
    BY <1>5, <2>1, <2>2, <2>3
<1>9. CASE CommitRun(w)
  <2> DEFINE e == ev[w]
  <2>1. /\ pc[w] # "idle" /\ FreeSlot(w) /\ job' = [job EXCEPT ![e] = "done"]
        /\ UNCHANGED <<attempts, throws, stalls>> /\ e \in Events
    BY <1>9 DEF CommitRun
  <2>2. attempts[e] <= throws[e] + Cardinality(Deleted)
    BY <2>1 DEF LostInv
  <2> QED
    BY <1>5, <2>1, <2>2
<1> QED
  BY <1>2, <1>3, <1>4, <1>6, <1>7, <1>8, <1>9 DEF SlotSteps

LEMMA LostInit == Init => LostInv
<1> SUFFICES ASSUME Init PROVE LostInv
  OBVIOUS
<1>1. /\ attempts = [e \in Events |-> 0] /\ job = [e \in Events |-> "waiting"]
      /\ throws = [e \in Events |-> 0] /\ pc = [w \in Workers |-> "idle"] /\ Inv
  BY InitInv DEF Init
<1>2. Cardinality(Deleted) \in Nat
  BY <1>1, DeletedFinite DEF Inv
<1> QED
  BY <1>1, <1>2 DEF LostInv

(* An event whose job failed has paid for each of its attempts with an error of
   that attempt or with the deletion of a workflow, no deletion twice, or its
   runs have died more often than the queue forgives. *)
THEOREM LostAttemptsAreAccounted == Spec => []LostAttemptsArePaid
<1>1. Inv /\ LostInv /\ [Next]_vars => LostInv'
  BY StoreLost, SlotLost, NextSteps
<1>2. Inv /\ LostInv => LostAttemptsArePaid
  <2> SUFFICES ASSUME Inv, LostInv, NEW e \in Events, job[e] = "failed"
               PROVE  throws[e] + Cardinality(Deleted) >= MaxAttempts \/ stalls[e] > MaxStalled
    BY DEF LostAttemptsArePaid
  <2>1. attempts[e] \in Nat /\ throws[e] \in Nat /\ Cardinality(Deleted) \in Nat
    BY DeletedFinite DEF Inv, WorkerType
  <2> QED
    BY <2>1 DEF LostInv
<1> QED
  BY <1>1, <1>2, LostInit, InitInv, InvStep, PTL DEF Spec

-----------------------------------------------------------------------------
(* Types.  What the API stored, the page shows or the builder opened is a valid
   definition, and every edge of a canvas ends on it. *)
Definition(d) ==
  d \in [enabled : BOOLEAN, trigger : Triggers, actions : Seq(Actions)] /\ Valid(d)

TablesInv ==
  \A i \in Ids : /\ def[i] # None => Definition(def[i])
                 /\ shown[i] # None => i <= created /\ Definition(shown[i])
CanvasInv == TypedCanvas(canvas) /\ edits \in 0..MaxEdits
AttemptsInv ==
  \A e \in Events : /\ attempts[e] <= MaxAttempts
                    /\ job[e] \in {"waiting", "active"} => attempts[e] < MaxAttempts

TypeInv == TablesInv /\ CanvasInv /\ AttemptsInv

(* Trimming leaves no blank text, and no other text is changed. *)
LEMMA TrimmedType ==
  ASSUME NEW a \in Actions
  PROVE  /\ Trimmed(a) \in Actions /\ Trimmed(a).text # "blank"
         /\ a.text # "blank" => Trimmed(a) = a
BY DEF Trimmed, Actions

(* What the API accepts of a canvas is a definition. *)
LEMMA PayloadType ==
  ASSUME NEW c, TypedCanvas(c), GraphToPayload(c) # None, Valid(GraphToPayload(c))
  PROVE  Definition(GraphToPayload(c))
<1> DEFINE path == Walk(c)
           actions == [k \in DOMAIN path |-> Trimmed(c.blocks[path[k]])]
           texted == {a \in Actions : a.type = "send_message" => a.text # "none"}
<1>1. path \in Seq(BlocksOf(c))
  BY WalkType
<1> HIDE DEF path
<1>2. \A b \in BlocksOf(c) : Trimmed(c.blocks[b]) \in Actions
  BY TrimmedType DEF TypedCanvas, BlocksOf
<1>3. actions \in Seq(Actions)
  BY <1>1, <1>2
<1> HIDE DEF actions
<1>4. PayloadActions(c) = Keep(actions, texted)
  BY DEF PayloadActions, actions, path
<1> HIDE DEF texted
<1>5. PayloadActions(c) \in Seq(Actions)
  <2>1. Keep(actions, texted) \in Seq(Actions \cap texted)
    BY <1>3, KeepType
  <2> QED
    BY <1>4, <2>1
<1>6. /\ c.trigger # None
      /\ GraphToPayload(c) = [enabled |-> c.enabled, trigger |-> c.trigger, actions |-> PayloadActions(c)]
  BY DEF GraphToPayload
<1>7. c.enabled \in BOOLEAN /\ c.trigger \in Triggers
  BY <1>6 DEF TypedCanvas
<1> QED
  BY <1>5, <1>6, <1>7 DEF Definition

(* The chain the builder opens for a definition is a canvas. *)
LEMMA GraphType ==
  ASSUME NEW i \in Ids, Definition(def[i])
  PROVE  TypedCanvas(WorkflowToGraph(i))
<1> DEFINE A == def[i].actions
           c == WorkflowToGraph(i)
           N == Len(A)
<1>1. A \in Seq(Actions) /\ def[i].enabled \in BOOLEAN /\ def[i].trigger \in Triggers
  BY DEF Definition
<1>2. /\ c.id = i /\ c.blocks = A /\ c.trigger = def[i].trigger
      /\ c = [id |-> i, enabled |-> def[i].enabled, trigger |-> def[i].trigger,
              blocks |-> A, edges |-> [k \in DOMAIN A |-> <<k - 1, k>>]]
  BY DEF WorkflowToGraph
<1>3. N \in Nat /\ DOMAIN A = 1..N /\ \A k \in 1..N : A[k] \in Actions
  BY <1>1
<1>4. BlocksOf(c) = 1..N /\ SourcesOf(c) = 0..N
  <2>1. BlocksOf(c) = 1..N
    BY <1>2, <1>3 DEF BlocksOf
  <2>2. c.trigger # None
    BY <1>1, <1>2
  <2> QED
    BY <1>3, <2>1, <2>2 DEF SourcesOf
<1>5. c.edges = [k \in 1..N |-> <<k - 1, k>>]
  BY <1>2, <1>3
<1>6. c.edges \in Seq(Nat \X Nat)
  BY <1>3, <1>5
<1>7. \A k \in DOMAIN c.edges : c.edges[k][1] \in SourcesOf(c) /\ c.edges[k][2] \in BlocksOf(c)
  BY <1>3, <1>4, <1>5
<1>8. A \in Seq(Actions \cup {None}) /\ i \in 0..MaxRows
  BY <1>1 DEF Ids
<1>9. c \in [id : 0..MaxRows, enabled : BOOLEAN, trigger : Triggers \cup {None},
             blocks : Seq(Actions \cup {None}), edges : Seq(Nat \X Nat)]
  <2>1. [k \in DOMAIN A |-> <<k - 1, k>>] \in Seq(Nat \X Nat)
    BY <1>2, <1>6
  <2> QED
    BY <1>1, <1>2, <1>8, <2>1
<1> HIDE DEF c
<1>10. TypedCanvas(c)
  BY <1>7, <1>9 DEF TypedCanvas
<1> QED
  BY <1>10 DEF c

(* What is opened in the builder is saved from it trimmed. *)
LEMMA OpenedPayload ==
  ASSUME NEW i \in Ids, Definition(def[i])
  PROVE  PayloadActions(WorkflowToGraph(i)) =
           Keep([k \in 1..Len(def[i].actions) |-> Trimmed(def[i].actions[k])],
                {a \in Actions : a.type = "send_message" => a.text # "none"})
<1> DEFINE A == def[i].actions
           c == WorkflowToGraph(i)
<1>1. A \in Seq(Actions) /\ Len(A) \in Nat
  BY DEF Definition
<1>2. c.blocks = A /\ c.edges = [k \in DOMAIN A |-> <<k - 1, k>>]
  BY DEF WorkflowToGraph
<1> HIDE DEF c, A
<1>3. Walk(c) = [k \in 1..Len(A) |-> k]
  <2>1. c.edges = Chain(Len(c.blocks)) /\ Len(c.blocks) \in Nat
    BY <1>1, <1>2 DEF Chain
  <2> QED
    BY <1>2, <2>1, ChainWalk
<1>4. [k \in DOMAIN Walk(c) |-> Trimmed(c.blocks[Walk(c)[k]])] = [k \in 1..Len(A) |-> Trimmed(A[k])]
  BY <1>1, <1>2, <1>3
<1> QED
  BY <1>4, Zenon DEF PayloadActions, c, A

(* What is opened in the builder is what is saved from it, unless a text is
   blank: all that is saved is kept of trimmed actions. *)
LEMMA RoundTrip ==
  ASSUME NEW i \in Rows, Definition(def[i])
  PROVE  GraphToPayload(WorkflowToGraph(i)) = def[i]
           <=> \A k \in DOMAIN def[i].actions : def[i].actions[k].text # "blank"
<1> DEFINE A == def[i].actions
           T == [k \in 1..Len(A) |-> Trimmed(A[k])]
           c == WorkflowToGraph(i)
           texted == {a \in Actions : a.type = "send_message" => a.text # "none"}
           worded == {a \in Actions : a.text # "blank"}
<1>1. /\ A \in Seq(Actions) /\ Len(A) \in Nat /\ A # <<>> /\ i \in Ids /\ def[i] # None
      /\ \A k \in 1..Len(A) : A[k].type = "send_message" => A[k].text # "none"
  BY DEF Definition, Valid, Rows
<1>2. PayloadActions(c) = Keep(T, texted)
  BY <1>1, OpenedPayload
<1>3. /\ c.trigger = def[i].trigger /\ c.enabled = def[i].enabled /\ c.trigger # None
      /\ def[i] = [enabled |-> def[i].enabled, trigger |-> def[i].trigger, actions |-> A]
  BY DEF WorkflowToGraph, Definition
<1> HIDE DEF c
<1>4. ASSUME \A k \in DOMAIN A : A[k].text # "blank"
      PROVE  GraphToPayload(c) = def[i]
  <2> HIDE DEF A
  <2>1. \A k \in 1..Len(A) : A[k] \in Actions /\ Trimmed(A[k]) = A[k]
    BY <1>1, <1>4, TrimmedType
  <2>2. T = A
    BY <1>1, <2>1
  <2>3. A \in Seq(texted)
    <3>1. A \in [1..Len(A) -> texted]
      BY <1>1, <2>1
    <3> HIDE DEF texted
    <3> QED
      BY <1>1, <3>1
  <2>4. Keep(A, texted) = A
    <3> HIDE DEF texted
    <3> QED
      BY <2>3, KeepAll
  <2>5. PayloadActions(c) = A
    BY <1>2, <2>2, <2>4, Zenon
  <2> QED
    BY <1>1, <1>3, <2>5 DEF GraphToPayload
<1>5. ASSUME GraphToPayload(c) = def[i]
      PROVE  \A k \in DOMAIN A : A[k].text # "blank"
  <2>1. PayloadActions(c) = A
    <3>1. /\ GraphToPayload(c) # None
          /\ GraphToPayload(c).actions = A
      BY <1>1, <1>5
    <3> HIDE DEF A
    <3> QED
      BY <3>1 DEF GraphToPayload
  <2> HIDE DEF A
  <2>2. T \in Seq(worded)
    <3>1. \A k \in 1..Len(A) : A[k] \in Actions
      BY <1>1
    <3>2. \A k \in 1..Len(A) : Trimmed(A[k]) \in worded
      BY <3>1, TrimmedType
    <3> HIDE DEF worded
    <3> QED
      BY <1>1, <3>2
  <2>3. Keep(T, texted) \in Seq(worded \cap texted)
    <3> HIDE DEF T, worded, texted
    <3> QED
      BY <2>2, KeepType
  <2>4. A \in Seq(worded \cap texted)
    BY <1>2, <2>1, <2>3, Zenon
  <2>5. \A k \in DOMAIN A : A[k] \in worded \cap texted
    <3> HIDE DEF worded, texted
    <3> QED
      BY <2>4
  <2> QED
    BY <2>5
<1> QED
  BY <1>4, <1>5 DEF c

(* The store keeps definitions when it is given one. *)
LEMMA TablesKept ==
  ASSUME Inv, TablesInv
  PROVE  /\ \A d : CreateWorkflow(d) /\ Definition(d) /\ UNCHANGED shown => TablesInv'
         /\ \A i, d : UpdateWorkflow(i, d) /\ Definition(d) /\ UNCHANGED shown => TablesInv'
         /\ \A i : DeleteWorkflow(i) /\ UNCHANGED shown => TablesInv'
         /\ UNCHANGED <<def, created, shown>> => TablesInv'
<1> USE DEF Inv, TableType, TablesInv
<1>1. ASSUME NEW d, CreateWorkflow(d), Definition(d), UNCHANGED shown PROVE TablesInv'
  BY <1>1 DEF CreateWorkflow, Ids
<1>2. ASSUME NEW i, NEW d, UpdateWorkflow(i, d), Definition(d), UNCHANGED shown PROVE TablesInv'
  BY <1>2 DEF UpdateWorkflow
<1>3. ASSUME NEW i, DeleteWorkflow(i), UNCHANGED shown PROVE TablesInv'
  BY <1>3 DEF DeleteWorkflow
<1>4. ASSUME UNCHANGED <<def, created, shown>> PROVE TablesInv'
  BY <1>4
<1> QED
  BY <1>1, <1>2, <1>3, <1>4

LEMMA NewCanvasType == TypedCanvas(NewCanvas)
<1>1. DOMAIN <<>> = {} /\ <<>> \in Seq(Actions \cup {None}) /\ <<>> \in Seq(Nat \X Nat)
  OBVIOUS
<1> QED
  BY <1>1 DEF TypedCanvas, NewCanvas, Triggers

(* The list page and the builder's calls. *)
LEMMA PageTypes ==
  ASSUME Inv, TablesInv, CanvasInv,
         Load \/ OpenNew \/ Save \/ \E i \in Ids : HandleToggle(i) \/ HandleDelete(i) \/ OpenBuilder(i)
  PROVE  TablesInv' /\ CanvasInv'
<1>2. CASE Load
  <2>1. TablesInv'
    BY <1>2 DEF Load, tableVars, TablesInv, Inv, TableType
  <2> QED
    BY <1>2, <2>1 DEF Load, canvasVars, CanvasInv
<1>3. CASE OpenNew
  BY NewCanvasType, <1>3, TablesKept DEF OpenNew, tableVars, CanvasInv
<1>4. CASE Save
  <2> DEFINE d == GraphToPayload(canvas)
  <2>1. Definition(d)
    BY <1>4, PayloadType DEF Save, Accept, CanvasInv
  <2>2. CreateWorkflow(d) \/ UpdateWorkflow(canvas.id, d)
    BY <1>4 DEF Save
  <2>3. UNCHANGED <<shown, edits>> /\ canvas' \in {canvas, NewCanvas}
    BY <1>4 DEF Save
  <2> HIDE DEF d
  <2>4. TablesInv'
    BY <2>1, <2>2, <2>3, TablesKept
  <2> QED
    BY NewCanvasType, <2>3, <2>4 DEF CanvasInv
<1>5. ASSUME NEW i \in Ids, HandleToggle(i) PROVE TablesInv' /\ CanvasInv'
  <2> DEFINE d == [shown[i] EXCEPT !.enabled = ~@]
  <2>1. Definition(d)
    BY <1>5 DEF HandleToggle, TablesInv, Definition, Valid
  <2>2. UpdateWorkflow(i, d) /\ UNCHANGED <<shown, canvas, edits>>
    BY <1>5 DEF HandleToggle, canvasVars
  <2> HIDE DEF d
  <2> QED
    BY <2>1, <2>2, TablesKept DEF CanvasInv
<1>6. ASSUME NEW i \in Ids, HandleDelete(i) PROVE TablesInv' /\ CanvasInv'
  BY <1>6, TablesKept DEF HandleDelete, canvasVars, CanvasInv
<1>7. ASSUME NEW i \in Ids, OpenBuilder(i) PROVE TablesInv' /\ CanvasInv'
  <2> DEFINE gone == [NewCanvas EXCEPT !.id = i, !.trigger = None]
  <2>1. TypedCanvas(gone)
    <3>1. i \in 0..MaxRows
      BY DEF Ids
    <3>2. DOMAIN NewCanvas.edges = {}
      BY DEF NewCanvas
    <3> QED
      BY NewCanvasType, <3>1, <3>2 DEF TypedCanvas
  <2>2. def[i] # None => TypedCanvas(WorkflowToGraph(i))
    BY GraphType DEF TablesInv
  <2>3. /\ UNCHANGED <<tableVars, shown, edits>>
        /\ canvas' = IF def[i] # None THEN WorkflowToGraph(i) ELSE gone
    BY <1>7, Zenon DEF OpenBuilder
  <2> HIDE DEF gone
  <2>4. CanvasInv'
    BY <2>1, <2>2, <2>3 DEF CanvasInv
  <2> QED
    BY <2>3, <2>4, TablesKept DEF tableVars
<1> QED
  BY <1>2, <1>3, <1>4, <1>5, <1>6, <1>7

-----------------------------------------------------------------------------
(* The edits: each leaves a canvas whose edges end on it. *)
LEMMA EditType ==
  ASSUME Inv, TablesInv, CanvasInv, NEW c, TypedCanvas(c), Edit(c)
  PROVE  TablesInv' /\ CanvasInv'
BY TablesKept DEF CanvasInv, Edit, tableVars

(* A new block, a text, the settings: the edges stay as they are. *)
LEMMA AddBlockType ==
  ASSUME Inv, TablesInv, CanvasInv, NEW type \in {"send_message", "ai_reply", "handoff"}, AddBlock(type)
  PROVE  TablesInv' /\ CanvasInv'
<1> DEFINE a == [type |-> type, text |-> "none"]
           c == [canvas EXCEPT !.blocks = Append(canvas.blocks, a)]
<1>1. TypedCanvas(canvas) /\ a \in Actions /\ Edit(c)
  BY DEF CanvasInv, Actions, AddBlock
<1> HIDE DEF a
<1>2. c.blocks = Append(canvas.blocks, a) /\ c.edges = canvas.edges /\ c.trigger = canvas.trigger
  BY <1>1 DEF TypedCanvas
<1>3. c.blocks \in Seq(Actions \cup {None})
  BY <1>1, <1>2 DEF TypedCanvas
<1>4. SourcesOf(canvas) \subseteq SourcesOf(c) /\ BlocksOf(canvas) \subseteq BlocksOf(c)
  BY <1>1, <1>2 DEF TypedCanvas, BlocksOf, SourcesOf
<1>5. TypedCanvas(c)
  BY <1>1, <1>2, <1>3, <1>4 DEF TypedCanvas
<1> QED
  BY <1>1, <1>5, EditType

LEMMA SetTextType ==
  ASSUME Inv, TablesInv, CanvasInv, NEW b \in Blocks,
         NEW text \in {"none", "blank", "words"}, SetText(b, text)
  PROVE  TablesInv' /\ CanvasInv'
<1> DEFINE a == [canvas.blocks[b] EXCEPT !.text = text]
           c == [canvas EXCEPT !.blocks[b].text = text]
<1>1. TypedCanvas(canvas) /\ b \in BlocksOf(canvas) /\ Edit(c)
  BY DEF CanvasInv, Blocks, BlocksOf, SetText
<1>2. a \in Actions /\ a # None
  <2> DEFINE old == canvas.blocks[b]
  <2>1. old \in Actions
    BY <1>1 DEF TypedCanvas, BlocksOf
  <2> HIDE DEF old
  <2>2. [old EXCEPT !.text = text] \in Actions
    BY <2>1 DEF Actions
  <2> QED
    BY <2>2 DEF old
<1>3. /\ c.blocks = [canvas.blocks EXCEPT ![b] = a] /\ c.edges = canvas.edges
      /\ c.trigger = canvas.trigger
  BY <1>1 DEF TypedCanvas
<1>4. c \in [id : 0..MaxRows, enabled : BOOLEAN, trigger : Triggers \cup {None},
            blocks : Seq(Actions \cup {None}), edges : Seq(Nat \X Nat)]
  <2> DEFINE B == [canvas.blocks EXCEPT ![b] = a]
  <2>1. B \in Seq(Actions \cup {None})
    <3> HIDE DEF a
    <3> QED
      BY <1>1, <1>2 DEF TypedCanvas, BlocksOf
  <2>2. c = [canvas EXCEPT !.blocks = B]
    BY Zenon
  <2> HIDE DEF B, a, c
  <2> QED
    BY <1>1, <2>1, <2>2 DEF TypedCanvas
<1> HIDE DEF a, c
<1>5. BlocksOf(c) = BlocksOf(canvas) /\ SourcesOf(c) = SourcesOf(canvas)
  BY <1>1, <1>2, <1>3 DEF TypedCanvas, BlocksOf, SourcesOf
<1>6. TypedCanvas(c)
  BY <1>1, <1>3, <1>4, <1>5 DEF TypedCanvas
<1> QED
  BY <1>1, <1>6, EditType DEF c

LEMMA SettingsType ==
  ASSUME Inv, TablesInv, CanvasInv, ToggleEnabled \/ \E type \in Triggers : SetTrigger(type)
  PROVE  TablesInv' /\ CanvasInv'
<1>1. TypedCanvas(canvas)
  BY DEF CanvasInv
<1>2. CASE ToggleEnabled
  <2> DEFINE c == [canvas EXCEPT !.enabled = ~@]
  <2>1. TypedCanvas(c)
    BY <1>1 DEF TypedCanvas, BlocksOf, SourcesOf
  <2> QED
    BY <1>2, <2>1, EditType DEF ToggleEnabled
<1>3. ASSUME NEW type \in Triggers, SetTrigger(type) PROVE TablesInv' /\ CanvasInv'
  <2> DEFINE c == [canvas EXCEPT !.trigger = type]
  <2>1. TypedCanvas(c)
    BY <1>1, <1>3 DEF TypedCanvas, BlocksOf, SourcesOf, SetTrigger
  <2> QED
    BY <1>3, <2>1, EditType DEF SetTrigger
<1> QED
  BY <1>2, <1>3

(* What is left of the edges: none from or to n, each one there was. *)
LEMMA EdgesWithoutType ==
  ASSUME CanvasInv, NEW n
  PROVE  /\ EdgesWithout(n) \in Seq(Nat \X Nat)
         /\ \A k \in DOMAIN EdgesWithout(n) :
              LET e == EdgesWithout(n)[k]
              IN  /\ e[1] \in SourcesOf(canvas) \ {n} /\ e[2] \in BlocksOf(canvas) \ {n}
<1> DEFINE left == {e \in ToSet(canvas.edges) : e[1] # n /\ e[2] # n}
<1>1. canvas.edges \in Seq(Nat \X Nat)
  BY DEF CanvasInv, TypedCanvas
<1>2. EdgesWithout(n) \in Seq((Nat \X Nat) \cap left)
  <2> HIDE DEF left
  <2>1. Keep(canvas.edges, left) \in Seq((Nat \X Nat) \cap left)
    BY <1>1, KeepType
  <2> QED
    BY <2>1 DEF EdgesWithout, left
<1>3. \A e \in left : e[1] \in SourcesOf(canvas) \ {n} /\ e[2] \in BlocksOf(canvas) \ {n}
  BY DEF CanvasInv, TypedCanvas, ToSet
<1> HIDE DEF left
<1> DEFINE E == EdgesWithout(n)
<1> HIDE DEF E
<1>4. E \in Seq((Nat \X Nat) \cap left) 
  BY <1>2 DEF E
<1>5. E \in Seq(Nat \X Nat) /\ \A k \in DOMAIN E : E[k] \in left
  BY <1>4
<1> QED
  BY <1>3, <1>5 DEF E

(* A deleted block or trigger takes its edges along. *)
LEMMA DeletionsType ==
  ASSUME Inv, TablesInv, CanvasInv, DeleteTrigger \/ \E b \in Blocks : DeleteBlock(b)
  PROVE  TablesInv' /\ CanvasInv'
<1>1. TypedCanvas(canvas) /\ Blocks = BlocksOf(canvas)
  BY DEF CanvasInv, Blocks, BlocksOf
<1>2. CASE DeleteTrigger
  <2> DEFINE c == [canvas EXCEPT !.trigger = None, !.edges = EdgesWithout(0)]
  <2>1. /\ c.edges = EdgesWithout(0) /\ c.trigger = None /\ c.blocks = canvas.blocks
        /\ Edit(c)
    BY <1>1, <1>2 DEF TypedCanvas, DeleteTrigger
  <2>2. c \in [id : 0..MaxRows, enabled : BOOLEAN, trigger : Triggers \cup {None},
              blocks : Seq(Actions \cup {None}), edges : Seq(Nat \X Nat)]
    BY <1>1, EdgesWithoutType DEF TypedCanvas
  <2> HIDE DEF c
  <2>3. SourcesOf(canvas) \ {0} \subseteq SourcesOf(c) /\ BlocksOf(canvas) \subseteq BlocksOf(c)
    BY <1>1, <2>1 DEF SourcesOf, BlocksOf
  <2>4. TypedCanvas(c)
    BY <2>1, <2>2, <2>3, EdgesWithoutType DEF TypedCanvas
  <2> QED
    BY <2>1, <2>4, EditType
<1>3. ASSUME NEW b \in Blocks, DeleteBlock(b) PROVE TablesInv' /\ CanvasInv'
  <2> DEFINE c == [canvas EXCEPT !.blocks[b] = None, !.edges = EdgesWithout(b)]
  <2>1. /\ c.edges = EdgesWithout(b) /\ c.trigger = canvas.trigger
        /\ c.blocks = [canvas.blocks EXCEPT ![b] = None] /\ Edit(c)
    BY <1>1, <1>3 DEF TypedCanvas, DeleteBlock
  <2>2. c \in [id : 0..MaxRows, enabled : BOOLEAN, trigger : Triggers \cup {None},
              blocks : Seq(Actions \cup {None}), edges : Seq(Nat \X Nat)]
    <3> DEFINE B == [canvas.blocks EXCEPT ![b] = None]
    <3>1. B \in Seq(Actions \cup {None})
      BY <1>1 DEF TypedCanvas, BlocksOf
    <3>2. c = [canvas EXCEPT !.blocks = B, !.edges = EdgesWithout(b)]
      BY Zenon
    <3> HIDE DEF B, c
    <3> QED
      BY <1>1, <3>1, <3>2, EdgesWithoutType DEF TypedCanvas
  <2> HIDE DEF c
  <2>3. SourcesOf(canvas) \ {b} \subseteq SourcesOf(c) /\ BlocksOf(canvas) \ {b} \subseteq BlocksOf(c)
    BY <1>1, <2>1 DEF SourcesOf, BlocksOf, TypedCanvas
  <2>4. TypedCanvas(c)
    BY <2>1, <2>2, <2>3, EdgesWithoutType DEF TypedCanvas
  <2> QED
    BY <2>1, <2>4, EditType
<1> QED
  BY <1>2, <1>3

(* RemoveAt leaves elements of the sequence. *)
LEMMA RemoveAtType ==
  ASSUME NEW T, NEW s \in Seq(T), NEW k \in 1..Len(s)
  PROVE  /\ RemoveAt(s, k) \in Seq(T)
         /\ \A m \in DOMAIN RemoveAt(s, k) : \E l \in DOMAIN s : RemoveAt(s, k)[m] = s[l]
<1> DEFINE before == SubSeq(s, 1, k - 1)
           after == SubSeq(s, k + 1, Len(s))
<1>1. /\ before \in Seq(T) /\ Len(before) = k - 1
      /\ \A m \in 1..(k - 1) : before[m] = s[m]
  OBVIOUS
<1>2. /\ after \in Seq(T) /\ Len(after) = Len(s) - k
      /\ \A m \in 1..(Len(s) - k) : after[m] = s[m + k]
  OBVIOUS
<1>3. RemoveAt(s, k) = before \o after
  BY DEF RemoveAt
<1>4. Len(s) \in Nat /\ k \in 1..Len(s) /\ DOMAIN s = 1..Len(s)
  OBVIOUS
<1> HIDE DEF before, after
<1> DEFINE rest == before \o after
<1> HIDE DEF rest
<1>5. /\ rest \in Seq(T) /\ Len(rest) = Len(before) + Len(after)
      /\ \A m \in 1..(Len(before) + Len(after)) :
           rest[m] = IF m <= Len(before) THEN before[m] ELSE after[m - Len(before)]
  <2>1. before \in Seq(T) /\ after \in Seq(T)
    BY <1>1, <1>2
  <2> QED
    BY <2>1, ConcatProperties, Zenon DEF rest
<1>6. Len(rest) = Len(s) - 1 /\ DOMAIN rest = 1..(Len(s) - 1)
  BY <1>1, <1>2, <1>4, <1>5
<1>7. ASSUME NEW m \in 1..(Len(s) - 1) PROVE \E l \in 1..Len(s) : rest[m] = s[l]
  <2> DEFINE B == Len(before)
             A == Len(after)
  <2>0. B = k - 1 /\ B + A = Len(s) - 1 /\ B \in Nat
    BY <1>1, <1>2, <1>4
  <2>3. rest[m] = IF m <= B THEN before[m] ELSE after[m - B]
    BY <1>5, <2>0
  <2> HIDE DEF A, B
  <2>1. CASE m < k
    BY <1>1, <1>4, <2>0, <2>1, <2>3
  <2>2. CASE ~(m < k)
    <3>1. m - (k - 1) \in 1..(Len(s) - k) /\ m + 1 = (m - (k - 1)) + k /\ m + 1 \in 1..Len(s)
      BY <1>4, <2>2
    <3>2. rest[m] = after[m - (k - 1)]
      BY <1>4, <2>0, <2>2, <2>3
    <3> QED
      BY <1>2, <3>1, <3>2
  <2> QED
    BY <2>1, <2>2
<1> QED
  BY <1>3, <1>4, <1>5, <1>6, <1>7 DEF rest

(* Edges are drawn between what is on the canvas. *)
LEMMA EdgesType ==
  ASSUME Inv, TablesInv, CanvasInv,
         \/ \E a \in Sources, b \in Blocks : OnConnect(a, b)
         \/ \E k \in DOMAIN canvas.edges : DeleteEdge(k)
  PROVE  TablesInv' /\ CanvasInv'
<1> DEFINE E == canvas.edges
<1>1. /\ TypedCanvas(canvas) /\ Blocks = BlocksOf(canvas) /\ Sources = SourcesOf(canvas)
      /\ Sources \subseteq Nat /\ Blocks \subseteq Nat /\ E \in Seq(Nat \X Nat)
      /\ \A k \in DOMAIN E : E[k][1] \in Sources /\ E[k][2] \in Blocks
  <2>1. TypedCanvas(canvas) /\ Blocks = BlocksOf(canvas) /\ Sources = SourcesOf(canvas)
    BY DEF CanvasInv, Blocks, BlocksOf, Sources, SourcesOf
  <2>2. Blocks \subseteq Nat
    BY <2>1 DEF BlocksOf, TypedCanvas
  <2>3. Sources \subseteq Nat
    BY <2>1, <2>2 DEF SourcesOf
  <2> QED
    BY <2>1, <2>2, <2>3 DEF TypedCanvas
<1>2. ASSUME NEW edges \in Seq(Nat \X Nat), Edit([canvas EXCEPT !.edges = edges]),
             \A k \in DOMAIN edges : edges[k][1] \in Sources /\ edges[k][2] \in Blocks
      PROVE  TablesInv' /\ CanvasInv'
  <2> DEFINE c == [canvas EXCEPT !.edges = edges]
  <2>1. TypedCanvas(c)
    BY <1>1, <1>2 DEF TypedCanvas, SourcesOf, BlocksOf
  <2> QED
    BY <1>2, <2>1, EditType
<1>3. ASSUME NEW a \in Sources, NEW b \in Blocks, OnConnect(a, b) PROVE TablesInv' /\ CanvasInv'
  <2> DEFINE edges == Append(E, <<a, b>>)
           e == <<a, b>>
  <2>1. e \in Nat \X Nat /\ e[1] \in Sources /\ e[2] \in Blocks
    BY <1>1
  <2>2. /\ edges \in Seq(Nat \X Nat)
        /\ \A k \in DOMAIN edges : edges[k][1] \in Sources /\ edges[k][2] \in Blocks
    <3> HIDE DEF E, e
    <3> QED
      BY <1>1, <2>1
  <2> QED
    BY <1>2, <1>3, <2>1, <2>2 DEF OnConnect
<1>4. ASSUME NEW k \in DOMAIN canvas.edges, DeleteEdge(k) PROVE TablesInv' /\ CanvasInv'
  <2> DEFINE edges == RemoveAt(E, k)
  <2>1. edges \in Seq(Nat \X Nat) /\ \A m \in DOMAIN edges : \E l \in DOMAIN E : edges[m] = E[l]
    <3>1. k \in 1..Len(E)
      BY <1>1
    <3> HIDE DEF E
    <3> QED
      BY <1>1, <3>1, RemoveAtType
  <2>2. \A m \in DOMAIN edges : edges[m][1] \in Sources /\ edges[m][2] \in Blocks
    BY <1>1, <2>1 DEF TypedCanvas
  <2> QED
    BY <1>2, <1>4, <2>1, <2>2 DEF DeleteEdge
<1> QED
  BY <1>3, <1>4

-----------------------------------------------------------------------------
(* An event that is still to be run has an attempt left. *)
LEMMA AttemptsStep ==
  ASSUME Inv, AttemptsInv, [Next]_vars
  PROVE  AttemptsInv'
<1> USE DEF AttemptsInv, Inv, WorkerType, SlotInv, Running
<1>1. CASE StoreStep /\ UNCHANGED workerVars
  BY <1>1 DEF workerVars
<1>2. ASSUME NEW w \in Workers, SlotSteps(w) \/ CommitRun(w) PROVE AttemptsInv'
  <2>1. ASSUME NEW e \in Events, Take(w, e) PROVE AttemptsInv'
    BY <2>1 DEF Take
  <2>2. CASE LoadWorkflows(w) \/ RecordWorkflowRun(w)
    BY <2>2 DEF LoadWorkflows, RecordWorkflowRun
  <2>3. CASE RecordDeleted(w) \/ Throw(w)
    <3>1. /\ attempts' = [attempts EXCEPT ![ev[w]] = @ + 1]
          /\ job' = [job EXCEPT ![ev[w]] =
                      IF attempts[ev[w]] + 1 < MaxAttempts THEN "waiting" ELSE "failed"]
          /\ pc[w] # "idle"
      BY <2>3 DEF RecordDeleted, Throw, FailAttempt
    <3> QED
      BY <3>1
  <2>4. CASE Die(w)
    BY <2>4 DEF Die
  <2>5. CASE CommitRun(w)
    BY <2>5 DEF CommitRun
  <2> QED
    BY <1>2, <2>1, <2>2, <2>3, <2>4, <2>5 DEF SlotSteps
<1> QED
  BY <1>1, <1>2, NextSteps

LEMMA DashboardTypes ==
  ASSUME Inv, TypeInv, Dashboard
  PROVE  TablesInv' /\ CanvasInv'
BY PageTypes, AddBlockType, SetTextType, SettingsType, DeletionsType, EdgesType
   DEF Dashboard, TypeInv

LEMMA TypeStep == Inv /\ TypeInv /\ [Next]_vars => TypeInv'
<1> SUFFICES ASSUME Inv, TypeInv, [Next]_vars PROVE TypeInv'
  OBVIOUS
<1>1. AttemptsInv'
  BY AttemptsStep DEF TypeInv
<1>2. CASE Dashboard
  BY <1>1, <1>2, DashboardTypes DEF TypeInv
<1>3. CASE Worker
  <2>1. PICK w \in Workers : SlotSteps(w) \/ CommitRun(w)
    BY <1>3 DEF Worker, SlotSteps
  <2>2. UNCHANGED <<def, created, shown, canvas, edits>>
    BY <2>1 DEF SlotSteps, Take, LoadWorkflows, RecordWorkflowRun, RecordDeleted, Throw, Die,
                CommitRun, tableVars, canvasVars
  <2> QED
    BY <1>1, <2>2, TablesKept DEF TypeInv, CanvasInv
<1>4. CASE UNCHANGED vars
  <2>1. UNCHANGED <<def, created, shown, canvas, edits>>
    BY <1>4 DEF vars, tableVars, canvasVars
  <2> QED
    BY <1>1, <2>1, TablesKept DEF TypeInv, CanvasInv
<1> QED
  BY <1>2, <1>3, <1>4 DEF Next

LEMMA InitTypes == Init => TypeInv
<1> SUFFICES ASSUME Init PROVE TypeInv
  OBVIOUS
<1>1. TablesInv
  <2>1. \A i \in 1..Len(Initial) : Definition(Initial[i])
    <3> DEFINE D == [enabled : BOOLEAN, trigger : Triggers, actions : Seq(Actions)]
    <3>1. Initial \in Seq(D) /\ \A k \in DOMAIN Initial : Valid(Initial[k])
      BY DEF WorkflowAssumption
    <3> HIDE DEF D
    <3>2. \A k \in 1..Len(Initial) : k \in DOMAIN Initial /\ Initial[k] \in D
      BY <3>1
    <3> QED
      BY <3>1, <3>2 DEF Definition, D
  <2> QED
    BY <2>1 DEF Init, TablesInv, Ids
<1>2. CanvasInv
  <2>1. TypedCanvas(NewCanvas)
    BY NewCanvasType
  <2> QED
    BY <2>1 DEF Init, CanvasInv
<1>3. AttemptsInv
  BY DEF Init, AttemptsInv
<1> QED
  BY <1>1, <1>2, <1>3 DEF TypeInv

LEMMA TypesHold == Inv /\ TypeInv => TypeOK
<1> SUFFICES ASSUME Inv, TypeInv PROVE TypeOK
  OBVIOUS
<1>1. /\ created \in 0..MaxRows
      /\ runCount \in [Ids -> Nat] /\ run \in [Events -> Ids \cup {None, Null}]
      /\ \A i \in Ids : def[i] # None => i <= created
  BY DEF Inv, TableType
<1>2. \A i \in Ids : /\ def[i] # None => Definition(def[i])
                     /\ shown[i] # None => i <= created /\ Definition(shown[i])
  BY DEF TypeInv, TablesInv
<1>3. Blocks = BlocksOf(canvas) /\ Sources = SourcesOf(canvas)
  BY DEF Blocks, Sources, BlocksOf, SourcesOf
<1>4. /\ edits \in 0..MaxEdits
      /\ canvas.id \in 0..MaxRows /\ canvas.trigger \in Triggers \cup {None}
      /\ \A b \in Blocks : canvas.blocks[b] \in Actions
      /\ \A k \in DOMAIN canvas.edges :
           canvas.edges[k][1] \in Sources /\ canvas.edges[k][2] \in Blocks
  BY <1>3 DEF TypeInv, CanvasInv, TypedCanvas, BlocksOf
<1>5. attempts \in [Events -> 0..MaxAttempts]
  BY DEF Inv, WorkerType, TypeInv, AttemptsInv
<1>6. /\ job \in [Events -> {"waiting", "active", "done", "failed"}]
      /\ pc \in [Workers -> {"idle", "load", "record", "commit"}]
      /\ ev \in [Workers -> Events \cup {None}] /\ picked \in [Events -> Ids \cup {None}]
      /\ stalls \in [Events -> Nat] /\ throws \in [Events -> Nat] /\ faults \in 0..MaxFaults
  BY DEF Inv, WorkerType, Running
<1> QED
  BY <1>1, <1>2, <1>4, <1>5, <1>6 DEF TypeOK, Definition

LEMMA AllTyped == Spec => [](Inv /\ TypeInv)
BY InitInv, InitTypes, InvStep, TypeStep, PTL DEF Spec

(* Every row, the list shown and the canvas are well formed, and no event has
   more attempts than its queue gives it. *)
THEOREM TypeCorrect == Spec => []TypeOK
BY AllTyped, TypesHold, PTL

(* Opening a stored workflow in the builder and saving it changes nothing, unless
   one of its texts is blank; then it changes it. *)
THEOREM OpeningKeepsWorkflows == Spec => []BuilderKeepsWorkflows
<1>1. TypeInv => BuilderKeepsWorkflows
  <2> SUFFICES ASSUME TypeInv, NEW i \in Rows PROVE Definition(def[i])
    BY RoundTrip DEF BuilderKeepsWorkflows
  <2> QED
    BY DEF TypeInv, TablesInv, Rows
<1> QED
  BY <1>1, AllTyped, PTL
=============================================================================
