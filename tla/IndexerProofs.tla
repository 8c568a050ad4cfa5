--------------------------- MODULE IndexerProofs -----------------------------
(***************************************************************************)
(* What the cursor has passed is explained, the rows of a signature are    *)
(* complete and are never rewritten, and no writer blanks a column.        *)
(*                                                                         *)
(* The cursor is moved by chains and by the end of a backfill, neither of  *)
(* which looks at what lies below it.  The invariant says why that is safe: *)
(* what a cluster's worker has passed is explained from the listing on, and *)
(* a chain that has come to its end has settled its own signature.         *)
(***************************************************************************)
EXTENDS Indexer, Arithmetic, SequenceTheorems

-----------------------------------------------------------------------------
(* Sequences.                                                              *)

\* f joins the first k of a list of sequences.
Joins(f, seqs, k) ==
    \A i \in 1..k : f[i] = IF i = 1 THEN seqs[i] ELSE f[i - 1] \o seqs[i]

LEMMA JoinerExists ==
    ASSUME NEW n \in Nat, NEW S, NEW seqs \in [1..n -> Seq(S)], NEW k \in 1..n
    PROVE  \E f \in [1..k -> Seq(S)] : Joins(f, seqs, k)
<1> DEFINE Bad == {i \in 1..n : ~ \E f \in [1..i -> Seq(S)] : Joins(f, seqs, i)}
<1>1. SUFFICES ASSUME Bad # {} PROVE FALSE
  OBVIOUS
<1>2. PICK i \in Bad : \A j \in Bad : i <= j
  <2>1. Bad \subseteq Nat
    OBVIOUS
  <2> HIDE DEF Bad
  <2> QED
    BY <1>1, <2>1, LeastElement
<1>3. i \in 1..n /\ ~ \E f \in [1..i -> Seq(S)] : Joins(f, seqs, i)
  OBVIOUS
<1>4. CASE i = 1
  <2> DEFINE f == [j \in 1..1 |-> seqs[1]]
  <2>1. f \in [1..i -> Seq(S)] /\ Joins(f, seqs, i)
    BY <1>4, <1>3 DEF Joins
  <2> QED
    BY <1>3, <2>1
<1>5. CASE i > 1
  <2>1. i - 1 \notin Bad /\ i - 1 \in 1..n
    <3> HIDE DEF Bad
    <3> QED
      BY <1>2, <1>3, <1>5
  <2>2. PICK g \in [1..(i - 1) -> Seq(S)] : Joins(g, seqs, i - 1)
    BY <2>1
  <2> DEFINE f == [j \in 1..i |-> IF j = i THEN g[i - 1] \o seqs[i] ELSE g[j]]
  <2> HIDE DEF Bad
  <2>3. g[i - 1] \in Seq(S) /\ seqs[i] \in Seq(S)
    BY <1>3, <1>5, <2>1
  <2>4. g[i - 1] \o seqs[i] \in Seq(S)
    BY <2>3, ConcatProperties
  <2>5. f \in [1..i -> Seq(S)]
    BY <2>4, <1>3
  <2>6. ASSUME NEW j \in 1..i
        PROVE  f[j] = IF j = 1 THEN seqs[j] ELSE f[j - 1] \o seqs[j]
    <3>1. CASE j = i
      <4>1. f[i] = g[i - 1] \o seqs[i] /\ f[i - 1] = g[i - 1]
        BY <1>3, <1>5
      <4>2. i # 1
        BY <1>5
      <4> HIDE DEF f
      <4> QED
        BY <3>1, <4>1, <4>2
    <3>2. CASE j # i
      <4>1. j \in 1..(i - 1) /\ (j # 1 => j - 1 \in 1..i /\ j - 1 # i)
        BY <1>3, <3>2
      <4>2. f[j] = g[j] /\ (j # 1 => f[j - 1] = g[j - 1])
        BY <3>2, <4>1
      <4>3. g[j] = IF j = 1 THEN seqs[j] ELSE g[j - 1] \o seqs[j]
        BY <2>2, <4>1 DEF Joins
      <4> QED
        BY <4>2, <4>3
    <3> QED
      BY <3>1, <3>2
  <2> HIDE DEF f
  <2>7. Joins(f, seqs, i)
    BY <2>6 DEF Joins
  <2> QED
    BY <1>3, <2>5, <2>7
<1> HIDE DEF Bad
<1> QED
  BY <1>3, <1>4, <1>5

\* FlattenSeq of sequences is a sequence, as long as each of them at least.
LEMMA Flattened ==
    ASSUME NEW n \in Nat, NEW S, NEW seqs \in [1..n -> Seq(S)]
    PROVE  /\ FlattenSeq(seqs) \in Seq(S)
           /\ \A i \in 1..n : Len(seqs[i]) <= Len(FlattenSeq(seqs))
<1>1. seqs \in Seq(Seq(S)) /\ Len(seqs) = n
  OBVIOUS
<1>2. CASE n = 0
  <2>1. FlattenSeq(seqs) = seqs
    BY <1>1, <1>2 DEF FlattenSeq
  <2>2. seqs = << >>
    BY <1>1, <1>2
  <2> QED
    BY <1>2, <2>1, <2>2
<1>3. CASE n > 0
  <2> DEFINE F == CHOOSE f : f = [i \in 1..n |-> IF i = 1 THEN seqs[i] ELSE f[i - 1] \o seqs[i]]
  <2>1. FlattenSeq(seqs) = F[n]
    BY <1>1, <1>3 DEF FlattenSeq
  <2>2. PICK f \in [1..n -> Seq(S)] : Joins(f, seqs, n)
    <3>1. n \in 1..n
      BY <1>3
    <3> QED
      BY <3>1, JoinerExists
  <2>3. f = [i \in 1..n |-> IF i = 1 THEN seqs[i] ELSE f[i - 1] \o seqs[i]]
    BY <2>2 DEF Joins
  <2>4. F = [i \in 1..n |-> IF i = 1 THEN seqs[i] ELSE F[i - 1] \o seqs[i]]
    BY <2>3
  <2> HIDE DEF F
  <2> DEFINE Bad == {i \in 1..n : ~(/\ F[i] \in Seq(S)
                                    /\ \A j \in 1..i : Len(seqs[j]) <= Len(F[i]))}
  <2>5. ASSUME Bad # {} PROVE FALSE
    <3>1. PICK i \in Bad : \A j \in Bad : i <= j
      <4>1. Bad \subseteq Nat
        OBVIOUS
      <4> HIDE DEF Bad
      <4> QED
        BY <2>5, <4>1, LeastElement
    <3>2. i \in 1..n /\ ~(F[i] \in Seq(S) /\ \A j \in 1..i : Len(seqs[j]) <= Len(F[i]))
      OBVIOUS
    <3>3. i # 1
      <4>1. SUFFICES ASSUME i = 1 PROVE FALSE
        OBVIOUS
      <4>2. F[1] = seqs[1] /\ seqs[1] \in Seq(S)
        BY <1>3, <2>4
      <4> QED
        BY <3>2, <4>1, <4>2
    <3>4. i - 1 \in 1..n /\ i - 1 \notin Bad
      <4> HIDE DEF Bad
      <4> QED
        BY <3>1, <3>2, <3>3
    <3>5. F[i - 1] \in Seq(S) /\ \A j \in 1..(i - 1) : Len(seqs[j]) <= Len(F[i - 1])
      BY <3>4
    <3>6. F[i] = F[i - 1] \o seqs[i]
      BY <2>4, <3>2, <3>3
    <3>7. seqs[i] \in Seq(S)
      BY <3>2
    <3>8. /\ F[i] \in Seq(S)
          /\ Len(F[i]) = Len(F[i - 1]) + Len(seqs[i])
      BY <3>5, <3>6, <3>7, ConcatProperties
    <3>9. ASSUME NEW j \in 1..i PROVE Len(seqs[j]) <= Len(F[i])
      <4>1. Len(F[i - 1]) \in Nat /\ Len(seqs[i]) \in Nat
        BY <3>5, <3>7, LenProperties
      <4>2. CASE j = i
        BY <3>8, <4>1, <4>2
      <4>3. CASE j # i
        <5>1. j \in 1..(i - 1) /\ seqs[j] \in Seq(S)
          BY <3>2, <4>3
        <5>2. Len(seqs[j]) \in Nat /\ Len(seqs[j]) <= Len(F[i - 1])
          BY <3>5, <5>1, LenProperties
        <5> QED
          BY <3>8, <4>1, <5>2
      <4> QED
        BY <4>2, <4>3
    <3> QED
      BY <3>2, <3>8, <3>9
  <2>6. n \in 1..n /\ n \notin Bad
    <3> HIDE DEF Bad
    <3> QED
      BY <1>3, <2>5
  <2> QED
    BY <2>1, <2>6
<1> QED
  BY <1>2, <1>3

\* Short lists joined.
LEMMA Pairs ==
    ASSUME NEW a, NEW b
    PROVE  <<a>> \o <<b>> = <<a, b>>
<1> DEFINE S == {a, b}
           u == <<a>>
           v == <<b>>
           w == <<a, b>>
<1>1. u \in Seq(S) /\ v \in Seq(S) /\ w \in Seq(S)
  OBVIOUS
<1>2. Len(u) = 1 /\ Len(v) = 1 /\ Len(w) = 2 /\ u[1] = a /\ v[1] = b /\ w[1] = a /\ w[2] = b
  OBVIOUS
<1> HIDE DEF S, u, v, w
<1>3. u \o v \in Seq(S) /\ Len(u \o v) = 2
      /\ \A i \in 1..2 : (u \o v)[i] = IF i <= 1 THEN u[i] ELSE v[i - 1]
  BY <1>1, <1>2, ConcatProperties
<1>4. \A i \in 1..2 : (u \o v)[i] = w[i]
  <2>1. (u \o v)[1] = w[1] /\ (u \o v)[2] = w[2]
    BY <1>2, <1>3
  <2>2. \A i \in 1..2 : i = 1 \/ i = 2
    OBVIOUS
  <2> QED
    BY <2>1, <2>2, Zenon
<1> QED
  BY <1>1, <1>2, <1>3, <1>4, SeqEqual DEF u, v, w

LEMMA Triples ==
    ASSUME NEW a, NEW b, NEW c
    PROVE  <<a, b>> \o <<c>> = <<a, b, c>>
<1> DEFINE S == {a, b, c}
           u == <<a, b>>
           v == <<c>>
           w == <<a, b, c>>
<1>1. u \in Seq(S) /\ v \in Seq(S) /\ w \in Seq(S)
  OBVIOUS
<1>2. /\ Len(u) = 2 /\ Len(v) = 1 /\ Len(w) = 3 /\ u[1] = a /\ u[2] = b /\ v[1] = c
      /\ w[1] = a /\ w[2] = b /\ w[3] = c
  OBVIOUS
<1> HIDE DEF S, u, v, w
<1>3. u \o v \in Seq(S) /\ Len(u \o v) = 3
      /\ \A i \in 1..3 : (u \o v)[i] = IF i <= 2 THEN u[i] ELSE v[i - 2]
  <2>1. /\ u \o v \in Seq(S) /\ Len(u \o v) = Len(u) + Len(v)
        /\ \A i \in 1..(Len(u) + Len(v)) :
               (u \o v)[i] = IF i <= Len(u) THEN u[i] ELSE v[i - Len(u)]
    BY <1>1, ConcatProperties
  <2>2. Len(u) + Len(v) = 3 /\ Len(u) = 2
    BY <1>2
  <2> QED
    BY <2>1, <2>2
<1>4. \A i \in 1..3 : (u \o v)[i] = w[i]
  <2>1. (u \o v)[1] = w[1] /\ (u \o v)[2] = w[2] /\ (u \o v)[3] = w[3]
    BY <1>2, <1>3
  <2>2. \A i \in 1..3 : i = 1 \/ i = 2 \/ i = 3
    OBVIOUS
  <2> QED
    BY <2>1, <2>2, Zenon
<1> QED
  BY <1>1, <1>2, <1>3, <1>4, SeqEqual DEF u, v, w

-----------------------------------------------------------------------------
(* The rows of a transaction.                                              *)

EventKinds == {EventOf[name] : name \in DOMAIN EventOf}
EventRow == [kind : EventKinds, owner : Owners \cup {Null}]

LEMMA LedgerTyped ==
    ASSUME NEW s \in Sigs
    PROVE  /\ Ledger[s] \in Transaction
           /\ Ledger[s].cluster \in Clusters
           /\ Ledger[s].ixs \in Seq(Instruction)
           /\ DOMAIN Ledger[s].ixs = 1..Len(Ledger[s].ixs)
           /\ Len(Ledger[s].ixs) \in Nat
           /\ \A i \in DOMAIN Ledger[s].ixs : Ledger[s].ixs[i] \in Instruction
           /\ Sigs = 1..Len(Ledger)
           /\ Len(Ledger) \in Nat
<1>1. Ledger \in Seq(Transaction)
  BY LedgerAssumption
<1>2. Ledger[s] \in Transaction /\ Sigs = 1..Len(Ledger) /\ Len(Ledger) \in Nat
  BY <1>1 DEF Sigs
<1>3. Ledger[s].cluster \in Clusters /\ Ledger[s].ixs \in Seq(Instruction)
  BY <1>2 DEF Transaction
<1> DEFINE ixs == Ledger[s].ixs
<1>4. ixs \in Seq(Instruction)
  BY <1>3
<1> HIDE DEF ixs
<1>5. /\ DOMAIN ixs = 1..Len(ixs) /\ Len(ixs) \in Nat
      /\ \A i \in DOMAIN ixs : ixs[i] \in Instruction
  BY <1>4
<1> QED
  BY <1>2, <1>3, <1>5 DEF ixs

\* What ran of a transaction is a sequence of its instructions.
LEMMA RanTyped == ASSUME NEW s \in Sigs PROVE Ran(Ledger[s]) \in Seq(Instruction)
<1> DEFINE t == Ledger[s]
<1>1. t.ixs \in Seq(Instruction) /\ t.fails \in Nat /\ t.fails <= Len(t.ixs)
  BY LedgerTyped, LedgerAssumption DEF Transaction, Sigs
<1> DEFINE ixs == t.ixs
           fails == t.fails
<1>2. ixs \in Seq(Instruction) /\ fails \in Nat /\ fails <= Len(ixs)
  BY <1>1
<1>3. Ran(t) = IF fails # 0 THEN SubSeq(ixs, 1, fails - 1) ELSE ixs
  BY DEF Ran, Failed
<1> HIDE DEF t, ixs, fails
<1>4. ASSUME fails # 0 PROVE SubSeq(ixs, 1, fails - 1) \in Seq(Instruction)
  BY <1>2, <1>4, SubSeqProperties
<1> QED
  BY <1>2, <1>3, <1>4 DEF t

LEMMA EventsTyped == ASSUME NEW ix \in Instruction PROVE EventsOfIx(ix) \in Seq(EventRow)
<1>1. ix.owners \in Seq(Owners)
  BY DEF Instruction
<1>2. \A name \in DOMAIN EventOf : EventOf[name] \in EventKinds
  BY DEF EventKinds
<1> DEFINE n == Len(ix.owners)
           rows == [k \in DOMAIN ix.owners |-> [kind |-> EventOf[ix.name], owner |-> ix.owners[k]]]
<1>3. n \in Nat /\ DOMAIN ix.owners = 1..n /\ \A k \in 1..n : ix.owners[k] \in Owners
  BY <1>1
<1>4. ASSUME ix.name \in DOMAIN EventOf PROVE rows \in Seq(EventRow)
  <2>1. EventOf[ix.name] \in EventKinds
    BY <1>2, <1>4
  <2>2. rows \in [1..n -> EventRow]
    BY <1>3, <2>1 DEF EventRow
  <2> HIDE DEF rows, n
  <2> QED
    BY <1>3, <2>2
<1>5. ASSUME ix.name \in DOMAIN EventOf
      PROVE  <<[kind |-> EventOf[ix.name], owner |-> Null]>> \in Seq(EventRow)
  BY <1>2, <1>5 DEF EventRow
<1>6. << >> \in Seq(EventRow)
  OBVIOUS
<1> HIDE DEF rows, n
<1> QED
  BY <1>4, <1>5, <1>6 DEF EventsOfIx, rows

LEMMA AnchorEventsTyped == ASSUME NEW s \in Sigs PROVE AnchorEvents(Ledger[s]) \in Seq(EventRow)
<1> DEFINE ran == Ran(Ledger[s])
           n == Len(ran)
           lists == [i \in DOMAIN ran |-> EventsOfIx(ran[i])]
<1>1. ran \in Seq(Instruction)
  BY RanTyped
<1>2. AnchorEvents(Ledger[s]) = FlattenSeq(lists)
  BY DEF AnchorEvents
<1> HIDE DEF ran
<1>3. n \in Nat /\ DOMAIN ran = 1..n /\ \A i \in 1..n : ran[i] \in Instruction
  BY <1>1
<1>4. \A i \in 1..n : EventsOfIx(ran[i]) \in Seq(EventRow)
  BY <1>3, EventsTyped
<1>5. lists \in [1..n -> Seq(EventRow)]
  BY <1>3, <1>4
<1> HIDE DEF lists, n
<1> QED
  BY <1>2, <1>3, <1>5, Flattened

LEMMA KindsTyped ==
    ASSUME NEW t, NEW i
    PROVE  \E W : KindsOfIx(t, i) \in Seq(W) /\ Len(KindsOfIx(t, i)) > 0
<1> DEFINE name == t.ixs[i].name
           W == {name, "PlaceBetAttempted", "PlaceBetBlocked"}
           blocked == IF Failed(t) THEN <<"PlaceBetBlocked">> ELSE << >>
           more == IF name # "place_bet" THEN << >> ELSE <<"PlaceBetAttempted">> \o blocked
<1>1. KindsOfIx(t, i) = <<name>> \o more
  BY DEF KindsOfIx
<1>2. <<name>> \in Seq(W) /\ Len(<<name>>) = 1
  OBVIOUS
<1>3. <<"PlaceBetAttempted">> \in Seq(W) /\ blocked \in Seq(W) /\ << >> \in Seq(W)
  <2>1. /\ <<"PlaceBetAttempted">> \in Seq(W) /\ <<"PlaceBetBlocked">> \in Seq(W)
        /\ << >> \in Seq(W)
    OBVIOUS
  <2> HIDE DEF W
  <2> QED
    BY <2>1
<1> HIDE DEF W, name, blocked
<1>4. more \in Seq(W)
  BY <1>3, ConcatProperties
<1> HIDE DEF more
<1>5. <<name>> \o more \in Seq(W) /\ Len(<<name>> \o more) = 1 + Len(more) /\ Len(more) \in Nat
  BY <1>2, <1>4, ConcatProperties, LenProperties
<1> QED
  BY <1>1, <1>5

\* A batch is a sequence, and not an empty one if there is a candidate.
LEMMA BatchTyped ==
    ASSUME NEW s \in Sigs
    PROVE  /\ Len(Batch(Ledger[s])) \in Nat
           /\ DOMAIN Batch(Ledger[s]) = 1..Len(Batch(Ledger[s]))
           /\ s \notin Empty => Len(Batch(Ledger[s])) > 0
<1> DEFINE t == Ledger[s]
           ixs == t.ixs
           n == Len(ixs)
           rows(i) == [k \in DOMAIN KindsOfIx(t, i) |->
                          [ix |-> i, kind |-> KindsOfIx(t, i)[k],
                           carries |-> t.ixs[i].name \in DecisionKinds]]
           lists == [i \in DOMAIN ixs |-> IF i \notin Candidates(t) THEN << >> ELSE rows(i)]
           heard == AnchorEvents(t)
           tail == [k \in DOMAIN heard |->
                       [ix |-> FirstCandidate(t), kind |-> heard[k].kind, carries |-> FALSE]]
           A == UNION {{rows(i)[k] : k \in DOMAIN KindsOfIx(t, i)} : i \in DOMAIN ixs}
           B == {tail[k] : k \in DOMAIN heard}
<1>1. Batch(t) = FlattenSeq(lists) \o tail
  BY DEF Batch
<1>2. n \in Nat /\ DOMAIN ixs = 1..n
  BY LedgerTyped
<1>3. heard \in Seq(EventRow)
  BY AnchorEventsTyped
<1>4. tail \in Seq(B)
  <2> HIDE DEF heard
  <2>1. Len(heard) \in Nat /\ DOMAIN heard = 1..Len(heard)
    BY <1>3
  <2>2. tail \in [1..Len(heard) -> B]
    BY <2>1
  <2> HIDE DEF tail, B
  <2> QED
    BY <2>1, <2>2
<1>5. ASSUME NEW i \in DOMAIN ixs PROVE rows(i) \in Seq(A) /\ Len(rows(i)) > 0
  <2> DEFINE kinds == KindsOfIx(t, i)
  <2>1. PICK W : kinds \in Seq(W) /\ Len(kinds) > 0
    BY KindsTyped
  <2> DEFINE r == rows(i)
  <2>2. \A k \in DOMAIN kinds : r[k] \in A
    OBVIOUS
  <2>3. DOMAIN r = DOMAIN kinds /\ r = [k \in DOMAIN kinds |-> r[k]]
    OBVIOUS
  <2> HIDE DEF kinds, r, A
  <2>4. Len(kinds) \in Nat /\ DOMAIN kinds = 1..Len(kinds)
    BY <2>1
  <2>5. r \in [1..Len(kinds) -> A]
    BY <2>2, <2>3, <2>4
  <2>6. r \in Seq(A) /\ Len(r) = Len(kinds)
    BY <2>4, <2>5
  <2> QED
    BY <2>1, <2>6 DEF r
<1>6. lists \in [1..n -> Seq(A)]
  <2> HIDE DEF A, rows, n
  <2>1. << >> \in Seq(A)
    OBVIOUS
  <2> QED
    BY <1>2, <1>5, <2>1
<1>7. s \notin Empty => \E i \in 1..n : lists[i] = rows(i)
  <2>1. s \notin Empty => \E i \in DOMAIN ixs : i \in Candidates(t)
    BY DEF Empty, Candidates
  <2> QED
    BY <1>2, <2>1
<1> HIDE DEF tail, lists, rows, A, B, heard, n
<1> DEFINE front == FlattenSeq(lists)
<1>8. front \in Seq(A) /\ \A i \in 1..n : Len(lists[i]) <= Len(front)
  BY <1>2, <1>6, Flattened
<1>9. s \notin Empty => Len(front) > 0
  <2>1. ASSUME NEW i \in 1..n, lists[i] = rows(i) PROVE Len(front) > 0
    <3>1. Len(lists[i]) > 0 /\ Len(lists[i]) <= Len(front)
      BY <1>2, <1>5, <1>8, <2>1
    <3>2. Len(lists[i]) \in Nat /\ Len(front) \in Nat
      BY <1>6, <1>8, <2>1, LenProperties
    <3> QED
      BY <3>1, <3>2
  <2> QED
    BY <1>7, <2>1
<1> HIDE DEF front
<1> DEFINE C == A \cup B
<1>10. front \in Seq(C) /\ tail \in Seq(C)
  BY <1>4, <1>8, SeqMonotonic
<1> HIDE DEF C
<1>11. /\ front \o tail \in Seq(C)
       /\ Len(front \o tail) = Len(front) + Len(tail)
       /\ Len(front) \in Nat /\ Len(tail) \in Nat
  BY <1>10, ConcatProperties, LenProperties
<1>12. Batch(t) = front \o tail
  BY <1>1 DEF front
<1> HIDE DEF t
<1> DEFINE b == Batch(t)
<1>13. b \in Seq(C) /\ (s \notin Empty => Len(b) > 0)
  BY <1>9, <1>11, <1>12
<1> HIDE DEF b
<1>14. Len(b) \in Nat /\ DOMAIN b = 1..Len(b)
  BY <1>13
<1> QED
  BY <1>13, <1>14 DEF b, t

\* Rows of one instruction carry different numbers.
LEMMA KeysDiffer ==
    ASSUME NEW b, NEW n \in Nat, DOMAIN b = 1..n, NEW j \in 1..n, NEW k \in 1..n, j < k,
           b[j].ix = b[k].ix
    PROVE  NextSeq(b, j) # NextSeq(b, k)
<1> DEFINE Before(m) == {i \in 1..(m - 1) : b[i].ix = b[m].ix}
<1>1. IsFiniteSet(1..(k - 1))
  BY FS_Interval
<1>2. IsFiniteSet(Before(k))
  BY <1>1, FS_Subset
<1>3. j \in Before(k) /\ j \notin Before(j) /\ Before(j) \subseteq Before(k)
  OBVIOUS
<1>4. IsFiniteSet(Before(k) \ {j}) /\ Cardinality(Before(k) \ {j}) = Cardinality(Before(k)) - 1
  <2> HIDE DEF Before
  <2> QED
    BY <1>2, <1>3, FS_RemoveElement
<1>5. Cardinality(Before(j)) <= Cardinality(Before(k) \ {j})
  <2>1. Before(j) \subseteq Before(k) \ {j}
    BY <1>3
  <2> HIDE DEF Before
  <2> QED
    BY <1>4, <2>1, FS_Subset
<1>6. IsFiniteSet(Before(j))
  <2> HIDE DEF Before
  <2> QED
    BY <1>2, <1>3, FS_Subset
<1>7. Cardinality(Before(j)) \in Nat /\ Cardinality(Before(k)) \in Nat
  BY <1>2, <1>6, FS_CardinalityType
<1>8. NextSeq(b, j) = Cardinality(Before(j)) /\ NextSeq(b, k) = Cardinality(Before(k))
  BY DEF NextSeq
<1> HIDE DEF Before
<1> QED
  BY <1>4, <1>5, <1>7, <1>8

\* The rows of a signature as one chain writes them.
Row(s, card, n) == WithCard(Batches[s], card)[n]
Rows(s, card) == {Row(s, card, n) : n \in DOMAIN Batches[s]}

\* Whatever card they carry, they stand one to a key.
LEMMA RowsTyped ==
    ASSUME NEW s \in Sigs, NEW card
    PROVE  /\ Len(Batches[s]) \in Nat
           /\ DOMAIN Batches[s] = 1..Len(Batches[s])
           /\ DOMAIN WithCard(Batches[s], card) = DOMAIN Batches[s]
           /\ s \notin Empty => Rows(s, card) # {}
<1> DEFINE b == Batch(Ledger[s])
           n == Len(b)
           w == Numbered(b)
<1>1. n \in Nat /\ DOMAIN b = 1..n /\ (s \notin Empty => n > 0)
  BY BatchTyped
<1>2. DOMAIN w = 1..n /\ w = [k \in 1..n |-> w[k]]
  BY <1>1 DEF Numbered
<1>3. Batches[s] = w
  BY DEF Batches
<1>4. DOMAIN WithCard(w, card) = DOMAIN w
  BY DEF WithCard
<1> HIDE DEF b, n, w
<1>5. w \in [1..n -> {w[k] : k \in 1..n}]
  BY <1>2
<1>6. Len(w) = n
  <2> DEFINE S == {w[k] : k \in 1..n}
  <2> HIDE DEF S
  <2>1. w \in [1..n -> S]
    BY <1>5 DEF S
  <2> QED
    BY <1>1, <2>1
<1>7. s \notin Empty => 1 \in DOMAIN w
  BY <1>1, <1>2
<1> QED
  BY <1>1, <1>2, <1>3, <1>4, <1>6, <1>7 DEF Rows

LEMMA RowKeys ==
    ASSUME NEW s \in Sigs, NEW c, NEW d, NEW j \in DOMAIN Batches[s], NEW k \in DOMAIN Batches[s],
           j # k
    PROVE  ~SameKey(Row(s, c, j), Row(s, d, k))
<1> DEFINE b == Batch(Ledger[s])
           n == Len(b)
<1>1. n \in Nat /\ DOMAIN b = 1..n
  BY BatchTyped
<1>2. DOMAIN Batches[s] = DOMAIN b
  BY DEF Batches, Numbered
<1>3. \A i \in DOMAIN b : \A e : /\ Row(s, e, i).ix = b[i].ix
                               /\ Row(s, e, i).seq = NextSeq(b, i)
  BY <1>2 DEF Row, WithCard, Batches, Numbered
<1> HIDE DEF b, n
<1>4. b[j].ix = b[k].ix => NextSeq(b, j) # NextSeq(b, k)
  <2>1. j \in 1..n /\ k \in 1..n
    BY <1>1, <1>2
  <2>2. CASE j < k
    BY <1>1, <2>1, <2>2, KeysDiffer
  <2>3. CASE k < j
    BY <1>1, <2>1, <2>3, KeysDiffer
  <2> QED
    BY <1>1, <2>1, <2>2, <2>3
<1> QED
  BY <1>2, <1>3, <1>4 DEF SameKey

LEMMA SameRowKeys ==
    ASSUME NEW s \in Sigs, NEW c, NEW d, NEW j \in DOMAIN Batches[s]
    PROVE  SameKey(Row(s, c, j), Row(s, d, j))
  BY DEF SameKey, Row, WithCard

\* The first insert writes them all, every later one none.
LEMMA InsertsOnce ==
    ASSUME NEW s \in Sigs, NEW c, NEW d
    PROVE  /\ Insert({}, WithCard(Batches[s], d)) = Rows(s, d)
           /\ Insert(Rows(s, c), WithCard(Batches[s], d)) = Rows(s, c)
<1> DEFINE new == WithCard(Batches[s], d)
           D == DOMAIN Batches[s]
<1>1. DOMAIN new = D /\ D = 1..Len(Batches[s]) /\ Len(Batches[s]) \in Nat
  BY RowsTyped
<1>2. \A k \in D : new[k] = Row(s, d, k)
  BY DEF Row
<1>3. \A j, k \in D : j # k => ~SameKey(new[j], new[k])
  BY <1>2, RowKeys
<1> HIDE DEF new
<1>4. \A k \in D : \A j \in 1..(k - 1) : j \in D /\ j # k
  BY <1>1
<1>5. Rows(s, d) = {new[k] : k \in D}
  BY <1>2 DEF Rows
<1>6. Insert({}, new) = {new[k] : k \in D}
  BY <1>1, <1>3, <1>4 DEF Insert
<1>7. \A k \in D : \E r \in Rows(s, c) : SameKey(r, new[k])
  BY <1>2, SameRowKeys DEF Rows
<1>8. Insert(Rows(s, c), new) = Rows(s, c)
  BY <1>1, <1>7 DEF Insert
<1> QED
  BY <1>5, <1>6, <1>8 DEF new

\* As many as the batch is long.
LEMMA RowsCount ==
    ASSUME NEW s \in Sigs, NEW c
    PROVE  IsFiniteSet(Rows(s, c)) /\ Cardinality(Rows(s, c)) = Len(Batches[s])
<1> DEFINE n == Len(Batches[s])
           f == [k \in 1..n |-> Row(s, c, k)]
<1>1. n \in Nat /\ DOMAIN Batches[s] = 1..n
  BY RowsTyped
<1>2. \A j, k \in 1..n : j # k => Row(s, c, j) # Row(s, c, k)
  <2>1. ASSUME NEW j \in 1..n, NEW k \in 1..n, j # k PROVE Row(s, c, j) # Row(s, c, k)
    <3>1. ~SameKey(Row(s, c, j), Row(s, c, k))
      BY <1>1, <2>1, RowKeys
    <3> QED
      BY <3>1 DEF SameKey
  <2> QED
    BY <2>1
<1>3. Rows(s, c) = {Row(s, c, k) : k \in 1..n}
  BY <1>1 DEF Rows
<1> DEFINE T == Rows(s, c)
<1> HIDE DEF n
<1>4. f \in Bijection(1..n, T)
  BY <1>2, <1>3 DEF Bijection, Injection, Surjection, IsInjective
<1>5. IsFiniteSet(1..n) /\ Cardinality(1..n) = n
  BY <1>1, FS_Interval
<1> HIDE DEF f, T
<1>6. IsFiniteSet(T) /\ Cardinality(T) = Cardinality(1..n)
  <2>1. ExistsBijection(1..n, T)
    BY <1>4 DEF ExistsBijection
  <2> QED
    BY <1>5, <2>1, FS_Bijection
<1> QED
  BY <1>5, <1>6 DEF T, n

-----------------------------------------------------------------------------
(* The patches of a transaction.                                           *)

\* A patch fills columns in and blanks none.
Fills(patch) == \A c \in DOMAIN patch : patch[c] # Null

LEMMA OverFills ==
    ASSUME NEW f, NEW g, Fills(f), Fills(g)
    PROVE  Fills(Over(f, g))
  BY DEF Fills, Over

LEMMA SetsFills == ASSUME NEW columns, NEW value, value # Null PROVE Fills(Sets(columns, value))
  BY DEF Fills, Sets

LEMMA NothingFills == Fills(<< >>)
  BY DEF Fills

LEMMA IxPatchFills ==
    ASSUME NEW ix, NEW sig \in Nat
    PROVE  Fills(IxPatch(ix, sig))
<1> DEFINE A == IF ix.name \in DOMAIN StatusFor THEN Sets({"status"}, StatusFor[ix.name]) ELSE << >>
           B == IF ix.name \in DOMAIN SigColumn THEN Sets({SigColumn[ix.name]}, sig) ELSE << >>
           C == IF ix.name = "create_market" THEN Sets({"open_ts", "close_ts"}, sig) ELSE << >>
<1>1. ix.name \in DOMAIN StatusFor => StatusFor[ix.name] # Null
  BY NullAssumption
<1>2. sig # Null
  BY NullAssumption
<1>3. Fills(A)
  BY <1>1, SetsFills, NothingFills
<1>4. Fills(B)
  BY <1>2, SetsFills, NothingFills
<1>5. Fills(C)
  BY <1>2, SetsFills, NothingFills
<1>6. IxPatch(ix, sig) = Over(A, Over(B, C))
  BY DEF IxPatch
<1> HIDE DEF A, B, C
<1> QED
  BY <1>3, <1>4, <1>5, <1>6, OverFills

LEMMA PatchFills == ASSUME NEW s \in Sigs PROVE Fills(PatchAt[s])
<1> DEFINE t == Ledger[s]
           ixs == t.ixs
           n == Len(ixs)
           naming(c) == {i \in Patching(t) : c \in DOMAIN IxPatch(ixs[i], s)}
<1>1. n \in Nat /\ DOMAIN ixs = 1..n /\ s \in Nat
  BY LedgerTyped
<1>2. PatchAt[s] = [c \in UNION {DOMAIN IxPatch(ixs[i], s) : i \in Patching(t)} |->
                       IxPatch(ixs[Max(naming(c))], s)[c]]
  BY DEF PatchAt, StatusPatch
<1>3. ASSUME NEW c \in UNION {DOMAIN IxPatch(ixs[i], s) : i \in Patching(t)}
      PROVE  IxPatch(ixs[Max(naming(c))], s)[c] # Null
  <2> DEFINE T == naming(c)
  <2>1. T # {} /\ T \subseteq 1..n
    BY <1>1, <1>3 DEF Patching
  <2>2. IsFiniteSet(T)
    <3>1. IsFiniteSet(1..n)
      BY <1>1, FS_Interval
    <3> HIDE DEF T, n
    <3> QED
      BY <2>1, <3>1, FS_Subset
  <2>3. Max(T) \in T
    <3>1. T \subseteq Nat
      BY <1>1, <2>1
    <3> HIDE DEF T
    <3> QED
      BY <2>1, <2>2, <3>1, MaxIsLargest
  <2>4. c \in DOMAIN IxPatch(ixs[Max(T)], s)
    BY <2>3
  <2>5. Fills(IxPatch(ixs[Max(T)], s))
    BY <1>1, IxPatchFills
  <2> QED
    BY <2>4, <2>5 DEF Fills
<1> QED
  BY <1>2, <1>3 DEF Fills

LEMMA PriceFills == ASSUME NEW column, NEW price PROVE Fills(PricePatch(column, price))
  BY SetsFills, NothingFills DEF PricePatch

LEMMA ThroughFills == ASSUME NEW s \in Sigs PROVE Fills(ThroughPatch(s))
<1>1. s \in Nat
  BY LedgerTyped
<1>2. "open" # Null /\ "closed" # Null
  BY NullAssumption DEF StatusFor
<1>3. "set" # Null /\ s # Null
  BY <1>1, NullAssumption
<1> QED
  BY <1>2, <1>3 DEF ThroughPatch, Fills

\* Writing a patch to a row, or to the row of a market that has none.
RowOf(m) == IF m \in DOMAIN markets THEN markets[m] ELSE BlankMarket

LEMMA WritesOneRow ==
    ASSUME NEW m \in Markets, NEW patch, Fills(patch), DOMAIN markets \subseteq Markets,
           \A k \in DOMAIN markets : DOMAIN markets[k] = MarketColumns,
           markets' = Over(Sets({m}, Upsert(RowOf(m), patch)), markets)
    PROVE  /\ DOMAIN markets' = DOMAIN markets \cup {m}
           /\ \A k \in DOMAIN markets' : DOMAIN markets'[k] = MarketColumns
           /\ \A k \in DOMAIN markets : \A c \in MarketColumns :
                  markets[k][c] # Null => markets'[k][c] # Null
<1> DEFINE row == Upsert(RowOf(m), patch)
<1>1. DOMAIN row = MarketColumns
  BY DEF Upsert, RowOf, BlankMarket
<1>2. m \in DOMAIN markets =>
         \A c \in MarketColumns : markets[m][c] # Null => row[c] # Null
  BY DEF Upsert, RowOf, Fills
<1> HIDE DEF row
<1>3. markets' = [k \in {m} \cup DOMAIN markets |-> IF k \in {m} THEN row ELSE markets[k]]
  BY DEF Over, Sets, row
<1>4. DOMAIN markets' = DOMAIN markets \cup {m}
  BY <1>3
<1>5. markets'[m] = row /\ \A k \in DOMAIN markets : k # m => markets'[k] = markets[k]
  BY <1>3
<1> QED
  BY <1>1, <1>2, <1>4, <1>5

\* The market of a transaction is one of the instance's.
LEMMA MarketTyped == ASSUME NEW s \in Sigs PROVE MarketAt[s] \in Markets \cup {Null}
<1> DEFINE t == Ledger[s]
           named == {t.ixs[i].market : i \in Candidates(t)} \ {Null}
<1>1. \A i \in DOMAIN t.ixs : t.ixs[i].market \in Markets \cup {Null}
  BY LedgerTyped DEF Instruction
<1>2. named \subseteq Markets
  BY <1>1 DEF Candidates
<1>3. MarketAt[s] = IF named = {} THEN Null ELSE CHOOSE m \in named : TRUE
  BY DEF MarketAt, MarketOf
<1> HIDE DEF named
<1> QED
  BY <1>2, <1>3

-----------------------------------------------------------------------------
(* The invariant.                                                          *)

\* What a chain may still have to write, in this order.
Lists == {<< >>, <<"fetch">>, <<"cursor">>, <<"agents">>, <<"events">>, <<"events", "agents">>,
          <<"markets", "events">>, <<"markets", "events", "agents">>}
Jobs == [by : {"none", "live", "backfill"}, todo : Lists, price : Prices,
         card : Nat \cup {Null}]

Typed ==
    /\ landed \in 0..Len(Ledger)
    /\ DOMAIN markets \subseteq Markets
    /\ \A m \in DOMAIN markets : DOMAIN markets[m] = MarketColumns
    /\ agents \in [Owners -> SUBSET (AgentColumns \cup {"role"})]
    /\ DOMAIN events = Sigs /\ cursor \in [Clusters -> {0} \cup Sigs]
    /\ phase \in [Clusters -> {"off", "list", "run", "attach", "live", "wait"}]
    /\ queue \in [Clusters -> SUBSET Sigs]
    /\ last \in [Clusters -> {0} \cup Sigs] /\ upTo \in [Clusters -> 0..Len(Ledger)]
    /\ wire \subseteq Sigs /\ excused \subseteq Sigs /\ dropped \subseteq Sigs
    /\ through \subseteq {s \in Sigs : SchedulerPatches(Ledger[s])}
    /\ job \in [Sigs -> Jobs]
    /\ spare \in 0..Disturbances

Place(s) == Ledger[s].cluster

\* A signature that needs nothing more, and one of which this is known or that is
\* still under way.
Settled(s) == Stored(s) \/ Nothing(s) \/ s \in excused \/ s \in dropped
Explained(s) == Settled(s) \/ job[s] # Idle \/ s \in wire

\* Where a chain may run, and what it relies on at each of its calls: the row of
\* the market is written before those of the events, and by its end the chain has
\* settled its signature.
ChainRuns(s) ==
    /\ job[s].by = "none" => job[s] = Idle
    /\ job[s].by # "none" => job[s].todo # << >> /\ s <= landed
    /\ job[s].by = "live" => phase[Place(s)] = "live"
    /\ job[s].by = "backfill" => phase[Place(s)] = "run" /\ s <= upTo[Place(s)]

ChainRelies(s) ==
    /\ At(s, "markets") => s \notin Empty /\ MarketAt[s] # Null
    /\ At(s, "events") => /\ s \notin Empty
                          /\ \/ MarketAt[s] \in DOMAIN markets
                             \/ MarketAt[s] = Null
                             \/ s \in excused
    /\ At(s, "agents") => Settled(s)
    /\ At(s, "cursor") => Settled(s) /\ job[s].by = "live"

Chains == \A s \in Sigs : ChainRuns(s) /\ ChainRelies(s)

\* Where the worker of a cluster is.
Workers ==
    \A c \in Clusters :
        /\ upTo[c] <= landed /\ cursor[c] <= landed
        /\ phase[c] = "run" => /\ last[c] <= upTo[c]
                               /\ \A s \in queue[c] : s <= upTo[c] /\ Place(s) = c
        /\ Cardinality(JobsOf(c)) <= Runners

\* What has been passed is explained: below the cursor; up to the end of the list,
\* unless it waits in the queue; and all there is, once the cluster is live.
Passed(s) ==
    /\ s <= cursor[Place(s)] => Explained(s)
    /\ phase[Place(s)] = "run" /\ s <= upTo[Place(s)] => Explained(s) \/ s \in queue[Place(s)]
    /\ phase[Place(s)] = "attach" /\ s <= upTo[Place(s)] => Explained(s)
    /\ phase[Place(s)] = "live" => Explained(s)
Gaps == \A s \in 1..landed : Passed(s)

\* Notifications come only from a subscription, and a subscription lasts.
Wired == \A s \in wire : s <= landed /\ phase[Place(s)] = "live"

\* The rows of a signature are those of one chain, all of them or none.
Whole == \A s \in Sigs : events[s] = {} \/ \E card : events[s] = Rows(s, card)

IndexerInv == Typed /\ Chains /\ Workers /\ Gaps /\ Wired /\ Whole

LEMMA SigsAreNumbers == Sigs = 1..Len(Ledger) /\ Len(Ledger) \in Nat /\ IsFiniteSet(Sigs)
<1>1. Sigs = 1..Len(Ledger) /\ Len(Ledger) \in Nat
  BY LedgerAssumption DEF Sigs
<1> QED
  BY <1>1, FS_Interval

LEMMA PlaceTyped == ASSUME NEW s \in Sigs PROVE Place(s) \in Clusters
  BY LedgerTyped DEF Place

LEMMA IdleTyped == Idle \in Jobs
  BY DEF Idle, Jobs, Lists, Prices

LEMMA InitInv == Init => IndexerInv
<1> SUFFICES ASSUME Init PROVE IndexerInv
  OBVIOUS
<1> USE SigsAreNumbers
<1>1. Typed
  <2>1. 0 \in 0..Disturbances /\ Disturbances \in 0..Disturbances
    BY SizesAssumption
  <2>2. job \in [Sigs -> Jobs]
    BY IdleTyped DEF Init, NoJobs
  <2>3. markets = << >>
    BY DEF Init
  <2>4. DOMAIN markets = {}
    BY <2>3
  <2>5. \A c \in Clusters : /\ cursor[c] = 0 /\ phase[c] = "off" /\ queue[c] = {}
                            /\ last[c] = 0 /\ upTo[c] = 0
    BY DEF Init, ForEach
  <2> QED
    BY <2>1, <2>2, <2>4, <2>5 DEF Init, ForEach, Typed
<1>2. Chains
  BY DEF Init, NoJobs, Chains, ChainRuns, ChainRelies, At, Idle
<1>3. Workers
  <2>1. ASSUME NEW c \in Clusters
        PROVE  /\ upTo[c] <= landed /\ cursor[c] <= landed /\ phase[c] # "run"
               /\ Cardinality(JobsOf(c)) <= Runners
    <3>1. JobsOf(c) = {}
      BY DEF Init, NoJobs, JobsOf, Idle
    <3> QED
      BY <3>1, FS_EmptySet, SizesAssumption DEF Init, ForEach
  <2> QED
    BY <2>1 DEF Workers
<1>4. Gaps /\ Wired /\ Whole
  BY DEF Init, Gaps, Wired, Whole
<1> QED
  BY <1>1, <1>2, <1>3, <1>4 DEF IndexerInv

LEMMA JobsFinite ==
    ASSUME NEW c \in Clusters
    PROVE  IsFiniteSet(JobsOf(c)) /\ Cardinality(JobsOf(c)) \in Nat
  BY SigsAreNumbers, FS_Subset, FS_CardinalityType DEF JobsOf

LEMMA FewerJobs ==
    ASSUME NEW c \in Clusters, JobsOf(c)' \subseteq JobsOf(c), Cardinality(JobsOf(c)) <= Runners
    PROVE  Cardinality(JobsOf(c)') <= Runners
<1>1. Cardinality(JobsOf(c)') <= Cardinality(JobsOf(c)) /\ Cardinality(JobsOf(c)') \in Nat
  BY JobsFinite, FS_Subset, FS_CardinalityType
<1> QED
  BY <1>1, JobsFinite, SizesAssumption

-----------------------------------------------------------------------------
(* A step of a chain.                                                      *)

LEMMA ListFacts ==
    ASSUME NEW t \in Lists, t # << >>
    PROVE  /\ Head(t) \in {"fetch", "markets", "events", "agents", "cursor"}
           /\ Len(t) # 1 => Tail(t) \in Lists /\ Tail(t) # << >>
           /\ Head(t) = "markets" => Len(t) # 1 /\ Head(Tail(t)) = "events"
           /\ Head(t) = "events" /\ Len(t) # 1 => Head(Tail(t)) = "agents"
           /\ Head(t) = "agents" => Len(t) = 1
<1>1. CASE t \in {<<"fetch">>, <<"cursor">>, <<"agents">>, <<"events">>}
  <2>1. Len(t) = 1 /\ Head(t) \in {"fetch", "cursor", "agents", "events"}
    BY <1>1
  <2> QED
    BY <2>1
<1>2. CASE t = <<"events", "agents">>
  <2>1. Len(t) = 2 /\ Head(t) = "events" /\ Tail(t) = <<"agents">>
    BY <1>2
  <2> QED
    BY <2>1 DEF Lists
<1>3. CASE t = <<"markets", "events">>
  <2>1. Len(t) = 2 /\ Head(t) = "markets" /\ Tail(t) = <<"events">>
    BY <1>3
  <2> QED
    BY <2>1 DEF Lists
<1>4. CASE t = <<"markets", "events", "agents">>
  <2>1. Len(t) = 3 /\ Head(t) = "markets" /\ Tail(t) = <<"events", "agents">>
    BY <1>4
  <2> QED
    BY <2>1 DEF Lists
<1> QED
  BY <1>1, <1>2, <1>3, <1>4 DEF Lists

\* A call of a chain answered: its job moves on, ends or comes to its last call,
\* in a signature that is settled then; all else the worker has stays.
Advances(s) ==
    /\ \/ /\ job[s].by = "backfill" /\ job'[s] = Idle
          /\ last' = [last EXCEPT ![Place(s)] = s] /\ Settled(s)'
       \/ /\ job[s].by # "none" /\ job'[s].by = job[s].by /\ job'[s].todo # << >>
          /\ last' = last /\ ChainRelies(s)'
    /\ DOMAIN job' = DOMAIN job /\ \A r \in Sigs : r # s => job'[r] = job[r]

Grows ==
    /\ UNCHANGED <<cursor, phase, queue, upTo, landed, wire, dropped>>
    /\ excused \subseteq excused' /\ DOMAIN markets \subseteq DOMAIN markets'
    /\ \A r \in Sigs : Stored(r) => Stored(r)'

LEMMA SettledLasts ==
    ASSUME Grows, NEW r \in Sigs, Settled(r)
    PROVE  Settled(r)'
  BY DEF Grows, Settled, Nothing

LEMMA AdvanceKeeps ==
    ASSUME IndexerInv, Grows, NEW s \in Sigs, Advances(s)
    PROVE  Chains' /\ Workers' /\ Gaps' /\ Wired'
<1> USE SigsAreNumbers
<1>0. Typed /\ Chains /\ Workers /\ Gaps /\ Wired
  BY DEF IndexerInv
<1>1. \A r \in Sigs : Settled(r) => Settled(r)'
  BY SettledLasts
<1>2. job[s].by # "none" /\ ChainRuns(s)
  BY <1>0 DEF Advances, Chains
<1>3. ASSUME NEW r \in Sigs PROVE ChainRuns(r)' /\ ChainRelies(r)'
  <2>1. CASE r # s
    <3>1. job'[r] = job[r] /\ ChainRuns(r) /\ ChainRelies(r)
      BY <1>0, <2>1 DEF Advances, Chains
    <3>2. ChainRuns(r)'
      BY <3>1 DEF Grows, ChainRuns, Place
    <3>3. At(r, "markets")' = At(r, "markets") /\ At(r, "events")' = At(r, "events")
          /\ At(r, "agents")' = At(r, "agents") /\ At(r, "cursor")' = At(r, "cursor")
      BY <3>1 DEF At
    <3>4. ChainRelies(r)'
      BY <1>1, <3>1, <3>3 DEF Grows, ChainRelies
    <3> QED
      BY <3>2, <3>4
  <2>2. CASE r = s
    <3>1. CASE job'[s] = Idle
      BY <2>2, <3>1 DEF ChainRuns, ChainRelies, At, Idle
    <3>2. CASE job'[s].by = job[s].by /\ job'[s].todo # << >> /\ ChainRelies(s)'
      BY <1>2, <2>2, <3>2 DEF Grows, ChainRuns, Place
    <3> QED
      BY <3>1, <3>2 DEF Advances
  <2> QED
    BY <2>1, <2>2
<1>4. ASSUME NEW c \in Clusters
      PROVE  /\ upTo'[c] <= landed' /\ cursor'[c] <= landed'
             /\ phase'[c] = "run" => /\ last'[c] <= upTo'[c]
                                     /\ \A r \in queue'[c] : r <= upTo'[c] /\ Place(r) = c
             /\ Cardinality(JobsOf(c)') <= Runners
  <2>1. JobsOf(c)' \subseteq JobsOf(c)
    BY <1>2 DEF JobsOf, Advances, Idle
  <2>2. Cardinality(JobsOf(c)') <= Runners
    BY <1>0, <2>1, FewerJobs DEF Workers
  <2>3. last[c] <= upTo[c] => last'[c] <= upTo'[c]
    <3>1. CASE last' = last
      BY <3>1 DEF Grows
    <3>2. CASE job[s].by = "backfill" /\ last' = [last EXCEPT ![Place(s)] = s]
      BY <1>0, <1>2, <3>2, PlaceTyped DEF Grows, ChainRuns, Typed
    <3> QED
      BY <3>1, <3>2 DEF Advances
  <2> QED
    BY <1>0, <2>2, <2>3 DEF Grows, Workers
<1>5. ASSUME NEW r \in Sigs, Explained(r) PROVE Explained(r)'
  <2>1. CASE r # s
    BY <1>1, <1>5, <2>1 DEF Explained, Advances, Grows
  <2>2. CASE r = s
    <3>1. Settled(s)' \/ job'[s] # Idle
      BY <1>2 DEF Advances, Idle
    <3> QED
      BY <2>2, <3>1 DEF Explained
  <2> QED
    BY <2>1, <2>2
<1>6. ASSUME NEW r \in 1..landed PROVE Passed(r)'
  <2>1. r \in Sigs /\ Passed(r)
    BY <1>0 DEF Gaps, Typed
  <2> QED
    BY <1>5, <2>1 DEF Passed, Grows, Place
<1> QED
  BY <1>0, <1>3, <1>4, <1>6 DEF Chains, Workers, Gaps, Wired, Grows, Place

\* The types of what a chain's step changes of the worker.
Worked == job' \in [Sigs -> Jobs] /\ last' \in [Clusters -> {0} \cup Sigs]

LEMMA JobRuns ==
    ASSUME IndexerInv, NEW s \in Sigs, job[s].todo # << >>
    PROVE  /\ job \in [Sigs -> Jobs] /\ DOMAIN job = Sigs /\ job[s] \in Jobs
           /\ job[s].by \in {"live", "backfill"}
           /\ ChainRuns(s) /\ ChainRelies(s)
<1>1. job \in [Sigs -> Jobs] /\ ChainRuns(s) /\ ChainRelies(s)
  BY DEF IndexerInv, Typed, Chains
<1>2. job[s] \in Jobs
  BY <1>1
<1>3. job[s].by # "none"
  BY <1>1 DEF ChainRuns, Idle
<1> QED
  BY <1>1, <1>2, <1>3 DEF Jobs

LEMMA NewList ==
    ASSUME NEW j \in Jobs, NEW list \in Lists
    PROVE  /\ [j EXCEPT !.todo = list] \in Jobs
           /\ [j EXCEPT !.todo = list].by = j.by
           /\ [j EXCEPT !.todo = list].todo = list
  BY DEF Jobs

LEMMA ReturnedAdvances ==
    ASSUME IndexerInv, NEW s \in Sigs, job[s].todo # << >>, Returned(s), Settled(s)'
    PROVE  Advances(s) /\ Worked
<1>1. /\ job \in [Sigs -> Jobs] /\ DOMAIN job = Sigs /\ job[s] \in Jobs
      /\ job[s].by \in {"live", "backfill"}
  BY JobRuns
<1>2. last \in [Clusters -> {0} \cup Sigs] /\ Place(s) \in Clusters
  BY PlaceTyped DEF IndexerInv, Typed
<1>3. CASE job[s].by = "backfill"
  <2>1. job' = [job EXCEPT ![s] = Idle] /\ last' = [last EXCEPT ![Place(s)] = s]
    BY <1>3 DEF Returned, Place
  <2> QED
    BY <1>1, <1>2, <1>3, <2>1, IdleTyped DEF Advances, Worked
<1>4. CASE job[s].by = "live"
  <2> DEFINE j == [job[s] EXCEPT !.todo = <<"cursor">>]
  <2>1. job' = [job EXCEPT ![s] = j] /\ last' = last
    BY <1>1, <1>4 DEF Returned
  <2>2. <<"cursor">> \in Lists
    BY DEF Lists
  <2>3. j \in Jobs /\ j.by = "live" /\ j.todo = <<"cursor">>
    BY <1>1, <1>4, <2>2, NewList
  <2> HIDE DEF j
  <2>4. job'[s] = j /\ job' \in [Sigs -> Jobs] /\ DOMAIN job' = DOMAIN job
        /\ \A r \in Sigs : r # s => job'[r] = job[r]
    BY <1>1, <2>1, <2>3
  <2>5. job'[s].todo # << >> /\ Head(job'[s].todo) = "cursor"
    BY <2>3, <2>4
  <2>6. ChainRelies(s)'
    BY <2>3, <2>4, <2>5 DEF ChainRelies, At
  <2> QED
    BY <1>2, <1>4, <2>1, <2>3, <2>4, <2>5, <2>6 DEF Advances, Worked
<1> QED
  BY <1>1, <1>3, <1>4

LEMMA WrittenAdvances ==
    ASSUME IndexerInv, NEW s \in Sigs, NEW call \in {"markets", "events", "agents"},
           At(s, call), Written(s),
           call # "markets" => Settled(s)',
           call = "markets" => MarketAt[s] \in DOMAIN markets' \/ s \in excused'
    PROVE  Advances(s) /\ Worked
<1> DEFINE list == job[s].todo
<1>0. list # << >> /\ Head(list) = call
  BY DEF At
<1>1. /\ job \in [Sigs -> Jobs] /\ DOMAIN job = Sigs /\ job[s] \in Jobs
      /\ job[s].by \in {"live", "backfill"} /\ ChainRelies(s)
  BY <1>0, JobRuns
<1>2. list \in Lists
  BY <1>1 DEF Jobs
<1>3. /\ Len(list) # 1 => Tail(list) \in Lists /\ Tail(list) # << >>
      /\ call = "markets" => Len(list) # 1 /\ Head(Tail(list)) = "events"
      /\ call = "events" /\ Len(list) # 1 => Head(Tail(list)) = "agents"
      /\ call = "agents" => Len(list) = 1
  BY <1>0, <1>2, ListFacts
<1>4. CASE Len(list) = 1
  BY <1>0, <1>3, <1>4, ReturnedAdvances DEF Written
<1>5. CASE Len(list) # 1
  <2> DEFINE j == [job[s] EXCEPT !.todo = Tail(list)]
  <2>1. job' = [job EXCEPT ![s] = j] /\ last' = last
    BY <1>1, <1>5 DEF Written
  <2>2. j \in Jobs /\ j.by = job[s].by /\ j.todo = Tail(list)
    BY <1>1, <1>3, <1>5, NewList
  <2> HIDE DEF j
  <2>3. job'[s] = j /\ job' \in [Sigs -> Jobs] /\ DOMAIN job' = DOMAIN job
        /\ \A r \in Sigs : r # s => job'[r] = job[r]
    BY <1>1, <2>1, <2>2
  <2>4. job'[s].todo = Tail(list) /\ job'[s].todo # << >> /\ job'[s].by = job[s].by
    BY <1>3, <1>5, <2>2, <2>3
  <2>5. ChainRelies(s)'
    <3>1. CASE call = "markets"
      <4>1. At(s, "events")' /\ ~At(s, "markets")' /\ ~At(s, "agents")' /\ ~At(s, "cursor")'
        BY <1>3, <2>4, <3>1 DEF At
      <4>2. s \notin Empty
        BY <1>1, <3>1 DEF ChainRelies
      <4> QED
        BY <3>1, <4>1, <4>2 DEF ChainRelies
    <3>2. CASE call = "events"
      <4>1. At(s, "agents")' /\ ~At(s, "markets")' /\ ~At(s, "events")' /\ ~At(s, "cursor")'
        BY <1>3, <1>5, <2>4, <3>2 DEF At
      <4> QED
        BY <3>2, <4>1 DEF ChainRelies
    <3> QED
      BY <1>3, <1>5, <3>1, <3>2
  <2>6. last \in [Clusters -> {0} \cup Sigs]
    BY DEF IndexerInv, Typed
  <2> QED
    BY <1>1, <2>1, <2>3, <2>4, <2>5, <2>6 DEF Advances, Worked
<1> QED
  BY <1>4, <1>5

\* Writes(s) begins with the market's row if there is one.
LEMMA WritesTyped ==
    ASSUME NEW s \in Sigs
    PROVE  /\ Writes(s) \in Lists /\ Writes(s) # << >>
           /\ Head(Writes(s)) = IF MarketAt[s] = Null THEN "events" ELSE "markets"
<1> DEFINE first == IF MarketAt[s] = Null THEN << >> ELSE <<"markets">>
           third == IF DOMAIN GivenAt[s] = {} THEN << >> ELSE <<"agents">>
<1>1. Writes(s) = (first \o <<"events">>) \o third
  BY DEF Writes
<1>2. /\ << >> \o <<"events">> = <<"events">> /\ <<"events">> \o << >> = <<"events">>
      /\ <<"markets", "events">> \o << >> = <<"markets", "events">>
  <2> DEFINE u == <<"events">>
             v == <<"markets", "events">>
             S == {"markets", "events"}
  <2>1. u \in Seq(S) /\ v \in Seq(S)
    OBVIOUS
  <2> HIDE DEF S, u, v
  <2>2. << >> \o u = u /\ u \o << >> = u /\ v \o << >> = v
    BY <2>1, ConcatEmptySeq
  <2> QED
    BY <2>2 DEF u, v
<1>3. /\ <<"markets">> \o <<"events">> = <<"markets", "events">>
      /\ <<"events">> \o <<"agents">> = <<"events", "agents">>
      /\ <<"markets", "events">> \o <<"agents">> = <<"markets", "events", "agents">>
  BY Pairs, Triples
<1>4. Writes(s) = IF MarketAt[s] = Null
                  THEN IF DOMAIN GivenAt[s] = {} THEN <<"events">> ELSE <<"events", "agents">>
                  ELSE IF DOMAIN GivenAt[s] = {} THEN <<"markets", "events">>
                       ELSE <<"markets", "events", "agents">>
  BY <1>1, <1>2, <1>3
<1>5. /\ Head(<<"events">>) = "events" /\ Head(<<"events", "agents">>) = "events"
      /\ Head(<<"markets", "events">>) = "markets"
      /\ Head(<<"markets", "events", "agents">>) = "markets"
  OBVIOUS
<1>6. /\ <<"events">> # << >> /\ <<"events", "agents">> # << >>
      /\ <<"markets", "events">> # << >> /\ <<"markets", "events", "agents">> # << >>
  OBVIOUS
<1> QED
  BY <1>4, <1>5, <1>6 DEF Lists

LEMMA InsertAdds ==
    ASSUME NEW table, NEW new
    PROVE  table \subseteq Insert(table, new)
  BY DEF Insert

LEMMA CardTyped ==
    ASSUME Typed, NEW s \in Sigs, NEW card \in CardsSeen(s)
    PROVE  card \in Nat \cup {Null}
<1>1. IsFiniteSet(Policies \cap 1..landed)
  <2>1. Policies \cap 1..landed \subseteq Sigs
    BY DEF Policies
  <2> QED
    BY <2>1, SigsAreNumbers, FS_Subset
<1>2. Cardinality(Policies \cap 1..landed) \in Nat
  BY <1>1, FS_CardinalityType
<1> QED
  BY <1>2 DEF CardsSeen, PoliciesSeen

LEMMA SpareTyped ==
    ASSUME spare \in 0..Disturbances, Fault \/ spare' = spare
    PROVE  spare' \in 0..Disturbances
  BY SizesAssumption DEF Fault

LEMMA FetchKept ==
    ASSUME IndexerInv, NEW s \in Sigs, Fetch(s)
    PROVE  IndexerInv'
<1>0. Typed /\ Whole /\ job[s].todo # << >>
  BY DEF IndexerInv, Fetch, At
<1>1. /\ job \in [Sigs -> Jobs] /\ DOMAIN job = Sigs /\ job[s] \in Jobs
      /\ job[s].by \in {"live", "backfill"} /\ ChainRuns(s)
  BY <1>0, JobRuns
<1>2. /\ UNCHANGED <<markets, agents, events, cursor, phase, queue, upTo, landed, wire, through>>
  BY DEF Fetch, tables, world
<1>3. excused \subseteq excused' /\ excused' \subseteq Sigs /\ dropped' = dropped
  BY <1>0 DEF Fetch, Excuse, losses, Typed
<1>4. spare' \in 0..Disturbances
  <2>1. Fault \/ spare' = spare
    BY DEF Fetch, Fine, PriceSeen
  <2> QED
    BY <1>0, <2>1, SpareTyped DEF Typed
<1>5. Grows
  BY <1>2, <1>3 DEF Grows, Stored
<1>6. CASE Returned(s) /\ (s \in excused' \/ s \in Empty)
  <2>1. Settled(s)'
    BY <1>6 DEF Settled, Nothing
  <2> QED
    BY <1>0, <1>6, <2>1, ReturnedAdvances, AdvanceKeeps, <1>2, <1>3, <1>4, <1>5
       DEF IndexerInv, Typed, Whole, Worked
<1>7. ASSUME s \notin Empty, UNCHANGED last, NEW price \in Prices, NEW card \in CardsSeen(s),
             job' = [job EXCEPT ![s].todo = Writes(s), ![s].price = price, ![s].card = card]
      PROVE  IndexerInv'
  <2> DEFINE j == [job[s] EXCEPT !.todo = Writes(s), !.price = price, !.card = card]
  <2>1. card \in Nat \cup {Null}
    BY <1>0, <1>7, CardTyped
  <2>2. Writes(s) \in Lists /\ Writes(s) # << >>
        /\ Head(Writes(s)) = IF MarketAt[s] = Null THEN "events" ELSE "markets"
    BY WritesTyped
  <2>3. j \in Jobs /\ j.by = job[s].by /\ j.todo = Writes(s)
    BY <1>1, <1>7, <2>1, <2>2 DEF Jobs
  <2>4. job' = [job EXCEPT ![s] = j]
    BY <1>1, <1>7
  <2> HIDE DEF j
  <2>5. job'[s] = j /\ job' \in [Sigs -> Jobs] /\ DOMAIN job' = DOMAIN job
        /\ \A r \in Sigs : r # s => job'[r] = job[r]
    BY <1>1, <2>3, <2>4
  <2>6. ChainRelies(s)'
    <3>1. /\ ~At(s, "agents")' /\ ~At(s, "cursor")'
          /\ At(s, "markets")' => MarketAt[s] # Null
          /\ At(s, "events")' => MarketAt[s] = Null
      BY <2>2, <2>3, <2>5 DEF At
    <3> QED
      BY <1>7, <3>1 DEF ChainRelies
  <2>7. Advances(s)
    BY <1>1, <1>7, <2>2, <2>3, <2>5, <2>6 DEF Advances
  <2>8. last' \in [Clusters -> {0} \cup Sigs]
    BY <1>0, <1>7 DEF Typed
  <2> QED
    BY <1>0, <2>5, <2>7, <2>8, AdvanceKeeps, <1>2, <1>3, <1>4, <1>5
       DEF IndexerInv, Typed, Whole
<1>8. ASSUME s \notin Empty, UNCHANGED last, NEW price \in Prices, NEW card \in CardsSeen(s),
             job' = [job EXCEPT ![s].todo = Writes(s), ![s].price = price, ![s].card = card]
      PROVE  IndexerInv'
  BY <1>7, <1>8
<1> QED
  BY <1>6, <1>8 DEF Fetch, Excuse

LEMMA MarketPatchKept ==
    ASSUME IndexerInv, NEW s \in Sigs, ApplyMarketPatches(s)
    PROVE  IndexerInv'
<1> DEFINE patch == Over(PricePatch(PriceAt[s], job[s].price), PatchAt[s])
<1>0. Typed /\ Whole /\ Chains /\ At(s, "markets") /\ Written(s)
  BY DEF IndexerInv, ApplyMarketPatches
<1>1. MarketAt[s] \in Markets
  BY <1>0, MarketTyped DEF Chains, ChainRelies
<1>2. UNCHANGED <<agents, events, cursor, phase, queue, upTo, landed, wire, through>>
  BY DEF ApplyMarketPatches, world
<1>3. excused \subseteq excused' /\ excused' \subseteq Sigs /\ dropped' = dropped
  BY <1>0 DEF ApplyMarketPatches, Excuse, losses, Typed
<1>4. spare' \in 0..Disturbances
  <2>1. Fault \/ spare' = spare
    BY DEF ApplyMarketPatches
  <2> QED
    BY <1>0, <2>1, SpareTyped DEF Typed
<1>5. Fills(patch)
  BY PatchFills, PriceFills, OverFills
<1>6. \/ markets' = Over(Sets({MarketAt[s]}, Upsert(RowOf(MarketAt[s]), patch)), markets)
      \/ markets' = markets /\ s \in excused'
  BY DEF ApplyMarketPatches, Excuse, RowOf
<1> HIDE DEF patch
<1>7. /\ DOMAIN markets \subseteq DOMAIN markets' /\ DOMAIN markets' \subseteq Markets
      /\ \A m \in DOMAIN markets' : DOMAIN markets'[m] = MarketColumns
      /\ MarketAt[s] \in DOMAIN markets' \/ s \in excused'
  <2>1. CASE markets' = Over(Sets({MarketAt[s]}, Upsert(RowOf(MarketAt[s]), patch)), markets)
    <3>1. /\ DOMAIN markets' = DOMAIN markets \cup {MarketAt[s]}
          /\ \A m \in DOMAIN markets' : DOMAIN markets'[m] = MarketColumns
      BY <1>0, <1>1, <1>5, <2>1, WritesOneRow DEF Typed
    <3> QED
      BY <1>0, <1>1, <3>1 DEF Typed
  <2>2. CASE markets' = markets /\ s \in excused'
    BY <1>0, <2>2 DEF Typed
  <2> QED
    BY <1>6, <2>1, <2>2
<1>8. Grows
  BY <1>2, <1>3, <1>7 DEF Grows, Stored
<1>9. Advances(s) /\ Worked
  BY <1>0, <1>7, WrittenAdvances
<1> QED
  BY <1>0, <1>2, <1>3, <1>4, <1>7, <1>8, <1>9, AdvanceKeeps DEF IndexerInv, Typed, Whole, Worked

LEMMA InsertKept ==
    ASSUME IndexerInv, NEW s \in Sigs, InsertEvents(s)
    PROVE  IndexerInv' /\ \A r \in Sigs : events[r] \subseteq events'[r]
<1>0. Typed /\ Whole /\ Chains /\ At(s, "events") /\ Written(s)
  BY DEF IndexerInv, InsertEvents
<1>1. UNCHANGED <<markets, agents, cursor, phase, queue, upTo, landed, wire, through>>
  BY DEF InsertEvents, world
<1>2. excused \subseteq excused' /\ excused' \subseteq Sigs /\ dropped' = dropped
  BY <1>0 DEF InsertEvents, Excuse, losses, Typed
<1>3. spare' \in 0..Disturbances
  <2>1. Fault \/ spare' = spare
    BY DEF InsertEvents
  <2> QED
    BY <1>0, <2>1, SpareTyped DEF Typed
<1>4. /\ s \notin Empty
      /\ MarketAt[s] \in DOMAIN markets \/ MarketAt[s] = Null \/ s \in excused
  BY <1>0 DEF Chains, ChainRelies
<1> DEFINE new == WithCard(Batches[s], job[s].card)
<1>5. \/ events' = [events EXCEPT ![s] = Insert(@, new)]
      \/ events' = events /\ s \in excused'
  BY <1>2, <1>4 DEF InsertEvents, Excuse
<1>6. \E card : Insert(events[s], new) = Rows(s, card)
  <2>1. CASE events[s] = {}
    BY <2>1, InsertsOnce
  <2>2. ASSUME NEW card, events[s] = Rows(s, card) PROVE \E c : Insert(events[s], new) = Rows(s, c)
    BY <2>2, InsertsOnce
  <2> QED
    BY <1>0, <2>1, <2>2 DEF Whole
<1>7. \A card : Rows(s, card) # {}
  BY <1>4, RowsTyped
<1>8. events[s] \subseteq Insert(events[s], new)
  BY InsertAdds
<1> HIDE DEF new
<1>9. DOMAIN events = Sigs
  BY <1>0 DEF Typed
<1>10. /\ DOMAIN events' = Sigs /\ \A r \in Sigs : events[r] \subseteq events'[r]
       /\ \A r \in Sigs : r # s => events'[r] = events[r]
       /\ events'[s] = events[s] \/ \E card : events'[s] = Rows(s, card)
       /\ events'[s] # {} \/ s \in excused'
  <2>1. CASE events' = events /\ s \in excused'
    BY <1>9, <2>1
  <2>2. CASE events' = [events EXCEPT ![s] = Insert(@, new)]
    <3>1. events'[s] = Insert(events[s], new)
      BY <1>9, <2>2
    <3>2. DOMAIN events' = Sigs /\ \A r \in Sigs : r # s => events'[r] = events[r]
      BY <1>9, <2>2
    <3> QED
      BY <1>6, <1>7, <1>8, <3>1, <3>2
  <2> QED
    BY <1>5, <2>1, <2>2
<1>11. Whole'
  <2>1. ASSUME NEW r \in Sigs PROVE events'[r] = {} \/ \E card : events'[r] = Rows(r, card)
    <3>1. events[r] = {} \/ \E card : events[r] = Rows(r, card)
      BY <1>0 DEF Whole
    <3> QED
      BY <1>10, <3>1
  <2> QED
    BY <2>1 DEF Whole
<1>12. Grows
  BY <1>1, <1>2, <1>10 DEF Grows, Stored
<1>13. Settled(s)'
  BY <1>10 DEF Settled, Stored
<1>14. Advances(s) /\ Worked
  BY <1>0, <1>13, WrittenAdvances
<1> QED
  BY <1>0, <1>1, <1>2, <1>3, <1>10, <1>11, <1>12, <1>14, AdvanceKeeps DEF IndexerInv, Typed, Worked

LEMMA GivenTyped ==
    ASSUME NEW s \in Sigs, NEW o \in DOMAIN GivenAt[s]
    PROVE  GivenAt[s][o] = Given(Ledger[s], o) /\ GivenAt[s][o] \subseteq AgentColumns
<1>1. \A ix : OwnerPatch(ix) \subseteq AgentColumns
  BY DEF OwnerPatch, AgentColumns
<1>2. \A kind : EventPatch(kind) \subseteq AgentColumns
  BY DEF EventPatch, AgentColumns
<1>3. GivenAt[s][o] = Given(Ledger[s], o)
  BY DEF GivenAt
<1> QED
  BY <1>1, <1>2, <1>3 DEF Given

LEMMA AgentPatchKept ==
    ASSUME IndexerInv, NEW s \in Sigs, ApplyAgentPatches(s)
    PROVE  IndexerInv'
<1>0. Typed /\ Whole /\ Chains /\ At(s, "agents") /\ Written(s)
  BY DEF IndexerInv, ApplyAgentPatches
<1>1. UNCHANGED <<markets, events, cursor, phase, queue, upTo, landed, wire, through, excused, dropped>>
  BY DEF ApplyAgentPatches, world, losses
<1>2. spare' \in 0..Disturbances
  <2>1. Fault \/ spare' = spare
    BY DEF ApplyAgentPatches, Fine
  <2> QED
    BY <1>0, <2>1, SpareTyped DEF Typed
<1>3. agents' \in [Owners -> SUBSET (AgentColumns \cup {"role"})]
  <2>1. agents \in [Owners -> SUBSET (AgentColumns \cup {"role"})]
    BY <1>0 DEF Typed
  <2>2. ASSUME NEW o \in Owners, NEW given, given \subseteq AgentColumns, NEW named
        PROVE  AgentRow(agents[o], given, named) \subseteq AgentColumns \cup {"role"}
    BY <2>1, <2>2 DEF AgentRow
  <2>3. CASE agents' = agents
    BY <2>1, <2>3
  <2>4. CASE agents' = [o \in Owners |-> IF o \in DOMAIN GivenAt[s]
                            THEN AgentRow(agents[o], GivenAt[s][o], NamedAt[s]) ELSE agents[o]]
    BY <2>1, <2>2, <2>4, GivenTyped
  <2> QED
    BY <2>3, <2>4 DEF ApplyAgentPatches
<1>4. Grows
  BY <1>1 DEF Grows, Stored
<1>5. Settled(s)'
  <2>1. Settled(s)
    BY <1>0 DEF Chains, ChainRelies
  <2> QED
    BY <1>4, <2>1, SettledLasts
<1>6. Advances(s) /\ Worked
  BY <1>0, <1>5, WrittenAdvances
<1> QED
  BY <1>0, <1>1, <1>2, <1>3, <1>4, <1>6, AdvanceKeeps DEF IndexerInv, Typed, Whole, Worked

-----------------------------------------------------------------------------
(* Everything else the worker does.                                        *)

\* Nothing of what explains a signature gets lost.
LEMMA ExplainedLasts ==
    ASSUME NEW r \in Sigs, Explained(r), events' = events,
           excused \subseteq excused', dropped \subseteq dropped',
           job[r] # Idle => job'[r] # Idle \/ Settled(r)',
           r \in wire => r \in wire' \/ job'[r] # Idle \/ Settled(r)'
    PROVE  Explained(r)'
  BY DEF Explained, Settled, Stored, Nothing

\* A chain goes on while its cluster stays where it was.
LEMMA ChainLasts ==
    ASSUME NEW r \in Sigs, ChainRuns(r) /\ ChainRelies(r), job'[r] = job[r],
           landed \in Nat, landed' \in Nat, landed <= landed', r \in Nat,
           events' = events, DOMAIN markets \subseteq DOMAIN markets',
           excused \subseteq excused', dropped \subseteq dropped',
           job[r].by = "live" => phase'[Place(r)] = "live",
           job[r].by = "backfill" => /\ phase'[Place(r)] = "run"
                                     /\ upTo'[Place(r)] = upTo[Place(r)]
    PROVE  ChainRuns(r)' /\ ChainRelies(r)'
<1>1. Settled(r) => Settled(r)'
  BY DEF Settled, Stored, Nothing
<1>2. /\ At(r, "markets")' = At(r, "markets") /\ At(r, "events")' = At(r, "events")
      /\ At(r, "agents")' = At(r, "agents") /\ At(r, "cursor")' = At(r, "cursor")
  BY DEF At
<1>3. ChainRelies(r)'
  BY <1>1, <1>2 DEF ChainRelies
<1>4. ChainRuns(r)'
  BY DEF ChainRuns, Place
<1> QED
  BY <1>3, <1>4

LEMMA SaveKept ==
    ASSUME IndexerInv, NEW s \in Sigs, SaveOwnCursor(s)
    PROVE  IndexerInv'
<1> USE SigsAreNumbers
<1> DEFINE c == Place(s)
<1>0. Typed /\ Chains /\ Workers /\ Gaps /\ Wired /\ Whole
  BY DEF IndexerInv
<1>1. /\ UNCHANGED <<markets, agents, events, phase, queue, last, upTo, landed, wire, through,
                     excused, dropped>>
      /\ job' = [job EXCEPT ![s] = Idle] /\ At(s, "cursor")
  BY DEF SaveOwnCursor, world, losses
<1>2. Settled(s) /\ job[s].by = "live" /\ job \in [Sigs -> Jobs] /\ DOMAIN job = Sigs
  BY <1>0, <1>1 DEF Chains, ChainRelies, Typed
<1>3. phase[c] = "live" /\ s <= landed /\ c \in Clusters
  BY <1>0, <1>2, PlaceTyped DEF Chains, ChainRuns
<1>4. spare' \in 0..Disturbances
  <2>1. Fault \/ spare' = spare
    BY DEF SaveOwnCursor, Fine
  <2> QED
    BY <1>0, <2>1, SpareTyped DEF Typed
<1>5. cursor' = cursor \/ cursor' = [cursor EXCEPT ![c] = s]
  BY DEF SaveOwnCursor, Place
<1>6. job'[s] = Idle /\ job' \in [Sigs -> Jobs] /\ \A r \in Sigs : r # s => job'[r] = job[r]
  BY <1>1, <1>2, IdleTyped
<1>7. /\ cursor' \in [Clusters -> {0} \cup Sigs]
      /\ \A d \in Clusters : cursor'[d] = cursor[d] \/ (d = c /\ cursor'[d] = s)
  BY <1>0, <1>3, <1>5 DEF Typed
<1>8. Settled(s)' /\ Typed'
  BY <1>0, <1>1, <1>2, <1>4, <1>6, <1>7 DEF Typed, Settled, Stored, Nothing
<1> HIDE DEF c
<1>9. ASSUME NEW r \in Sigs, Explained(r) PROVE Explained(r)'
  BY <1>1, <1>6, <1>8, <1>9, ExplainedLasts
<1>10. ASSUME NEW r \in Sigs PROVE ChainRuns(r)' /\ ChainRelies(r)'
  <2>1. CASE r = s
    BY <1>6, <2>1 DEF ChainRuns, ChainRelies, At, Idle
  <2>2. CASE r # s
    BY <1>0, <1>1, <1>6, <2>2, ChainLasts DEF Chains, ChainRuns, Typed
  <2> QED
    BY <2>1, <2>2
<1>11. ASSUME NEW d \in Clusters
       PROVE  cursor'[d] <= landed' /\ Cardinality(JobsOf(d)') <= Runners
  <2>1. JobsOf(d)' \subseteq JobsOf(d)
    BY <1>6 DEF JobsOf, Idle
  <2>2. Cardinality(JobsOf(d)') <= Runners
    BY <1>0, <2>1, FewerJobs DEF Workers
  <2> QED
    BY <1>0, <1>1, <1>3, <1>7, <2>2 DEF Workers
<1>12. ASSUME NEW r \in 1..landed PROVE Passed(r)'
  <2>1. r \in Sigs /\ Passed(r) /\ Place(r) \in Clusters
    BY <1>0, PlaceTyped DEF Gaps, Typed
  <2>2. r <= cursor'[Place(r)] => Explained(r)
    BY <1>3, <1>7, <2>1 DEF Passed
  <2> QED
    BY <1>1, <1>9, <2>1, <2>2 DEF Passed, Place
<1> QED
  BY <1>0, <1>1, <1>8, <1>10, <1>11, <1>12
     DEF IndexerInv, Chains, Workers, Gaps, Wired, Whole, Place

LEMMA IngestKept ==
    ASSUME IndexerInv, NEW s \in Sigs, IngestStep(s)
    PROVE  IndexerInv'
  BY FetchKept, MarketPatchKept, InsertKept, AgentPatchKept, SaveKept DEF IngestStep

\* A cluster that the step leaves where it is, and one it moves while no chain
\* of its signatures runs.
Stays(d) ==
    /\ phase'[d] = phase[d] /\ queue'[d] = queue[d] /\ last'[d] = last[d]
    /\ upTo'[d] = upTo[d] /\ cursor'[d] = cursor[d]
Turns(d) ==
    /\ phase[d] # "live" /\ JobsOf(d) = {}
    /\ upTo'[d] <= landed /\ cursor'[d] <= landed
    /\ phase'[d] = "run" => /\ last'[d] <= upTo'[d]
                            /\ \A s \in queue'[d] : s <= upTo'[d] /\ Place(s) = d
    /\ \A s \in 1..landed : Place(s) = d => Passed(s)'

LEMMA TurnKept ==
    ASSUME IndexerInv, Typed', UNCHANGED <<markets, events, job, landed, wire, dropped>>,
           excused \subseteq excused', \A d \in Clusters : Stays(d) \/ Turns(d)
    PROVE  IndexerInv'
<1> USE SigsAreNumbers
<1>0. Typed /\ Chains /\ Workers /\ Gaps /\ Wired /\ Whole
  BY DEF IndexerInv
<1>1. \A r \in Sigs : Explained(r) => Explained(r)'
  BY ExplainedLasts
<1>2. ASSUME NEW r \in Sigs PROVE ChainRuns(r)' /\ ChainRelies(r)'
  <2>1. Place(r) \in Clusters /\ ChainRuns(r) /\ ChainRelies(r)
    BY <1>0, PlaceTyped DEF Chains
  <2>2. CASE Stays(Place(r))
    <3>1. /\ job[r].by = "live" => phase'[Place(r)] = "live"
          /\ job[r].by = "backfill" => /\ phase'[Place(r)] = "run"
                                       /\ upTo'[Place(r)] = upTo[Place(r)]
      BY <2>1, <2>2 DEF Stays, ChainRuns
    <3>2. landed \in Nat /\ r \in Nat
      BY <1>0 DEF Typed
    <3> QED
      BY <2>1, <3>1, <3>2, ChainLasts
  <2>3. CASE Turns(Place(r))
    <3>1. job[r].by # "live" /\ job[r].by # "backfill"
      BY <2>1, <2>3 DEF Turns, ChainRuns, JobsOf, Place
    <3> QED
      BY <1>0, <2>1, <3>1, ChainLasts DEF Typed
  <2> QED
    BY <2>1, <2>2, <2>3
<1>3. ASSUME NEW d \in Clusters
      PROVE  /\ upTo'[d] <= landed' /\ cursor'[d] <= landed'
             /\ phase'[d] = "run" => /\ last'[d] <= upTo'[d]
                                     /\ \A s \in queue'[d] : s <= upTo'[d] /\ Place(s) = d
             /\ Cardinality(JobsOf(d)') <= Runners
  <2>1. JobsOf(d)' = JobsOf(d)
    BY DEF JobsOf
  <2> QED
    BY <1>0, <2>1 DEF Workers, Stays, Turns
<1>4. ASSUME NEW r \in 1..landed PROVE Passed(r)'
  <2>1. r \in Sigs /\ Place(r) \in Clusters /\ Passed(r)
    BY <1>0, PlaceTyped DEF Typed, Gaps
  <2>2. CASE Stays(Place(r))
    BY <1>1, <2>1, <2>2 DEF Stays, Passed, Place
  <2>3. CASE Turns(Place(r))
    BY <2>3 DEF Turns
  <2> QED
    BY <2>1, <2>2, <2>3
<1>5. ASSUME NEW r \in wire PROVE r <= landed /\ phase'[Place(r)] = "live"
  <2>1. r \in Sigs /\ Place(r) \in Clusters /\ r <= landed /\ phase[Place(r)] = "live"
    BY <1>0, PlaceTyped DEF Typed, Wired
  <2> QED
    BY <2>1 DEF Stays, Turns
<1> QED
  BY <1>0, <1>2, <1>3, <1>4, <1>5 DEF IndexerInv, Chains, Workers, Gaps, Wired, Whole, Place

\* Chains of a backfill run only while it does.
LEMMA NoRunNoJobs ==
    ASSUME IndexerInv, NEW c \in Clusters, phase[c] # "run"
    PROVE  JobsOf(c) = {}
  BY DEF IndexerInv, Chains, ChainRuns, JobsOf, Place

\* A cluster that neither drains a list nor listens owes only what is below its
\* cursor.
LEMMA RestsPassed ==
    ASSUME Typed, Gaps, UNCHANGED <<cursor, landed>>, NEW d \in Clusters,
           phase'[d] \in {"off", "list", "wait"},
           \A r \in Sigs : Explained(r) => Explained(r)',
           NEW s \in 1..landed, Place(s) = d
    PROVE  Passed(s)'
<1>1. s \in Sigs /\ Passed(s)
  BY SigsAreNumbers DEF Typed, Gaps
<1>2. s <= cursor'[d] => Explained(s)'
  BY <1>1 DEF Passed
<1>3. phase'[d] # "run" /\ phase'[d] # "attach" /\ phase'[d] # "live"
  OBVIOUS
<1> QED
  BY <1>2, <1>3 DEF Passed, Place

LEMMA BootKept ==
    ASSUME IndexerInv, Boot
    PROVE  IndexerInv'
<1> USE SigsAreNumbers
<1>0. Typed /\ Workers /\ Gaps
  BY DEF IndexerInv
<1>1. UNCHANGED <<markets, agents, events, cursor, queue, last, upTo, job, landed, wire, through,
                  excused, dropped, spare>>
  BY DEF Boot, tables, world, losses
<1>2. /\ phase' \in [Clusters -> {"off", "list", "run", "attach", "live", "wait"}]
      /\ \A d \in Clusters : phase[d] = "off" /\ phase'[d] \in {"off", "list"}
  BY <1>0 DEF Boot, Typed
<1>3. Typed'
  BY <1>0, <1>1, <1>2 DEF Typed
<1>4. \A r \in Sigs : Explained(r) => Explained(r)'
  BY <1>1, ExplainedLasts
<1>5. ASSUME NEW d \in Clusters PROVE Turns(d)
  <2>1. JobsOf(d) = {}
    BY <1>2, NoRunNoJobs
  <2>2. ASSUME NEW s \in 1..landed, Place(s) = d PROVE Passed(s)'
    BY <1>0, <1>1, <1>2, <1>4, <2>2, RestsPassed
  <2> QED
    BY <1>0, <1>1, <1>2, <2>1, <2>2 DEF Turns, Workers
<1> QED
  BY <1>1, <1>3, <1>5, TurnKept

LEMMA ReconnectKept ==
    ASSUME IndexerInv, NEW c \in Clusters, Reconnect(c)
    PROVE  IndexerInv'
<1> USE SigsAreNumbers
<1>0. Typed /\ Workers /\ Gaps
  BY DEF IndexerInv
<1>1. UNCHANGED <<markets, agents, events, cursor, queue, last, upTo, job, landed, wire, through,
                  excused, dropped, spare>>
  BY DEF Reconnect, tables, world, losses
<1>2. /\ phase' \in [Clusters -> {"off", "list", "run", "attach", "live", "wait"}]
      /\ phase[c] = "wait" /\ phase'[c] = "list"
      /\ \A d \in Clusters : d # c => phase'[d] = phase[d]
  BY <1>0 DEF Reconnect, Typed
<1>3. Typed'
  BY <1>0, <1>1, <1>2 DEF Typed
<1>4. \A r \in Sigs : Explained(r) => Explained(r)'
  BY <1>1, ExplainedLasts
<1>5. Turns(c)
  <2>1. JobsOf(c) = {}
    BY <1>2, NoRunNoJobs
  <2>2. ASSUME NEW s \in 1..landed, Place(s) = c PROVE Passed(s)'
    BY <1>0, <1>1, <1>2, <1>4, <2>2, RestsPassed
  <2> QED
    BY <1>0, <1>1, <1>2, <2>1, <2>2 DEF Turns, Workers
<1>6. \A d \in Clusters : d # c => Stays(d)
  BY <1>1, <1>2 DEF Stays
<1> QED
  BY <1>1, <1>3, <1>5, <1>6, TurnKept

LEMMA LoadFailsKept ==
    ASSUME IndexerInv, NEW c \in Clusters, LoadCursorFails(c)
    PROVE  IndexerInv'
<1> USE SigsAreNumbers
<1>0. Typed /\ Workers /\ Gaps
  BY DEF IndexerInv
<1>1. UNCHANGED <<markets, agents, events, cursor, queue, last, job, landed, wire, through,
                  excused, dropped>>
  BY DEF LoadCursorFails, tables, world, losses
<1>2. /\ phase' \in [Clusters -> {"off", "list", "run", "attach", "live", "wait"}]
      /\ phase[c] = "list" /\ phase'[c] = "attach"
      /\ \A d \in Clusters : d # c => phase'[d] = phase[d] /\ upTo'[d] = upTo[d]
      /\ upTo' \in [Clusters -> 0..Len(Ledger)] /\ upTo'[c] = cursor[c]
  BY <1>0 DEF LoadCursorFails, Typed
<1>3. spare' \in 0..Disturbances
  BY <1>0, SpareTyped DEF LoadCursorFails, Typed
<1>4. Typed'
  BY <1>0, <1>1, <1>2, <1>3 DEF Typed
<1>5. \A r \in Sigs : Explained(r) => Explained(r)'
  BY <1>1, ExplainedLasts
<1>6. Turns(c)
  <2>1. JobsOf(c) = {}
    BY <1>2, NoRunNoJobs
  <2>2. ASSUME NEW s \in 1..landed, Place(s) = c PROVE Passed(s)'
    <3>1. s \in Sigs /\ Passed(s)
      BY <1>0 DEF Typed, Gaps
    <3>2. s <= cursor[c] => Explained(s)'
      BY <1>5, <2>2, <3>1 DEF Passed
    <3> QED
      BY <1>1, <1>2, <2>2, <3>2 DEF Passed, Place
  <2> QED
    BY <1>0, <1>1, <1>2, <2>1, <2>2 DEF Turns, Workers
<1>7. \A d \in Clusters : d # c => Stays(d)
  BY <1>1, <1>2 DEF Stays
<1> QED
  BY <1>1, <1>4, <1>6, <1>7, TurnKept

\* A page holds the newest: what is left out of the list is lower or excused.
LEMMA ListKept ==
    ASSUME IndexerInv, NEW c \in Clusters, ListSignatures(c)
    PROVE  IndexerInv'
<1> USE SigsAreNumbers
<1>0. Typed /\ Workers /\ Gaps
  BY DEF IndexerInv
<1> DEFINE all == Listable(c)
<1>1. UNCHANGED <<markets, agents, events, cursor, job, landed, wire, through, dropped>>
  BY DEF ListSignatures, tables, world, Excuse
<1>2. PICK n : /\ Fault \/ spare' = spare
               /\ queue' = [queue EXCEPT ![c] = NewestOf(all, n)]
               /\ excused' = excused \cup (all \ NewestOf(all, n))
  BY DEF ListSignatures, Excuse, Fine, Collected
<1> DEFINE taken == NewestOf(all, n)
<1>3. taken \subseteq all /\ all \subseteq Sigs
  BY <1>0 DEF NewestOf, Listable, Typed
<1>4. /\ phase' \in [Clusters -> {"off", "list", "run", "attach", "live", "wait"}]
      /\ phase[c] = "list" /\ phase'[c] = "run"
      /\ last' \in [Clusters -> {0} \cup Sigs] /\ last'[c] = 0
      /\ upTo' \in [Clusters -> 0..Len(Ledger)] /\ upTo'[c] = landed
      /\ \A d \in Clusters : d # c => /\ phase'[d] = phase[d] /\ upTo'[d] = upTo[d]
                                      /\ last'[d] = last[d]
  BY <1>0 DEF ListSignatures, Typed
<1>5. /\ queue' \in [Clusters -> SUBSET Sigs] /\ queue'[c] = taken
      /\ \A d \in Clusters : d # c => queue'[d] = queue[d]
  <2> HIDE DEF taken, all
  <2>1. queue' = [queue EXCEPT ![c] = taken]
    BY <1>2 DEF taken
  <2> QED
    BY <1>0, <1>3, <2>1 DEF Typed
<1>6. excused' = excused \cup (all \ taken)
  BY <1>2
<1>7. spare' \in 0..Disturbances
  BY <1>0, <1>2, SpareTyped DEF Typed
<1>8. \A s \in all : s \in 1..landed /\ Place(s) = c
  BY DEF Listable, Place
<1>9. \A s \in 1..landed : Place(s) = c => s \in all \/ s <= cursor[c]
  BY <1>0 DEF Listable, Place, Typed
<1> HIDE DEF all, taken
<1>10. Typed'
  BY <1>0, <1>1, <1>3, <1>4, <1>5, <1>6, <1>7 DEF Typed
<1>11. \A r \in Sigs : Explained(r) => Explained(r)'
  BY <1>1, <1>6, ExplainedLasts
<1>12. Turns(c)
  <2>1. JobsOf(c) = {}
    BY <1>4, NoRunNoJobs
  <2>2. ASSUME NEW s \in 1..landed, Place(s) = c PROVE Passed(s)'
    <3>1. s \in Sigs /\ Passed(s)
      BY <1>0 DEF Typed, Gaps
    <3>2. s <= cursor[c] => Explained(s)'
      BY <1>11, <2>2, <3>1 DEF Passed
    <3>3. s \in all \ taken => Explained(s)'
      BY <1>6 DEF Explained, Settled
    <3>4. s \in taken => s \in queue'[c]
      BY <1>5
    <3> QED
      BY <1>1, <1>4, <1>9, <2>2, <3>2, <3>3, <3>4 DEF Passed, Place
  <2>3. \A s \in queue'[c] : s <= upTo'[c] /\ Place(s) = c
    BY <1>3, <1>4, <1>5, <1>8
  <2>4. upTo'[c] <= landed /\ cursor'[c] <= landed /\ last'[c] <= upTo'[c]
    BY <1>0, <1>1, <1>4 DEF Workers, Typed
  <2> QED
    BY <1>4, <2>1, <2>2, <2>3, <2>4 DEF Turns
<1>13. \A d \in Clusters : d # c => Stays(d)
  BY <1>1, <1>4, <1>5 DEF Stays
<1> QED
  BY <1>1, <1>6, <1>10, <1>12, <1>13, TurnKept

LEMMA RunnersDoneKept ==
    ASSUME IndexerInv, NEW c \in Clusters, RunnersDone(c)
    PROVE  IndexerInv'
<1> USE SigsAreNumbers
<1>0. Typed /\ Workers /\ Gaps
  BY DEF IndexerInv
<1>1. UNCHANGED <<markets, agents, events, queue, last, upTo, job, landed, wire, through,
                  excused, dropped>>
  BY DEF RunnersDone, world, losses
<1>2. /\ phase' \in [Clusters -> {"off", "list", "run", "attach", "live", "wait"}]
      /\ phase[c] = "run" /\ phase'[c] = "attach" /\ queue[c] = {} /\ JobsOf(c) = {}
      /\ \A d \in Clusters : d # c => phase'[d] = phase[d]
  BY <1>0 DEF RunnersDone, RunnersIdle, Typed
<1>3. /\ cursor' \in [Clusters -> {0} \cup Sigs]
      /\ \A d \in Clusters : cursor'[d] = cursor[d] \/ (d = c /\ cursor'[d] = last[c])
  <2>1. cursor' = cursor \/ cursor' = [cursor EXCEPT ![c] = last[c]]
    BY DEF RunnersDone
  <2> QED
    BY <1>0, <2>1 DEF Typed
<1>4. spare' \in 0..Disturbances
  <2>1. Fault \/ spare' = spare
    BY DEF RunnersDone, Fine
  <2> QED
    BY <1>0, <2>1, SpareTyped DEF Typed
<1>5. Typed'
  BY <1>0, <1>1, <1>2, <1>3, <1>4 DEF Typed
<1>6. \A r \in Sigs : Explained(r) => Explained(r)'
  BY <1>1, ExplainedLasts
<1>7. upTo[c] <= landed /\ cursor[c] <= landed /\ last[c] <= upTo[c]
  BY <1>0, <1>2 DEF Workers
<1>8. upTo[c] \in Nat /\ last[c] \in Nat /\ cursor[c] \in Nat /\ landed \in Nat
  BY <1>0 DEF Typed
<1>9. Turns(c)
  <2>1. ASSUME NEW s \in 1..landed, Place(s) = c PROVE Passed(s)'
    <3>1. s \in Sigs /\ Passed(s)
      BY <1>0 DEF Typed, Gaps
    <3>2. s <= upTo[c] \/ s <= cursor[c] => Explained(s)'
      BY <1>2, <1>6, <2>1, <3>1 DEF Passed
    <3>3. s <= cursor'[c] => s <= upTo[c] \/ s <= cursor[c]
      BY <1>3, <1>7, <1>8
    <3> QED
      BY <1>1, <1>2, <2>1, <3>2, <3>3 DEF Passed, Place
  <2>2. upTo'[c] <= landed /\ cursor'[c] <= landed
    BY <1>1, <1>3, <1>7, <1>8
  <2> QED
    BY <1>2, <2>1, <2>2 DEF Turns
<1>10. \A d \in Clusters : d # c => Stays(d)
  BY <1>1, <1>2, <1>3 DEF Stays
<1> QED
  BY <1>1, <1>5, <1>9, <1>10, TurnKept

LEMMA AttachKept ==
    ASSUME IndexerInv, NEW c \in Clusters, AttachLogs(c)
    PROVE  IndexerInv'
<1> USE SigsAreNumbers
<1>0. Typed /\ Workers /\ Gaps
  BY DEF IndexerInv
<1>1. UNCHANGED <<markets, agents, events, cursor, queue, last, upTo, job, landed, wire, through,
                  dropped>>
  BY DEF AttachLogs, tables, world, Excuse
<1>2. PICK to \in {"live", "wait"} :
         /\ Fault \/ spare' = spare
         /\ phase' = [d \in Clusters |-> IF d = c THEN to
                                         ELSE IF phase[d] = "off" THEN "list" ELSE phase[d]]
         /\ excused' = excused \cup (IF to = "live" THEN {s \in Listable(c) : s > upTo[c]} ELSE {})
  BY DEF AttachLogs, Excuse, Fine
<1>3. /\ phase' \in [Clusters -> {"off", "list", "run", "attach", "live", "wait"}]
      /\ phase[c] = "attach" /\ phase'[c] = to
      /\ \A d \in Clusters : d # c => \/ phase'[d] = phase[d]
                                      \/ phase[d] = "off" /\ phase'[d] = "list"
  BY <1>0, <1>2 DEF AttachLogs, Typed
<1>4. spare' \in 0..Disturbances
  BY <1>0, <1>2, SpareTyped DEF Typed
<1>5. excused \subseteq excused' /\ excused' \subseteq Sigs
  <2>1. Listable(c) \subseteq Sigs /\ excused \subseteq Sigs
    BY <1>0 DEF Typed, Listable
  <2>2. {s \in Listable(c) : s > upTo[c]} \subseteq Sigs
    BY <2>1
  <2> QED
    BY <1>2, <2>1, <2>2
<1>6. Typed'
  BY <1>0, <1>1, <1>3, <1>4, <1>5 DEF Typed
<1>7. \A r \in Sigs : Explained(r) => Explained(r)'
  BY <1>1, <1>5, ExplainedLasts
<1>8. upTo[c] \in Nat /\ cursor[c] \in Nat /\ landed \in Nat
  BY <1>0 DEF Typed
<1>9. Turns(c)
  <2>1. JobsOf(c) = {}
    BY <1>3, NoRunNoJobs
  <2>2. ASSUME NEW s \in 1..landed, Place(s) = c PROVE Passed(s)'
    <3>1. s \in Sigs /\ s \in Nat /\ Passed(s)
      BY <1>0 DEF Typed, Gaps
    <3>2. s <= upTo[c] \/ s <= cursor[c] => Explained(s)'
      BY <1>3, <1>7, <2>2, <3>1 DEF Passed
    <3>3. to = "live" /\ ~(s <= upTo[c]) /\ ~(s <= cursor[c]) => s \in excused'
      BY <1>2, <1>8, <2>2, <3>1 DEF Listable, Place
    <3>4. to = "live" => Explained(s)'
      BY <3>2, <3>3 DEF Explained, Settled
    <3> QED
      BY <1>1, <1>2, <1>3, <2>2, <3>2, <3>4 DEF Passed, Place
  <2> QED
    BY <1>0, <1>1, <1>2, <1>3, <2>1, <2>2 DEF Turns, Workers
<1>10. ASSUME NEW d \in Clusters, d # c PROVE Stays(d) \/ Turns(d)
  <2>1. CASE phase'[d] = phase[d]
    BY <1>1, <2>1 DEF Stays
  <2>2. CASE phase[d] = "off" /\ phase'[d] = "list"
    <3>1. JobsOf(d) = {}
      BY <2>2, NoRunNoJobs
    <3>2. ASSUME NEW s \in 1..landed, Place(s) = d PROVE Passed(s)'
      BY <1>0, <1>1, <1>7, <2>2, <3>2, RestsPassed
    <3> QED
      BY <1>0, <1>1, <2>2, <3>1, <3>2 DEF Turns, Workers
  <2> QED
    BY <1>3, <1>10, <2>1, <2>2
<1> QED
  BY <1>1, <1>5, <1>6, <1>9, <1>10, TurnKept

LEMMA StartJob ==
    ASSUME Typed, NEW s \in Sigs, NEW by \in {"live", "backfill"}, Start(s, by)
    PROVE  /\ job' \in [Sigs -> Jobs] /\ \A r \in Sigs : r # s => job'[r] = job[r]
           /\ job'[s].by = by /\ job'[s].todo # << >> /\ ChainRelies(s)'
<1> DEFINE j == [Idle EXCEPT !.by = by, !.todo = <<"fetch">>]
<1>1. j \in Jobs /\ j.by = by /\ j.todo = <<"fetch">>
  BY DEF Idle, Jobs, Lists, Prices
<1>2. job' = [job EXCEPT ![s] = j]
  BY DEF Start
<1> HIDE DEF j
<1>3. job' \in [Sigs -> Jobs] /\ job'[s] = j /\ \A r \in Sigs : r # s => job'[r] = job[r]
  BY <1>1, <1>2 DEF Typed
<1>4. job'[s].todo # << >> /\ Head(job'[s].todo) = "fetch"
  <2>1. <<"fetch">> # << >> /\ Head(<<"fetch">>) = "fetch"
    OBVIOUS
  <2>2. job'[s].todo = <<"fetch">> /\ job'[s].by = by
    BY <1>1, <1>3
  <2> QED
    BY <2>1, <2>2
<1>5. ChainRelies(s)'
  BY <1>4 DEF ChainRelies, At
<1> QED
  BY <1>1, <1>3, <1>4, <1>5

LEMMA TakeKept ==
    ASSUME IndexerInv, NEW c \in Clusters, RunnerTakes(c)
    PROVE  IndexerInv'
<1> USE SigsAreNumbers
<1> PICK s : s = Min(queue[c])
  OBVIOUS
<1>0. Typed /\ Chains /\ Workers /\ Gaps /\ Wired /\ Whole
  BY DEF IndexerInv
<1>1. UNCHANGED <<markets, agents, events, cursor, phase, last, upTo, landed, wire, through,
                  excused, dropped, spare>>
  BY DEF RunnerTakes, tables, world, losses
<1>2. phase[c] = "run" /\ queue[c] # {} /\ RunnerFree(c) /\ queue[c] \subseteq Sigs
  BY <1>0 DEF RunnerTakes, Typed
<1>3. s \in queue[c]
  <2> DEFINE T == queue[c]
  <2>1. T \subseteq Nat /\ T # {}
    BY <1>2
  <2> HIDE DEF T
  <2> QED
    BY <2>1, MinIsLeast DEF T
<1>4. /\ queue' = [queue EXCEPT ![c] = @ \ {s}]
      /\ IF job[s] = Idle THEN Start(s, "backfill") ELSE UNCHANGED job
  BY DEF RunnerTakes
<1>5. s \in Sigs /\ Place(s) = c /\ s <= upTo[c] /\ upTo[c] <= landed /\ s <= landed
  <2>1. s \in Sigs /\ Place(s) = c /\ s <= upTo[c] /\ upTo[c] <= landed
    BY <1>0, <1>2, <1>3 DEF Workers
  <2> QED
    BY <1>0, <2>1 DEF Typed
<1>6. /\ queue' \in [Clusters -> SUBSET Sigs] /\ queue'[c] = queue[c] \ {s}
      /\ \A d \in Clusters : d # c => queue'[d] = queue[d]
  BY <1>0, <1>4 DEF Typed
<1>7. /\ job' \in [Sigs -> Jobs] /\ \A r \in Sigs : r # s => job'[r] = job[r]
      /\ job'[s] # Idle
      /\ \/ job'[s] = job[s]
         \/ /\ job[s] = Idle /\ job'[s].by = "backfill" /\ job'[s].todo # << >>
            /\ ChainRelies(s)'
  <2>1. CASE job[s] = Idle
    <3>0. Start(s, "backfill")
      BY <1>4, <2>1
    <3>1. /\ job' \in [Sigs -> Jobs] /\ \A r \in Sigs : r # s => job'[r] = job[r]
          /\ job'[s].by = "backfill" /\ job'[s].todo # << >> /\ ChainRelies(s)'
      BY <1>0, <1>5, <3>0, StartJob
    <3> QED
      BY <2>1, <3>1 DEF Idle
  <2>2. CASE job[s] # Idle
    BY <1>0, <1>4, <2>2 DEF Typed
  <2> QED
    BY <2>1, <2>2
<1>8. Typed'
  BY <1>0, <1>1, <1>6, <1>7 DEF Typed
<1>9. ASSUME NEW r \in Sigs, Explained(r) PROVE Explained(r)'
  BY <1>1, <1>7, <1>9, ExplainedLasts
<1>10. ASSUME NEW r \in Sigs PROVE ChainRuns(r)' /\ ChainRelies(r)'
  <2>1. CASE job'[r] = job[r]
    <3>1. ChainRuns(r) /\ ChainRelies(r) /\ landed \in Nat /\ r \in Nat
      BY <1>0 DEF Chains, Typed
    <3>2. /\ job[r].by = "live" => phase'[Place(r)] = "live"
          /\ job[r].by = "backfill" => phase'[Place(r)] = "run"
      BY <1>1, <3>1 DEF ChainRuns
    <3> QED
      BY <1>1, <2>1, <3>1, <3>2, ChainLasts
  <2>2. CASE r = s /\ job'[s].by = "backfill" /\ job'[s].todo # << >> /\ ChainRelies(s)'
    <3>1. ChainRuns(s)'
      BY <1>1, <1>2, <1>5, <2>2 DEF ChainRuns, Place
    <3> QED
      BY <2>2, <3>1
  <2> QED
    BY <1>7, <2>1, <2>2
<1>11. ASSUME NEW d \in Clusters PROVE Cardinality(JobsOf(d)') <= Runners
  <2>1. IsFiniteSet(JobsOf(d)) /\ Cardinality(JobsOf(d)) \in Nat
    BY JobsFinite
  <2>2. CASE d # c
    <3>1. JobsOf(d)' \subseteq JobsOf(d)
      BY <1>5, <1>7, <2>2 DEF JobsOf, Place
    <3> QED
      BY <1>0, <3>1, FewerJobs DEF Workers
  <2>3. CASE d = c
    <3>1. JobsOf(d)' \subseteq JobsOf(d) \cup {s}
      BY <1>7 DEF JobsOf
    <3>2. /\ IsFiniteSet(JobsOf(d) \cup {s})
          /\ Cardinality(JobsOf(d) \cup {s}) \in {Cardinality(JobsOf(d)), Cardinality(JobsOf(d)) + 1}
      BY <2>1, FS_AddElement
    <3>3. /\ Cardinality(JobsOf(d)') <= Cardinality(JobsOf(d) \cup {s})
          /\ Cardinality(JobsOf(d)') \in Nat
      BY <3>1, <3>2, FS_Subset, FS_CardinalityType
    <3>4. Cardinality(JobsOf(d)) < Runners
      BY <1>2, <2>3 DEF RunnerFree
    <3> QED
      BY <2>1, <3>2, <3>3, <3>4, SizesAssumption
  <2> QED
    BY <2>2, <2>3
<1>12. ASSUME NEW d \in Clusters
       PROVE  /\ upTo'[d] <= landed' /\ cursor'[d] <= landed'
              /\ phase'[d] = "run" => /\ last'[d] <= upTo'[d]
                                      /\ \A r \in queue'[d] : r <= upTo'[d] /\ Place(r) = d
  BY <1>0, <1>1, <1>6 DEF Workers
<1>13. ASSUME NEW r \in 1..landed PROVE Passed(r)'
  <2>1. r \in Sigs /\ Passed(r) /\ Place(r) \in Clusters
    BY <1>0, PlaceTyped DEF Typed, Gaps
  <2>2. r \in queue[Place(r)] => r \in queue'[Place(r)] \/ r = s
    BY <1>6, <2>1
  <2>3. r = s => Explained(r)'
    BY <1>7 DEF Explained
  <2> QED
    BY <1>1, <1>9, <2>1, <2>2, <2>3 DEF Passed, Place
<1> QED
  BY <1>0, <1>1, <1>8, <1>10, <1>11, <1>12, <1>13
     DEF IndexerInv, Chains, Workers, Gaps, Wired, Whole, Place

-----------------------------------------------------------------------------
(* The subscription, and everyone else.                                    *)

\* A step that leaves startup where it is: chains go on or start for what was
\* notified, and what lands is notified of if anyone listens.
LEMMA OutsideKept ==
    ASSUME IndexerInv, Typed', UNCHANGED <<events, cursor, phase, queue, last, upTo>>,
           DOMAIN markets \subseteq DOMAIN markets', landed <= landed',
           excused \subseteq excused', dropped \subseteq dropped',
           \A r \in Sigs : \/ job'[r] = job[r]
                           \/ /\ job[r] = Idle /\ job'[r].by = "live" /\ job'[r].todo # << >>
                              /\ ChainRelies(r)' /\ phase[Place(r)] = "live" /\ r <= landed,
           \A r \in wire' : r <= landed' /\ phase[Place(r)] = "live",
           \A r \in wire : r \in wire' \/ job'[r] # Idle \/ Settled(r)',
           \A r \in 1..landed' : r > landed /\ phase[Place(r)] = "live" => r \in wire'
    PROVE  IndexerInv'
<1> USE SigsAreNumbers
<1>0. Typed /\ Chains /\ Workers /\ Gaps /\ Wired /\ Whole
  BY DEF IndexerInv
<1>1. landed \in Nat /\ landed' \in Nat /\ landed' <= Len(Ledger) /\ wire \subseteq Sigs
  BY <1>0 DEF Typed
<1>2. ASSUME NEW r \in Sigs, Explained(r) PROVE Explained(r)'
  <2>1. job[r] # Idle => job'[r] # Idle
    OBVIOUS
  <2> QED
    BY <1>2, <2>1, ExplainedLasts
<1>3. ASSUME NEW r \in Sigs PROVE ChainRuns(r)' /\ ChainRelies(r)'
  <2>1. CASE job'[r] = job[r]
    <3>1. ChainRuns(r) /\ ChainRelies(r) /\ r \in Nat
      BY <1>0 DEF Chains
    <3>2. /\ job[r].by = "live" => phase'[Place(r)] = "live"
          /\ job[r].by = "backfill" => phase'[Place(r)] = "run"
      BY <3>1 DEF ChainRuns
    <3> QED
      BY <1>1, <2>1, <3>1, <3>2, ChainLasts
  <2>2. CASE /\ job'[r].by = "live" /\ job'[r].todo # << >> /\ ChainRelies(r)'
             /\ phase[Place(r)] = "live" /\ r <= landed
    <3>1. ChainRuns(r)'
      BY <1>1, <2>2 DEF ChainRuns, Place
    <3> QED
      BY <2>2, <3>1
  <2> QED
    BY <2>1, <2>2
<1>4. ASSUME NEW d \in Clusters
      PROVE  /\ upTo'[d] <= landed' /\ cursor'[d] <= landed'
             /\ phase'[d] = "run" => /\ last'[d] <= upTo'[d]
                                     /\ \A r \in queue'[d] : r <= upTo'[d] /\ Place(r) = d
             /\ Cardinality(JobsOf(d)') <= Runners
  <2>1. JobsOf(d)' \subseteq JobsOf(d)
    BY DEF JobsOf
  <2>2. Cardinality(JobsOf(d)') <= Runners
    BY <1>0, <2>1, FewerJobs DEF Workers
  <2>3. upTo[d] \in Nat /\ cursor[d] \in Nat
    BY <1>0 DEF Typed
  <2> QED
    BY <1>0, <1>1, <2>2, <2>3 DEF Workers
<1>5. ASSUME NEW r \in 1..landed' PROVE Passed(r)'
  <2>1. r \in Sigs /\ r \in Nat /\ Place(r) \in Clusters
    BY <1>1, PlaceTyped
  <2>2. CASE r <= landed
    <3>1. Passed(r)
      BY <1>0, <2>2 DEF Gaps
    <3> QED
      BY <1>2, <2>1, <3>1 DEF Passed, Place
  <2>3. CASE r > landed
    <3>1. upTo[Place(r)] <= landed /\ cursor[Place(r)] <= landed
      BY <1>0, <2>1 DEF Workers
    <3>2. upTo[Place(r)] \in Nat /\ cursor[Place(r)] \in Nat
      BY <1>0, <2>1 DEF Typed
    <3>3. ~(r <= cursor'[Place(r)]) /\ ~(r <= upTo'[Place(r)])
      BY <1>1, <2>1, <2>3, <3>1, <3>2
    <3>4. phase[Place(r)] = "live" => Explained(r)'
      BY <2>3 DEF Explained
    <3> QED
      BY <3>3, <3>4 DEF Passed, Place
  <2> QED
    BY <1>1, <2>1, <2>2, <2>3
<1> QED
  BY <1>0, <1>3, <1>4, <1>5 DEF IndexerInv, Chains, Workers, Gaps, Wired, Whole, Place

LEMMA DeliverKept ==
    ASSUME IndexerInv, NEW s \in Sigs, Deliver(s)
    PROVE  IndexerInv'
<1>0. Typed /\ Wired
  BY DEF IndexerInv
<1>1. /\ UNCHANGED <<markets, agents, events, cursor, phase, queue, last, upTo, landed, through,
                     excused, spare>>
      /\ s \in wire /\ wire' = wire \ {s} /\ s <= landed /\ phase[Place(s)] = "live"
  BY <1>0 DEF Deliver, tables, Wired
<1>2. dropped \subseteq dropped' /\ dropped' \subseteq Sigs
  BY <1>0 DEF Deliver, Typed
<1>3. /\ job' \in [Sigs -> Jobs] /\ \A r \in Sigs : r # s => job'[r] = job[r]
      /\ \/ job'[s] = job[s]
         \/ /\ job[s] = Idle /\ job'[s].by = "live" /\ job'[s].todo # << >>
            /\ ChainRelies(s)'
  <2>1. CASE job' = job
    BY <1>0, <2>1 DEF Typed
  <2>2. CASE job[s] = Idle /\ Start(s, "live")
    <3>1. "live" \in {"live", "backfill"}
      OBVIOUS
    <3> QED
      BY <1>0, <2>2, <3>1, StartJob
  <2> QED
    BY <2>1, <2>2 DEF Deliver
<1>4. job'[s] # Idle \/ Settled(s)'
  <2>1. CASE Failed(Ledger[s])
    BY <2>1 DEF Deliver, Settled
  <2>2. CASE ~Failed(Ledger[s]) /\ job[s] = Idle
    <3>1. Start(s, "live") /\ "live" \in {"live", "backfill"}
      BY <2>2 DEF Deliver
    <3>2. job'[s].by = "live"
      BY <1>0, <3>1, StartJob
    <3> QED
      BY <3>2 DEF Idle
  <2>3. CASE job[s] # Idle
    BY <2>3 DEF Deliver
  <2> QED
    BY <2>1, <2>2, <2>3
<1>5. Typed'
  BY <1>0, <1>1, <1>2, <1>3 DEF Typed
<1>6. landed \in Nat
  BY <1>0, SigsAreNumbers DEF Typed
<1> QED
  BY <1>0, <1>1, <1>2, <1>3, <1>4, <1>5, <1>6, OutsideKept DEF Wired

LEMMA LoseKept ==
    ASSUME IndexerInv, NEW s \in Sigs, Lose(s)
    PROVE  IndexerInv'
<1>0. Typed /\ Wired
  BY DEF IndexerInv
<1>1. /\ UNCHANGED <<markets, agents, events, cursor, phase, queue, last, upTo, job, landed,
                     through, dropped>>
      /\ wire' = wire \ {s} /\ excused' = excused \cup {s}
  BY DEF Lose, tables, worker, Excuse
<1>2. spare' \in 0..Disturbances
  BY <1>0, SpareTyped DEF Lose, Typed
<1>3. Typed'
  BY <1>0, <1>1, <1>2 DEF Typed
<1>4. Settled(s)'
  BY <1>1 DEF Settled
<1>5. landed \in Nat
  BY <1>0, SigsAreNumbers DEF Typed
<1> QED
  BY <1>0, <1>1, <1>3, <1>4, <1>5, OutsideKept DEF Wired

LEMMA RepeatKept ==
    ASSUME IndexerInv, NEW s \in Sigs, Repeat(s)
    PROVE  IndexerInv'
<1>0. Typed /\ Wired
  BY DEF IndexerInv
<1>1. /\ UNCHANGED <<markets, agents, events, cursor, phase, queue, last, upTo, job, landed,
                     through, excused, dropped>>
      /\ wire' = wire \cup {s} /\ s <= landed /\ phase[Place(s)] = "live"
  BY DEF Repeat, tables, worker, losses, Place
<1>2. spare' \in 0..Disturbances
  BY <1>0, SpareTyped DEF Repeat, Typed
<1>3. Typed'
  BY <1>0, <1>1, <1>2 DEF Typed
<1>4. landed \in Nat
  BY <1>0, SigsAreNumbers DEF Typed
<1> QED
  BY <1>0, <1>1, <1>3, <1>4, OutsideKept DEF Wired

LEMMA LandKept ==
    ASSUME IndexerInv, Land
    PROVE  IndexerInv'
<1> USE SigsAreNumbers
<1> DEFINE n == landed + 1
<1>0. Typed /\ Wired
  BY DEF IndexerInv
<1>1. UNCHANGED <<markets, agents, events, cursor, phase, queue, last, upTo, job, excused,
                  dropped, spare>>
  BY DEF Land, tables, worker, losses
<1>2. /\ landed \in Nat /\ landed' = n /\ n \in Sigs /\ landed' \in 0..Len(Ledger)
      /\ \A r \in 1..landed' : r > landed => r = n
  BY <1>0 DEF Typed, Land
<1>3. /\ wire' = IF phase[Place(n)] = "live" THEN wire \cup {n} ELSE wire
      /\ \/ through' = through
         \/ SchedulerPatches(Ledger[n]) /\ through' = through \cup {n}
  BY DEF Land, Place
<1>4. Typed'
  BY <1>0, <1>1, <1>2, <1>3 DEF Typed
<1>5. \A r \in wire' : r <= landed' /\ phase[Place(r)] = "live"
  <2>1. \A r \in wire : r \in Nat /\ r <= landed /\ phase[Place(r)] = "live"
    BY <1>0 DEF Wired, Typed
  <2> QED
    BY <1>2, <1>3, <2>1
<1>6. \A r \in 1..landed' : r > landed /\ phase[Place(r)] = "live" => r \in wire'
  BY <1>2, <1>3
<1>7. wire \subseteq wire' /\ landed <= landed'
  BY <1>2, <1>3
<1> HIDE DEF n
<1> QED
  BY <1>1, <1>4, <1>5, <1>6, <1>7, OutsideKept

LEMMA NamesMarket ==
    ASSUME NEW s \in Sigs, SchedulerPatches(Ledger[s])
    PROVE  MarketAt[s] \in Markets
<1> DEFINE t == Ledger[s]
           named == {t.ixs[i].market : i \in Candidates(t)} \ {Null}
<1>1. PICK i \in Candidates(t) : t.ixs[i].name \in {"open_market", "close_market"}
  BY DEF SchedulerPatches, Has
<1>2. t.ixs[i].market # Null
  BY <1>1, LedgerAssumption DEF Candidates, StatusFor, Sigs
<1>3. named # {}
  BY <1>1, <1>2
<1>4. MarketAt[s] = CHOOSE m \in named : TRUE
  BY <1>3 DEF MarketAt, MarketOf
<1>5. MarketAt[s] # Null
  <2>1. Null \notin named
    OBVIOUS
  <2> HIDE DEF named
  <2> QED
    BY <1>3, <1>4, <2>1
<1> QED
  BY <1>5, MarketTyped

LEMMA PatchRowKept ==
    ASSUME IndexerInv, NEW s \in Sigs, PatchMarketRow(s)
    PROVE  IndexerInv'
<1>0. Typed /\ Wired
  BY DEF IndexerInv
<1>1. /\ UNCHANGED <<agents, events, cursor, phase, queue, last, upTo, job, landed, wire,
                     excused, dropped>>
      /\ s \in through /\ through' = through \ {s}
  BY DEF PatchMarketRow, worker, losses
<1>2. spare' \in 0..Disturbances
  <2>1. Fault \/ spare' = spare
    BY DEF PatchMarketRow, Fine
  <2> QED
    BY <1>0, <2>1, SpareTyped DEF Typed
<1>3. MarketAt[s] \in Markets
  BY <1>0, <1>1, NamesMarket DEF Typed
<1>4. \/ markets' = Over(Sets({MarketAt[s]}, Upsert(RowOf(MarketAt[s]), ThroughPatch(s))), markets)
      \/ markets' = markets
  BY DEF PatchMarketRow, RowOf
<1>5. Fills(ThroughPatch(s))
  BY ThroughFills
<1>6. /\ DOMAIN markets \subseteq DOMAIN markets' /\ DOMAIN markets' \subseteq Markets
      /\ \A m \in DOMAIN markets' : DOMAIN markets'[m] = MarketColumns
  <2>1. CASE markets' = markets
    BY <1>0, <2>1 DEF Typed
  <2>2. CASE markets' = Over(Sets({MarketAt[s]}, Upsert(RowOf(MarketAt[s]), ThroughPatch(s))), markets)
    <3>1. /\ DOMAIN markets' = DOMAIN markets \cup {MarketAt[s]}
          /\ \A m \in DOMAIN markets' : DOMAIN markets'[m] = MarketColumns
      BY <1>0, <1>3, <1>5, <2>2, WritesOneRow DEF Typed
    <3> QED
      BY <1>0, <1>3, <3>1 DEF Typed
  <2> QED
    BY <1>4, <2>1, <2>2
<1>7. Typed'
  BY <1>0, <1>1, <1>2, <1>6 DEF Typed
<1>8. landed \in Nat
  BY <1>0, SigsAreNumbers DEF Typed
<1> QED
  BY <1>0, <1>1, <1>6, <1>7, <1>8, OutsideKept DEF Wired

LEMMA TagKept ==
    ASSUME IndexerInv, NEW o \in Owners, TagAgentRole(o)
    PROVE  IndexerInv'
<1>0. Typed /\ Wired
  BY DEF IndexerInv
<1>1. /\ UNCHANGED <<markets, events, cursor, phase, queue, last, upTo, job, landed, wire, through,
                     excused, dropped, spare>>
      /\ agents' = [agents EXCEPT ![o] = @ \cup {"agent_pda", "role"}]
  BY DEF TagAgentRole, worker, world, losses
<1>2. Typed'
  <2>1. {"agent_pda", "role"} \subseteq AgentColumns \cup {"role"}
    BY DEF AgentColumns
  <2> QED
    BY <1>0, <1>1, <2>1 DEF Typed
<1>3. landed \in Nat
  BY <1>0, SigsAreNumbers DEF Typed
<1> QED
  BY <1>0, <1>1, <1>2, <1>3, OutsideKept DEF Wired

\* What was under way below the cursor is excused.
LEMMA CrashKept ==
    ASSUME IndexerInv, Crash
    PROVE  IndexerInv'
<1> USE SigsAreNumbers
<1>0. Typed /\ Chains /\ Workers /\ Gaps /\ Wired /\ Whole
  BY DEF IndexerInv
<1> DEFINE lost == {s \in 1..landed : s <= cursor[Place(s)] /\ (job[s] # Idle \/ s \in wire)}
<1>1. /\ UNCHANGED <<markets, agents, events, cursor, landed, through, dropped>>
      /\ wire' = {} /\ excused' = excused \cup lost
  BY DEF Crash, tables, Excuse, Place
<1>2. \A d \in Clusters : phase'[d] = "off" /\ queue'[d] = {} /\ last'[d] = 0 /\ upTo'[d] = 0
  BY DEF Crash, ForEach
<1>3. \A r \in Sigs : job'[r] = Idle
  BY DEF Crash, NoJobs
<1>4. Typed'
  <2>1. spare' \in 0..Disturbances
    BY <1>0, SpareTyped DEF Crash, Typed
  <2>2. job' \in [Sigs -> Jobs]
    BY IdleTyped DEF Crash, NoJobs
  <2>3. lost \subseteq Sigs
    BY <1>0 DEF Typed
  <2>4. /\ phase' \in [Clusters -> {"off", "list", "run", "attach", "live", "wait"}]
        /\ queue' \in [Clusters -> SUBSET Sigs] /\ last' \in [Clusters -> {0} \cup Sigs]
        /\ upTo' \in [Clusters -> 0..Len(Ledger)]
    BY DEF Crash, ForEach
  <2> HIDE DEF lost
  <2> QED
    BY <1>0, <1>1, <2>1, <2>2, <2>3, <2>4 DEF Typed
<1>5. ASSUME NEW r \in Sigs PROVE ChainRuns(r)' /\ ChainRelies(r)'
  BY <1>3 DEF ChainRuns, ChainRelies, At, Idle
<1>6. ASSUME NEW d \in Clusters
      PROVE  /\ upTo'[d] <= landed' /\ cursor'[d] <= landed' /\ phase'[d] # "run"
             /\ Cardinality(JobsOf(d)') <= Runners
  <2>1. JobsOf(d)' \subseteq JobsOf(d)
    BY <1>3 DEF JobsOf, Idle
  <2>2. Cardinality(JobsOf(d)') <= Runners
    BY <1>0, <2>1, FewerJobs DEF Workers
  <2>3. 0 <= landed
    BY <1>0 DEF Typed
  <2> QED
    BY <1>0, <1>1, <1>2, <2>2, <2>3 DEF Workers
<1>7. ASSUME NEW r \in 1..landed PROVE Passed(r)'
  <2>1. r \in Sigs /\ Place(r) \in Clusters /\ Passed(r)
    BY <1>0, PlaceTyped DEF Typed, Gaps
  <2>2. r <= cursor[Place(r)] => Settled(r) \/ r \in lost
    BY <2>1 DEF Passed, Explained
  <2>3. Settled(r) => Explained(r)'
    BY <1>1 DEF Explained, Settled, Stored, Nothing
  <2>4. r \in lost => Explained(r)'
    BY <1>1 DEF Explained, Settled
  <2> QED
    BY <1>1, <1>2, <2>1, <2>2, <2>3, <2>4 DEF Passed, Place
<1> QED
  BY <1>0, <1>1, <1>4, <1>5, <1>6, <1>7 DEF IndexerInv, Chains, Workers, Gaps, Wired, Whole

LEMMA StutterKept ==
    ASSUME IndexerInv, UNCHANGED vars
    PROVE  IndexerInv'
<1>0. Typed /\ Wired
  BY DEF IndexerInv
<1>1. UNCHANGED <<markets, agents, events, cursor, phase, queue, last, upTo, job, landed, wire,
                  through, excused, dropped, spare>>
  BY DEF vars, tables, worker, world, losses
<1>2. Typed'
  BY <1>0, <1>1 DEF Typed
<1>3. landed \in Nat
  BY <1>0, SigsAreNumbers DEF Typed
<1> QED
  BY <1>0, <1>1, <1>2, <1>3, OutsideKept DEF Wired

LEMMA NextKept == IndexerInv /\ [Next]_vars => IndexerInv'
<1> SUFFICES ASSUME IndexerInv, [Next]_vars PROVE IndexerInv'
  OBVIOUS
<1>1. CASE Boot \/ Land \/ Crash
  BY <1>1, BootKept, LandKept, CrashKept
<1>2. ASSUME NEW c \in Clusters, WorkerStep(c) PROVE IndexerInv'
  BY <1>2, ListKept, LoadFailsKept, TakeKept, RunnersDoneKept, AttachKept, ReconnectKept
     DEF WorkerStep
<1>3. ASSUME NEW s \in Sigs,
             IngestStep(s) \/ Deliver(s) \/ Lose(s) \/ Repeat(s) \/ PatchMarketRow(s)
      PROVE  IndexerInv'
  BY <1>3, IngestKept, DeliverKept, LoseKept, RepeatKept, PatchRowKept
<1>4. ASSUME NEW o \in Owners, TagAgentRole(o) PROVE IndexerInv'
  BY <1>4, TagKept
<1>5. CASE UNCHANGED vars
  BY <1>5, StutterKept
<1> QED
  BY <1>1, <1>2, <1>3, <1>4, <1>5 DEF Next

-----------------------------------------------------------------------------
(* What every step leaves of the tables.                                   *)

\* Rows of events are only added: a chain inserts, and nobody else writes them.
LEMMA RowsStay ==
    ASSUME IndexerInv, [Next]_vars
    PROVE  \A s \in Sigs : events[s] \subseteq events'[s]
<1>1. CASE events' = events
  BY <1>1
<1>2. CASE \E s \in Sigs : InsertEvents(s)
  BY <1>2, InsertKept
<1>3. ASSUME NEW s \in Sigs, IngestStep(s) PROVE events' = events \/ InsertEvents(s)
  BY <1>3 DEF IngestStep, Fetch, ApplyMarketPatches, ApplyAgentPatches, SaveOwnCursor, tables
<1>4. ASSUME NEW c \in Clusters, WorkerStep(c) PROVE events' = events
  BY <1>4 DEF WorkerStep, ListSignatures, LoadCursorFails, RunnerTakes, RunnersDone, AttachLogs,
              Reconnect, tables
<1>5. ASSUME NEW s \in Sigs, Deliver(s) \/ Lose(s) \/ Repeat(s) \/ PatchMarketRow(s)
      PROVE  events' = events
  BY <1>5 DEF Deliver, Lose, Repeat, PatchMarketRow, tables
<1>6. Boot \/ Land \/ Crash \/ (\E o \in Owners : TagAgentRole(o)) \/ UNCHANGED vars
      => events' = events
  BY DEF Boot, Land, Crash, TagAgentRole, vars, tables
<1> QED
  BY <1>1, <1>2, <1>3, <1>4, <1>5, <1>6 DEF Next

\* What a profile's row is known by stays: a patch has the address among the
\* columns it gives if it names it at all, and the role is no column of its.
Apart(t) ==
    \/ \A o \in AgentsOf(t) : Signed(t, o) # {}
    \/ \A o \in AgentsOf(t) :
          /\ Signed(t, o) = {} /\ Cardinality(Heard(t, o)) = 1
          /\ \A k \in Heard(t, o) : AnchorEvents(t)[k].kind = "AgentSettled"

LEMMA AddressGiven ==
    ASSUME NEW s \in Sigs, Apart(Ledger[s]), NEW o \in DOMAIN GivenAt[s]
    PROVE  "role" \notin NamedAt[s] /\ ("agent_pda" \in NamedAt[s] => "agent_pda" \in GivenAt[s][o])
<1> DEFINE t == Ledger[s]
<1>1. o \in AgentsOf(t) /\ GivenAt[s][o] = Given(t, o)
  BY DEF GivenAt
<1>2. NamedAt[s] = UNION {SpelledOut(t, p) : p \in AgentsOf(t)}
  BY DEF NamedAt, NamedColumns
<1>3. \A p \in AgentsOf(t) : SpelledOut(t, p) \subseteq AgentColumns
  <2>1. ASSUME NEW p \in AgentsOf(t) PROVE Given(t, p) \subseteq AgentColumns
    BY GivenTyped DEF GivenAt
  <2> QED
    BY <2>1 DEF SpelledOut
<1>4. "role" \notin NamedAt[s]
  BY <1>2, <1>3 DEF AgentColumns
<1>5. CASE Signed(t, o) # {}
  <2>1. PICK i \in Signed(t, o) : TRUE
    BY <1>5
  <2>2. "agent_pda" \in OwnerPatch(t.ixs[i])
    BY DEF OwnerPatch
  <2>3. OwnerPatch(t.ixs[i]) \subseteq Given(t, o)
    BY <2>1 DEF Given
  <2> QED
    BY <1>1, <1>4, <2>2, <2>3
<1>6. CASE \A p \in AgentsOf(t) :
              /\ Signed(t, p) = {} /\ Cardinality(Heard(t, p)) = 1
              /\ \A k \in Heard(t, p) : AnchorEvents(t)[k].kind = "AgentSettled"
  <2>1. ASSUME NEW p \in AgentsOf(t) PROVE "agent_pda" \notin SpelledOut(t, p)
    <3>1. Signed(t, p) = {} /\ Cardinality(Heard(t, p)) = 1
      BY <1>6
    <3>2. Cardinality(Signed(t, p)) + Cardinality(Heard(t, p)) = 1
      BY <3>1, FS_EmptySet
    <3>3. SpelledOut(t, p) = Given(t, p)
      BY <3>2 DEF SpelledOut
    <3>4. "agent_pda" \notin EventPatch("AgentSettled")
      BY DEF EventPatch
    <3> QED
      BY <1>6, <3>1, <3>3, <3>4 DEF Given
  <2> QED
    BY <1>2, <1>4, <2>1
<1> QED
  BY <1>1, <1>5, <1>6 DEF Apart

LEMMA ProfilesStay ==
    ASSUME IndexerInv, [Next]_vars, \A s \in Sigs : Apart(Ledger[s])
    PROVE  \A o \in Owners : agents[o] \cap {"agent_pda", "role"} \subseteq agents'[o]
<1>0. DOMAIN agents = Owners
  BY DEF IndexerInv, Typed
<1>1. CASE agents' = agents
  BY <1>1
<1>2. ASSUME NEW s \in Sigs, ApplyAgentPatches(s), NEW o \in Owners
      PROVE  agents[o] \cap {"agent_pda", "role"} \subseteq agents'[o]
  <2>1. CASE agents' = agents
    BY <2>1
  <2>2. CASE agents' = [p \in Owners |-> IF p \in DOMAIN GivenAt[s]
                            THEN AgentRow(agents[p], GivenAt[s][p], NamedAt[s]) ELSE agents[p]]
    <3>1. CASE o \notin DOMAIN GivenAt[s]
      BY <2>2, <3>1
    <3>2. CASE o \in DOMAIN GivenAt[s]
      <4>1. agents'[o] = AgentRow(agents[o], GivenAt[s][o], NamedAt[s])
        BY <2>2, <3>2
      <4>2. "role" \notin NamedAt[s]
            /\ ("agent_pda" \in NamedAt[s] => "agent_pda" \in GivenAt[s][o])
        BY <3>2, AddressGiven
      <4> QED
        BY <4>1, <4>2 DEF AgentRow
    <3> QED
      BY <3>1, <3>2
  <2> QED
    BY <1>2, <2>1, <2>2 DEF ApplyAgentPatches
<1>3. ASSUME NEW p \in Owners, TagAgentRole(p), NEW o \in Owners
      PROVE  agents[o] \subseteq agents'[o]
  BY <1>0, <1>3 DEF TagAgentRole
<1>4. ASSUME NEW s \in Sigs, IngestStep(s) PROVE agents' = agents \/ ApplyAgentPatches(s)
  BY <1>4 DEF IngestStep, Fetch, ApplyMarketPatches, InsertEvents, SaveOwnCursor, tables
<1>5. ASSUME NEW c \in Clusters, WorkerStep(c) PROVE agents' = agents
  BY <1>5 DEF WorkerStep, ListSignatures, LoadCursorFails, RunnerTakes, RunnersDone, AttachLogs,
              Reconnect, tables
<1>6. ASSUME NEW s \in Sigs, Deliver(s) \/ Lose(s) \/ Repeat(s) \/ PatchMarketRow(s)
      PROVE  agents' = agents
  BY <1>6 DEF Deliver, Lose, Repeat, PatchMarketRow, tables
<1>7. Boot \/ Land \/ Crash \/ UNCHANGED vars => agents' = agents
  BY DEF Boot, Land, Crash, vars, tables
<1> QED
  BY <1>1, <1>2, <1>3, <1>4, <1>5, <1>6, <1>7 DEF Next

\* A patch of a market's row sets columns and blanks none.
LEMMA MarketsStay ==
    ASSUME IndexerInv, [Next]_vars
    PROVE  \A m \in DOMAIN markets : \A c \in MarketColumns :
               markets[m][c] # Null => m \in DOMAIN markets' /\ markets'[m][c] # Null
<1>0. Typed /\ Chains
  BY DEF IndexerInv
<1>1. CASE markets' = markets
  BY <1>1
<1>2. ASSUME NEW s \in Sigs, NEW patch, Fills(patch), MarketAt[s] \in Markets,
             markets' = Over(Sets({MarketAt[s]}, Upsert(RowOf(MarketAt[s]), patch)), markets)
      PROVE  \A m \in DOMAIN markets : \A c \in MarketColumns :
                 markets[m][c] # Null => m \in DOMAIN markets' /\ markets'[m][c] # Null
  BY <1>0, <1>2, WritesOneRow DEF Typed
<1>3. ASSUME NEW s \in Sigs, ApplyMarketPatches(s)
      PROVE  \A m \in DOMAIN markets : \A c \in MarketColumns :
                 markets[m][c] # Null => m \in DOMAIN markets' /\ markets'[m][c] # Null
  <2> DEFINE patch == Over(PricePatch(PriceAt[s], job[s].price), PatchAt[s])
  <2>1. Fills(patch)
    BY PatchFills, PriceFills, OverFills
  <2>2. MarketAt[s] \in Markets
    BY <1>0, <1>3, MarketTyped DEF ApplyMarketPatches, Chains, ChainRelies
  <2>3. \/ markets' = Over(Sets({MarketAt[s]}, Upsert(RowOf(MarketAt[s]), patch)), markets)
        \/ markets' = markets
    BY <1>3 DEF ApplyMarketPatches, RowOf
  <2> HIDE DEF patch
  <2> QED
    BY <1>1, <1>2, <2>1, <2>2, <2>3
<1>4. ASSUME NEW s \in Sigs, PatchMarketRow(s)
      PROVE  \A m \in DOMAIN markets : \A c \in MarketColumns :
                 markets[m][c] # Null => m \in DOMAIN markets' /\ markets'[m][c] # Null
  <2>1. MarketAt[s] \in Markets /\ Fills(ThroughPatch(s))
    BY <1>0, <1>4, NamesMarket, ThroughFills DEF PatchMarketRow, Typed
  <2>2. \/ markets' = Over(Sets({MarketAt[s]}, Upsert(RowOf(MarketAt[s]), ThroughPatch(s))), markets)
        \/ markets' = markets
    BY <1>4 DEF PatchMarketRow, RowOf
  <2> QED
    BY <1>1, <1>2, <2>1, <2>2
<1>5. ASSUME NEW s \in Sigs, IngestStep(s) PROVE markets' = markets \/ ApplyMarketPatches(s)
  BY <1>5 DEF IngestStep, Fetch, InsertEvents, ApplyAgentPatches, SaveOwnCursor, tables
<1>6. ASSUME NEW c \in Clusters, WorkerStep(c) PROVE markets' = markets
  BY <1>6 DEF WorkerStep, ListSignatures, LoadCursorFails, RunnerTakes, RunnersDone, AttachLogs,
              Reconnect, tables
<1>7. ASSUME NEW s \in Sigs, Deliver(s) \/ Lose(s) \/ Repeat(s) PROVE markets' = markets
  BY <1>7 DEF Deliver, Lose, Repeat, tables
<1>8. Boot \/ Land \/ Crash \/ (\E o \in Owners : TagAgentRole(o)) \/ UNCHANGED vars
      => markets' = markets
  BY DEF Boot, Land, Crash, TagAgentRole, vars, tables
<1>9. (\E s \in Sigs : ApplyMarketPatches(s) \/ PatchMarketRow(s)) \/ markets' = markets
  BY <1>5, <1>6, <1>7, <1>8 DEF Next
<1> QED
  BY <1>1, <1>3, <1>4, <1>9

-----------------------------------------------------------------------------
(* The theorems.                                                           *)

THEOREM Invariance == Spec => []IndexerInv
  BY InitInv, NextKept, PTL DEF Spec

\* Types: a chain's calls are of the known ones, no more backfill chains run than
\* there are runners, and none outside its cluster's backfill.
THEOREM IndexerTypes == Spec => []TypeOK
<1>1. ASSUME IndexerInv PROVE TypeOK
  <2>0. Typed /\ Workers
    BY <1>1 DEF IndexerInv
  <2>1. ASSUME NEW s \in Sigs
        PROVE  /\ job[s].by \in {"none", "live", "backfill"}
               /\ job[s].todo \in Seq({"fetch", "markets", "events", "agents", "cursor"})
               /\ job[s].price \in Prices /\ job[s].card \in Nat \cup {Null}
    <3>1. job[s] \in Jobs
      BY <2>0 DEF Typed
    <3>2. Lists \subseteq Seq({"fetch", "markets", "events", "agents", "cursor"})
      BY DEF Lists
    <3> QED
      BY <3>1, <3>2 DEF Jobs
  <2>2. ASSUME NEW c \in Clusters
        PROVE  /\ Cardinality(JobsOf(c)) <= Runners
               /\ JobsOf(c) # {} => phase[c] = "run"
               /\ JobsOf(c) = {s \in Sigs : job[s].by = "backfill" /\ Ledger[s].cluster = c}
    <3>1. JobsOf(c) = {s \in Sigs : job[s].by = "backfill" /\ Ledger[s].cluster = c}
      BY DEF JobsOf
    <3> QED
      BY <1>1, <2>0, <3>1, NoRunNoJobs DEF Workers
  <2>3. DOMAIN job = Sigs /\ excused \cup dropped \subseteq Sigs /\ through \subseteq Sigs
    BY <2>0 DEF Typed
  <2>4. \A c \in Clusters : LET running == {s \in Sigs : job[s].by = "backfill"
                                                      /\ Ledger[s].cluster = c}
                           IN  /\ Cardinality(running) <= Runners
                               /\ running # {} => phase[c] = "run"
    BY <2>2
  <2> QED
    BY <2>0, <2>1, <2>3, <2>4 DEF TypeOK, Typed
<1> QED
  BY <1>1, Invariance, PTL

\* The cursor passes no signature that is not stored, nothing to store, being
\* stored, or lost in one of the ways for which the code has no remedy
\* (backfillCluster, subscribeLive: chains run side by side and each moves the
\* cursor), for every ledger, every number of runners and every page.
THEOREM NoGapIsUnexplained == Spec => []NoUnexplainedGap
<1>1. IndexerInv => NoUnexplainedGap
  BY DEF IndexerInv, Gaps, Passed, Explained, Settled, NoUnexplainedGap, Place
<1> QED
  BY <1>1, Invariance, PTL

\* The rows of a signature are complete and stand one to a key, however often it
\* was stored, by one process or by several in turn (insertEvents: ON CONFLICT DO
\* NOTHING over nextSeq's numbers).
THEOREM RowsAreWhole == Spec => []EventRowsWhole
<1>1. ASSUME IndexerInv, NEW s \in Sigs, Stored(s)
      PROVE  Cardinality(events[s]) = Len(Batches[s])
  <2>1. PICK card : events[s] = Rows(s, card)
    BY <1>1 DEF IndexerInv, Whole, Stored
  <2> QED
    BY <2>1, RowsCount
<1>2. IndexerInv => EventRowsWhole
  BY <1>1 DEF EventRowsWhole
<1> QED
  BY <1>2, Invariance, PTL

\* The timeline is append-only (0001_indexer.sql): no row is removed or rewritten
\* when its signature is stored again, by whichever chain.
THEOREM TimelineOnlyGrows == Spec => AppendOnly
<1>1. IndexerInv /\ [Next]_vars => [\A s \in Sigs : events[s] \subseteq events'[s]]_vars
  BY RowsStay
<1> QED
  BY <1>1, Invariance, PTL DEF Spec, AppendOnly

\* Nobody blanks what another found out of a market, nor the address and role of
\* a profile (applyMarketPatches, applyAgentPatches, the scheduler's and the
\* agents' own writes), if every transaction either has an instruction of each
\* profile it patches, or does no more than settle each of them once.
THEOREM NothingIsBlanked ==
    ASSUME \A s \in Sigs : Apart(Ledger[s])
    PROVE  Spec => NothingBlanked
<1>1. IndexerInv /\ [Next]_vars =>
        [/\ \A m \in DOMAIN markets : \A c \in MarketColumns :
               markets[m][c] # Null => m \in DOMAIN markets' /\ markets'[m][c] # Null
         /\ \A o \in Owners : agents[o] \cap {"agent_pda", "role"} \subseteq agents'[o]]_vars
  BY MarketsStay, ProfilesStay
<1> QED
  BY <1>1, Invariance, PTL DEF Spec, NothingBlanked
=============================================================================
