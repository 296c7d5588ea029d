------------------------ MODULE OperationLedgerProofs ------------------------
(***************************************************************************)
(* Proofs about the runtime operation ledger.                              *)
(***************************************************************************)
EXTENDS OperationLedger, FiniteSetTheorems, WellFoundedInduction, TLAPS

-----------------------------------------------------------------------------
(* Sums over finite sets.  The community modules define a sum by removing  *)
(* one chosen element after the other; these lemmas show that it is a      *)
(* natural number and that the choice does not matter.                     *)

\* The sum of what the operations of S reserve.
AmountOf(S) == MapThenSumSet(LAMBDA o : Amount[o], S)

\* The element the sum over s removes first.
First(s) == CHOOSE x \in s : TRUE

\* f is the table of partial sums over the subsets of S.
SumTable(f, S) ==
    f = [s \in SUBSET S |-> IF s = {} THEN 0 ELSE Amount[First(s)] + f[s \ {First(s)}]]

\* Induction over the subsets of a finite set: a property some subset misses is
\* missed by a minimal one.
LEMMA MinimalSubset ==
    ASSUME NEW S, IsFiniteSet(S), NEW B \in SUBSET SUBSET S, B # {}
    PROVE  \E T \in B : \A U \in B : U \subseteq T => U = T
<1>1. IsWellFoundedOn(StrictSubsetOrdering(S), FiniteSubsetsOf(S))
  BY FS_StrictSubsetOrderingWellFounded
<1>2. B \subseteq FiniteSubsetsOf(S)
  BY FS_Subset DEF FiniteSubsetsOf
<1>3. PICK T \in B : \A U \in B : ~(<<U, T>> \in StrictSubsetOrdering(S))
  BY <1>1, <1>2, WFMin
<1>4. \A U \in B : U \subseteq T => U = T
  BY <1>3 DEF StrictSubsetOrdering
<1> QED
  BY <1>3, <1>4

\* Two tables agree where both are defined.
LEMMA TablesAgree ==
    ASSUME NEW S \in SUBSET Ops, NEW T \in SUBSET Ops, IsFiniteSet(Ops),
           NEW f, SumTable(f, S), NEW g, SumTable(g, T),
           NEW s, s \subseteq S, s \subseteq T
    PROVE  f[s] = g[s]
<1> DEFINE B == {u \in SUBSET s : f[u] # g[u]}
<1>1. SUFFICES ASSUME f[s] # g[s] PROVE FALSE
  OBVIOUS
<1>2. IsFiniteSet(s)
  BY FS_Subset
<1>3. PICK u \in B : \A v \in B : v \subseteq u => v = u
  <2>1. B \in SUBSET SUBSET s /\ B # {}
    BY <1>1
  <2> HIDE DEF B
  <2>2. QED
    BY <2>1, <1>2, MinimalSubset
<1>4. u \in SUBSET S /\ u \in SUBSET T
  OBVIOUS
<1>5. CASE u = {}
  BY <1>3, <1>4, <1>5 DEF SumTable
<1>6. CASE u # {}
  <2> DEFINE r == u \ {First(u)}
  <2>1. First(u) \in u
    BY <1>6 DEF First
  <2>2. r \subseteq u /\ r # u /\ r \in SUBSET s
    BY <2>1
  <2>3. f[r] = g[r]
    BY <1>3, <2>2
  <2>4. f[u] = Amount[First(u)] + f[r] /\ g[u] = Amount[First(u)] + g[r]
    BY <1>4, <1>6 DEF SumTable
  <2>5. QED
    BY <2>3, <2>4, <1>3
<1>7. QED
  BY <1>5, <1>6

\* Every set of operations has its table.
LEMMA TableExists ==
    ASSUME IsFiniteSet(Ops), NEW S \in SUBSET Ops
    PROVE  \E f : SumTable(f, S)
<1> DEFINE B == {T \in SUBSET Ops : ~ \E f : SumTable(f, T)}
<1>1. SUFFICES ASSUME B # {} PROVE FALSE
  OBVIOUS
<1>2. PICK T \in B : \A U \in B : U \subseteq T => U = T
  <2>1. B \in SUBSET SUBSET Ops
    OBVIOUS
  <2> HIDE DEF B
  <2>2. QED
    BY <2>1, <1>1, MinimalSubset
<1> DEFINE table(r) == CHOOSE g : SumTable(g, r)
           rest(s)  == s \ {First(s)}
           f == [s \in SUBSET T |-> IF s = {} THEN 0
                                    ELSE Amount[First(s)] + table(rest(s))[rest(s)]]
<1>3. \A s \in SUBSET T : s # {} => rest(s) \in SUBSET T /\ rest(s) # T
  BY DEF First
<1>4. \A r \in SUBSET T : r # T => SumTable(table(r), r)
  <2> TAKE r \in SUBSET T
  <2>1. SUFFICES ASSUME r # T PROVE SumTable(table(r), r)
    OBVIOUS
  <2>2. r \notin B
    BY <1>2, <2>1
  <2>3. \E g : SumTable(g, r)
    BY <2>2
  <2>4. QED
    BY <2>3
<1>5. \A s \in SUBSET T : s # {} => f[rest(s)] = table(rest(s))[rest(s)]
  <2> TAKE s \in SUBSET T
  <2>1. SUFFICES ASSUME s # {} PROVE f[rest(s)] = table(rest(s))[rest(s)]
    OBVIOUS
  <2> DEFINE r == rest(s)
  <2>2. r \in SUBSET T /\ r # T
    BY <2>1, <1>3
  <2>3. SumTable(table(r), r)
    BY <2>2, <1>4
  <2> HIDE DEF r
  <2>4. CASE r = {}
    <3>1. f[r] = 0
      BY <2>2, <2>4
    <3>2. table(r)[r] = 0
      <4> HIDE DEF table
      <4> QED
        BY <2>3, <2>4 DEF SumTable
    <3>3. QED
      BY <3>1, <3>2 DEF r
  <2>5. CASE r # {}
    <3> DEFINE q == rest(r)
    <3>1. q \in SUBSET T /\ q # T /\ q \subseteq r
      BY <2>2, <2>5, <1>3
    <3>2. SumTable(table(q), q)
      BY <3>1, <1>4
    <3>3. f[r] = Amount[First(r)] + table(q)[q]
      BY <2>2, <2>5
    <3> DEFINE h == table(r)  k == table(q)
    <3>4. SumTable(h, r) /\ SumTable(k, q)
      BY <2>3, <3>2
    <3> HIDE DEF h, k, q
    <3>5. h[q] = k[q]
      BY <3>1, <3>4, <2>2, TablesAgree
    <3>6. h[r] = Amount[First(r)] + h[q]
      BY <2>5, <3>4 DEF SumTable, q
    <3>7. QED
      BY <3>3, <3>5, <3>6 DEF r, h, k
  <2>6. QED
    BY <2>4, <2>5 DEF r
<1>6. SumTable(f, T)
  <2> HIDE DEF table
  <2> QED
    BY <1>5 DEF SumTable
<1>7. QED
  BY <1>2, <1>6

\* The sum is the last entry of a table.
LEMMA AmountFromTable ==
    ASSUME IsFiniteSet(Ops), NEW S \in SUBSET Ops
    PROVE  \E f : SumTable(f, S) /\ AmountOf(S) = f[S]
<1> DEFINE f == CHOOSE g : SumTable(g, S)
<1>1. SumTable(f, S)
  BY TableExists
<1>2. AmountOf(S) = f[S]
  BY DEF AmountOf, MapThenSumSet, MapThenFoldSet, SumTable, First
<1> QED
  BY <1>1, <1>2

\* Nothing reserves nothing; otherwise the sum adds the first element to the rest.
LEMMA AmountUnfolds ==
    ASSUME IsFiniteSet(Ops), NEW S \in SUBSET Ops
    PROVE  /\ S = {} => AmountOf(S) = 0
           /\ S # {} => AmountOf(S) = Amount[First(S)] + AmountOf(S \ {First(S)})
<1> DEFINE r == S \ {First(S)}
<1>1. PICK f : SumTable(f, S) /\ AmountOf(S) = f[S]
  BY AmountFromTable
<1>2. PICK g : SumTable(g, r) /\ AmountOf(r) = g[r]
  BY AmountFromTable
<1>3. f[r] = g[r]
  BY <1>1, <1>2, TablesAgree
<1>4. S = {} => f[S] = 0
  BY <1>1 DEF SumTable
<1>5. S # {} => f[S] = Amount[First(S)] + f[r]
  BY <1>1 DEF SumTable
<1> QED
  BY <1>1, <1>2, <1>3, <1>4, <1>5

\* A sum of reservations is a natural number.
LEMMA AmountIsNat ==
    ASSUME IsFiniteSet(Ops), Amount \in [Ops -> Nat], NEW S \in SUBSET Ops
    PROVE  AmountOf(S) \in Nat
<1> DEFINE B == {T \in SUBSET Ops : AmountOf(T) \notin Nat}
<1>1. SUFFICES ASSUME B # {} PROVE FALSE
  OBVIOUS
<1>2. PICK T \in B : \A U \in B : U \subseteq T => U = T
  <2>1. B \in SUBSET SUBSET Ops
    OBVIOUS
  <2> HIDE DEF B
  <2>2. QED
    BY <2>1, <1>1, MinimalSubset
<1>3. T # {}
  <2>1. T \in SUBSET Ops /\ AmountOf(T) \notin Nat
    BY <1>2
  <2> HIDE DEF B
  <2>2. T = {} => AmountOf(T) = 0
    BY <2>1, AmountUnfolds
  <2>3. QED
    BY <2>1, <2>2
<1> DEFINE r == T \ {First(T)}
<1>4. First(T) \in T
  BY <1>3 DEF First
<1>5. AmountOf(r) \in Nat
  BY <1>2, <1>4
<1>6. AmountOf(T) = Amount[First(T)] + AmountOf(r)
  BY <1>3, AmountUnfolds
<1>7. QED
  BY <1>2, <1>4, <1>5, <1>6

\* Whatever is chosen first, an element more adds what it reserves.
LEMMA AmountAdds ==
    ASSUME IsFiniteSet(Ops), Amount \in [Ops -> Nat],
           NEW S \in SUBSET Ops, NEW x \in Ops \ S
    PROVE  AmountOf(S \cup {x}) = AmountOf(S) + Amount[x]
<1> DEFINE Adds(T) == \A y \in T : AmountOf(T) = AmountOf(T \ {y}) + Amount[y]
           B == {T \in SUBSET Ops : ~Adds(T)}
<1>1. B = {}
  <2>1. SUFFICES ASSUME B # {} PROVE FALSE
    OBVIOUS
  <2>2. PICK T \in B : \A U \in B : U \subseteq T => U = T
    <3>1. B \in SUBSET SUBSET Ops
      OBVIOUS
    <3> HIDE DEF B
    <3>2. QED
      BY <3>1, <2>1, MinimalSubset
  <2>3. PICK y \in T : AmountOf(T) # AmountOf(T \ {y}) + Amount[y]
    BY <2>2
  <2> DEFINE z == First(T)  r == T \ {z}  q == r \ {y}
  <2>4. z \in T
    BY <2>3 DEF First
  <2>5. AmountOf(T) = Amount[z] + AmountOf(r)
    BY <2>3, AmountUnfolds
  <2>6. y # z
    <3>1. AmountOf(r) \in Nat /\ Amount[z] \in Nat
      BY <2>4, AmountIsNat
    <3> HIDE DEF z
    <3>2. QED
      BY <2>3, <2>4, <2>5, <3>1
  <2>7. r \in SUBSET Ops /\ r \notin B /\ y \in r
    <3>1. r \subseteq T /\ r # T
      BY <2>4
    <3>2. QED
      BY <2>2, <2>3, <2>6, <3>1
  <2>8. AmountOf(r) = AmountOf(q) + Amount[y]
    BY <2>7
  <2> DEFINE p == T \ {y}
  <2>9. p \in SUBSET Ops /\ p \notin B /\ z \in p
    <3>1. p \subseteq T /\ p # T
      BY <2>3
    <3>2. QED
      BY <2>2, <2>4, <2>6, <3>1
  <2>10. AmountOf(p) = AmountOf(p \ {z}) + Amount[z]
    BY <2>9
  <2>11. p \ {z} = q
    OBVIOUS
  <2>12. AmountOf(q) \in Nat /\ Amount[y] \in Nat /\ Amount[z] \in Nat
    BY <2>3, <2>4, AmountIsNat
  <2>13. AmountOf(T) # AmountOf(p) + Amount[y]
    BY <2>3
  <2> HIDE DEF z, p, q, r
  <2>14. QED
    BY <2>5, <2>8, <2>10, <2>11, <2>12, <2>13
<1>2. (S \cup {x}) \ {x} = S
  OBVIOUS
<1>3. Adds(S \cup {x})
  BY <1>1
<1>4. QED
  BY <1>2, <1>3

\* What is taken out of a sum is what the rest no longer has.
LEMMA AmountSplits ==
    ASSUME IsFiniteSet(Ops), Amount \in [Ops -> Nat],
           NEW S \in SUBSET Ops, NEW T \in SUBSET S
    PROVE  AmountOf(S \ T) = AmountOf(S) - AmountOf(T)
<1> DEFINE Splits(U) == AmountOf(S) = AmountOf(S \ U) + AmountOf(U)
           B == {U \in SUBSET S : ~Splits(U)}
<1>1. B = {}
  <2>1. SUFFICES ASSUME B # {} PROVE FALSE
    OBVIOUS
  <2>2. PICK U \in B : \A V \in B : V \subseteq U => V = U
    <3>1. B \in SUBSET SUBSET Ops
      OBVIOUS
    <3> HIDE DEF B
    <3>2. QED
      BY <3>1, <2>1, MinimalSubset
  <2>3. U # {}
    <3>1. SUFFICES ASSUME U = {} PROVE FALSE
      OBVIOUS
    <3>2. S \ U = S /\ AmountOf(U) = 0 /\ AmountOf(S) \in Nat
      BY <3>1, AmountUnfolds, AmountIsNat
    <3>3. ~Splits(U)
      BY <2>2
    <3>4. QED
      BY <3>2, <3>3
  <2>4. PICK x \in U : TRUE
    BY <2>3
  <2> DEFINE V == U \ {x}
  <2>5. Splits(V)
    <3>1. V \subseteq U /\ V # U
      BY <2>4
    <3>2. QED
      BY <2>2, <3>1
  <2>6. V \in SUBSET Ops /\ x \in Ops \ V /\ U = V \cup {x}
    BY <2>4
  <2>7. AmountOf(U) = AmountOf(V) + Amount[x]
    <3> HIDE DEF V
    <3> QED
      BY <2>6, AmountAdds
  <2>8. S \ U \in SUBSET Ops /\ x \in Ops \ (S \ U) /\ S \ V = (S \ U) \cup {x}
    BY <2>4
  <2>9. AmountOf(S \ V) = AmountOf(S \ U) + Amount[x]
    BY <2>8, AmountAdds
  <2>10. AmountOf(V) \in Nat /\ AmountOf(S \ U) \in Nat /\ Amount[x] \in Nat
    BY <2>6, <2>8, AmountIsNat
  <2>11. ~Splits(U)
    BY <2>2
  <2> HIDE DEF V
  <2>12. QED
    BY <2>5, <2>7, <2>9, <2>10, <2>11
<1>2. Splits(T)
  BY <1>1
<1>3. AmountOf(T) \in Nat /\ AmountOf(S \ T) \in Nat
  BY AmountIsNat
<1>4. QED
  BY <1>2, <1>3

-----------------------------------------------------------------------------
(* Rows and the ways a transaction may write one.                          *)

\* The columns of a row agree: effects are known exactly when the operation has
\* ended, an operation in flight has a lease, one without can only be waiting or
\* canceled, and everything planned has a reservation.
RowOK(d) ==
    LET s == d.snap.status IN
    /\ d \in Rows
    /\ s # "planned"
    /\ s \in Terminal <=> d.snap.effects # "null"
    /\ s = "absent" <=> d.resv = "none"
    /\ s = "absent" => d.snap = Absent
    /\ d.lease = "none" => s \in Waiting \cup {"absent", "ready", "cancel_requested", "canceled"}
    /\ d.lease # "none" => s \in Terminal \cup {"dispatched", "running", "cancel_requested", "unknown"}
    /\ s = "cancel_requested" => d.snap.cancel
    /\ d.snap.cancel => s \in Terminal \cup {"cancel_requested", "unknown"}

\* The server's own ways of writing a row that exists: it may cut or give up an
\* operation, but it ends one only as "none" and only if it was never leased.
ServerMove(d, e) ==
    /\ RowOK(e)
    /\ e.lease = "none" <=> d.lease = "none"
    /\ e.snap.status = "absent" <=> d.snap.status = "absent"
    /\ d.snap.status \in Terminal => e.snap = d.snap
    /\ d.snap.status = "unknown" => e.snap.status = "unknown"
    /\ e.snap.status = "running" => d.snap.status = "running"
    /\ e.snap.status \in Terminal /\ d.snap.status \notin Terminal =>
         e.snap.effects = "none" /\ d.lease = "none"
    /\ d.snap.cancel => e.snap.cancel
    /\ d.resv = "settled" => e.resv = "settled"
    /\ d.resv = "held" => e.resv \in {"held", "settled"}

\* createOperation.
Created(d, e) ==
    /\ d.snap.status = "absent"
    /\ RowOK(e)
    /\ e.lease = "none" /\ e.resv = "held"
    /\ e.snap.status \in {"ready", "waiting_user"}

\* dispatchLocked, the first time.
Leased(d, e) ==
    /\ d.lease = "none" /\ d.snap.status \in Waiting \cup {"ready"}
    /\ RowOK(e)
    /\ e.lease = "live" /\ e.snap.status = "dispatched"
    /\ e.resv = d.resv /\ e.snap.cancel = d.snap.cancel

\* startOperation.
Begun(d, e) ==
    /\ d.lease = "live" /\ d.snap.status = "dispatched"
    /\ RowOK(e)
    /\ e.lease = d.lease /\ e.snap.status = "running"
    /\ e.resv = d.resv /\ e.snap.cancel = d.snap.cancel

\* recordReceipt, of an applied fact sig.
Told(d, e, sig) ==
    /\ d.lease # "none"
    /\ RowOK(e)
    /\ e.lease = d.lease /\ e.resv = d.resv
    /\ d.snap.cancel => e.snap.cancel
    /\ e.snap.status = "running" => d.snap.status = "running" \/ sig.type = "started"
    /\ d.snap.status = "unknown" => e.snap.status \in Terminal \cup {"unknown"}
    /\ d.snap.status \in Terminal => e = d
    /\ sig.type \in {"outcome", "stopped"} =>
         /\ d.snap.status \notin Terminal /\ e.snap.status \in Terminal
         /\ e.snap.effects = sig.effects
    /\ sig.type \notin {"outcome", "stopped"} /\ d.snap.status \notin Terminal =>
         e.snap.status \notin Terminal

\* Two of the server's own moves make one.
LEMMA ServerMovesCompose ==
    ASSUME NEW d, NEW e, NEW f, ServerMove(d, e), ServerMove(e, f)
    PROVE  ServerMove(d, f)
BY DEF ServerMove

\* A row left alone is a server's move.
LEMMA StandingStill ==
    ASSUME NEW d, RowOK(d)
    PROVE  ServerMove(d, d)
<1>1. d.resv \in {"none", "held", "settled"}
  BY DEF RowOK, Rows
<1> QED
  BY <1>1 DEF ServerMove

\* A row that is not absent holds a snapshot of the contract.
LEMMA SnapshotOfRow ==
    ASSUME NEW d \in Rows, d.snap.status # "absent"
    PROVE  d.snap \in Snapshots
BY DEF Rows, Absent, Planned

\* What a signal makes of a row.
LEMMA Appended ==
    ASSUME NEW d \in Rows, d.snap.status # "absent", NEW sig
    PROVE  LET e == AppendEvent(d, sig) IN
           /\ e.snap = Advance(d.snap, sig) /\ e.lease = d.lease /\ e.resv = d.resv
           /\ e.snap.status = IF KeepsStatus(d.snap, sig) THEN d.snap.status ELSE TargetStatus(sig)
           /\ e.snap.cancel = (d.snap.cancel \/ sig.type = "cancel_requested")
           /\ e.snap.effects = IF sig.type \in {"outcome", "stopped"} THEN sig.effects
                               ELSE d.snap.effects
           /\ e.snap.status \in Statuses /\ e.snap.effects \in Effects \cup {"null"}
                => e \in Rows
<1> DEFINE e == AppendEvent(d, sig)
           s == Advance(d.snap, sig)
<1>1. e = [d EXCEPT !.snap = s]
  BY DEF AppendEvent
<1>2. /\ s.status = IF KeepsStatus(d.snap, sig) THEN d.snap.status ELSE TargetStatus(sig)
      /\ s.cancel = (d.snap.cancel \/ sig.type = "cancel_requested")
      /\ s.effects = IF sig.type \in {"outcome", "stopped"} THEN sig.effects ELSE d.snap.effects
  BY DEF Advance
<1>3. s.status \in Statuses /\ s.effects \in Effects \cup {"null"} => s \in Snapshots
  BY DEF Advance, Snapshots
<1> HIDE DEF s
<1>4. e.snap = s /\ e.lease = d.lease /\ e.resv = d.resv /\ (s \in Snapshots => e \in Rows)
  BY <1>1 DEF Rows
<1> QED
  BY <1>2, <1>3, <1>4 DEF s

\* The cancellation of one row.
LEMMA CancelRowMoves ==
    ASSUME NEW o \in Ops, NEW d, RowOK(d)
    PROVE  /\ ServerMove(d, CancelRow(o, d))
           /\ CancelRow(o, d).snap.status \in Terminal \cup {"absent"} \/ CancelRow(o, d).snap.cancel
           /\ CancelRow(o, d).lease = d.lease
<1> DEFINE asked == IF d.snap.status \in Terminal \cup {"absent"} \/ d.snap.cancel
                    THEN d ELSE AppendEvent(d, Plain("cancel_requested"))
           ended == [AppendEvent(asked, Stopped("none")) EXCEPT
                       !.resv = IF o \in AgentOps THEN "settled" ELSE @]
           e == CancelRow(o, d)
<1>1. ServerMove(d, asked) /\ asked.lease = d.lease
      /\ (asked.snap.status \in Terminal \cup {"absent"} \/ asked.snap.cancel)
  <2>1. CASE d.snap.status \in Terminal \cup {"absent"} \/ d.snap.cancel
    BY <2>1, StandingStill
  <2>2. CASE ~(d.snap.status \in Terminal \cup {"absent"} \/ d.snap.cancel)
    <3> DEFINE c == AppendEvent(d, Plain("cancel_requested"))
    <3>1. d \in Rows /\ d.snap \in Snapshots /\ d.snap.status # "absent" /\ d.snap.status # "planned"
      BY <2>2, SnapshotOfRow DEF RowOK
    <3>2. c.lease = d.lease /\ c.resv = d.resv
          /\ c.snap.status \in {"cancel_requested", "unknown"}
          /\ (d.snap.status = "unknown" <=> c.snap.status = "unknown")
          /\ c.snap.cancel /\ c.snap.effects = d.snap.effects
          /\ c \in Rows
      <4>1. KeepsStatus(d.snap, Plain("cancel_requested"))
              <=> d.snap.status \in {"cancel_requested", "unknown"}
        BY DEF KeepsStatus, Plain
      <4>2. TargetStatus(Plain("cancel_requested")) = "cancel_requested"
        BY DEF TargetStatus, Plain
      <4>3. Plain("cancel_requested").type = "cancel_requested"
        BY DEF Plain
      <4>4. d.snap.effects \in Effects \cup {"null"}
        BY <3>1 DEF Snapshots
      <4>5. /\ c.lease = d.lease /\ c.resv = d.resv
            /\ c.snap.status = IF d.snap.status \in {"cancel_requested", "unknown"}
                               THEN d.snap.status ELSE "cancel_requested"
            /\ c.snap.cancel = (d.snap.cancel \/ TRUE)
            /\ c.snap.effects = d.snap.effects
            /\ c.snap.status \in Statuses /\ c.snap.effects \in Effects \cup {"null"} => c \in Rows
        BY <3>1, <4>1, <4>2, <4>3, Appended
      <4> HIDE DEF c
      <4>6. QED
        BY <4>4, <4>5 DEF Statuses
    <3>3. asked = c
      BY <2>2
    <3> HIDE DEF c, asked
    <3>4. RowOK(c)
      BY <2>2, <3>1, <3>2 DEF RowOK, Terminal, KnownOutcomes, Waiting
    <3>5. QED
      BY <2>2, <3>1, <3>2, <3>3, <3>4 DEF ServerMove, RowOK, Rows, Terminal, KnownOutcomes
  <2>3. QED
    BY <2>1, <2>2
<1>2. CASE ~(asked.snap.status = "cancel_requested" /\ d.lease = "none" /\ Capability[o] \in ProvesNone)
  <2>1. e = asked
    BY <1>1, <1>2 DEF CancelRow
  <2>2. QED
    BY <1>1, <2>1
<1>3. CASE asked.snap.status = "cancel_requested" /\ d.lease = "none" /\ Capability[o] \in ProvesNone
  <2> DEFINE c == AppendEvent(asked, Stopped("none"))
  <2>1. e = ended
    BY <1>3 DEF CancelRow
  <2>2. RowOK(asked) /\ asked \in Rows /\ asked.snap \in Snapshots /\ asked.lease = "none"
    BY <1>1, <1>3, SnapshotOfRow DEF ServerMove, RowOK
  <2> HIDE DEF asked
  <2>3. c.lease = asked.lease /\ c.resv = asked.resv
        /\ c.snap.status = "canceled" /\ c.snap.effects = "none" /\ c.snap.cancel = asked.snap.cancel
        /\ c \in Rows
    <3>1. ~KeepsStatus(asked.snap, Stopped("none")) /\ TargetStatus(Stopped("none")) = "canceled"
      BY DEF KeepsStatus, TargetStatus, Stopped
    <3>2. Stopped("none").type = "stopped" /\ Stopped("none").effects = "none"
      BY DEF Stopped
    <3>3. asked.snap.cancel \in BOOLEAN
      BY <2>2 DEF Snapshots
    <3>4. /\ c.lease = asked.lease /\ c.resv = asked.resv
          /\ c.snap.status = "canceled"
          /\ c.snap.cancel = (asked.snap.cancel \/ FALSE)
          /\ c.snap.effects = "none"
          /\ c.snap.status \in Statuses /\ c.snap.effects \in Effects \cup {"null"} => c \in Rows
      <4>1. asked.snap.status # "absent"
        BY <1>3 DEF asked
      <4>2. QED
        BY <2>2, <3>1, <3>2, <4>1, Appended
    <3> HIDE DEF c
    <3>5. QED
      BY <3>3, <3>4 DEF Statuses, Terminal, Effects
  <2>4. e.snap = c.snap /\ e.lease = c.lease
        /\ e.resv = (IF o \in AgentOps THEN "settled" ELSE c.resv) /\ e \in Rows
    BY <2>1, <2>3 DEF Rows
  <2> HIDE DEF c, e
  <2>5. RowOK(e)
    BY <1>3, <2>2, <2>3, <2>4 DEF RowOK, Terminal, KnownOutcomes, Waiting, Absent
  <2>6. ServerMove(asked, e)
    BY <1>3, <2>2, <2>3, <2>4, <2>5 DEF ServerMove, RowOK, Rows, Terminal, KnownOutcomes
  <2>7. ServerMove(d, e)
    BY <1>1, <2>6, ServerMovesCompose
  <2>8. QED
    BY <1>1, <2>3, <2>4, <2>7 DEF Terminal, e
<1>4. QED
  BY <1>2, <1>3

\* Giving up an operation whose lease is over.
LEMMA ExpireRowMoves ==
    ASSUME NEW d, RowOK(d)
    PROVE  ServerMove(d, ExpireRow(d))
<1>1. CASE ~(d.lease = "expired" /\ d.snap.status \in InFlight)
  BY <1>1, StandingStill DEF ExpireRow
<1>2. CASE d.lease = "expired" /\ d.snap.status \in InFlight
  <2> DEFINE e == AppendEvent(d, Uncertain)
  <2>1. d \in Rows /\ d.snap \in Snapshots /\ d.snap.status # "absent"
    BY <1>2, SnapshotOfRow DEF RowOK, InFlight
  <2>2. ~KeepsStatus(d.snap, Uncertain) /\ TargetStatus(Uncertain) = "unknown"
    BY <1>2 DEF KeepsStatus, TargetStatus, Uncertain, Plain, InFlight
  <2>3. Uncertain.type = "uncertain"
    BY DEF Uncertain, Plain
  <2>4. /\ e.lease = d.lease /\ e.resv = d.resv
        /\ e.snap.status = "unknown"
        /\ e.snap.cancel = (d.snap.cancel \/ FALSE)
        /\ e.snap.effects = d.snap.effects
        /\ e.snap.status \in Statuses /\ e.snap.effects \in Effects \cup {"null"} => e \in Rows
    BY <2>1, <2>2, <2>3, Appended
  <2>5. ExpireRow(d) = e
    BY <1>2 DEF ExpireRow
  <2> HIDE DEF e
  <2>6. e \in Rows
    BY <2>1, <2>4 DEF Statuses, Snapshots
  <2>7. RowOK(e)
    BY <1>2, <2>1, <2>4, <2>6 DEF RowOK, Terminal, KnownOutcomes, Waiting, InFlight
  <2>8. QED
    BY <1>2, <2>1, <2>4, <2>5, <2>7 DEF ServerMove, RowOK, Rows, Terminal, KnownOutcomes, InFlight
<1>3. QED
  BY <1>1, <1>2

\* A lease that runs out, and a reservation that is settled, leave the snapshot.
LEMMA ColumnMoves ==
    ASSUME NEW d, RowOK(d)
    PROVE  /\ d.lease = "live" => ServerMove(d, [d EXCEPT !.lease = "expired"])
           /\ d.resv = "held" => ServerMove(d, [d EXCEPT !.resv = "settled"])
<1>1. d \in Rows
  BY DEF RowOK
<1>2. ASSUME d.lease = "live" PROVE ServerMove(d, [d EXCEPT !.lease = "expired"])
  <2> DEFINE e == [d EXCEPT !.lease = "expired"]
  <2>1. e \in Rows /\ e.snap = d.snap /\ e.lease = "expired" /\ e.resv = d.resv
    BY <1>1 DEF Rows
  <2> HIDE DEF e
  <2>2. RowOK(e)
    BY <1>2, <2>1 DEF RowOK
  <2>3. ServerMove(d, e)
    BY <1>1, <1>2, <2>1, <2>2 DEF ServerMove
  <2>4. QED
    BY <2>3 DEF e
<1>3. ASSUME d.resv = "held" PROVE ServerMove(d, [d EXCEPT !.resv = "settled"])
  <2> DEFINE e == [d EXCEPT !.resv = "settled"]
  <2>1. e \in Rows /\ e.snap = d.snap /\ e.lease = d.lease /\ e.resv = "settled"
    BY <1>1 DEF Rows
  <2> HIDE DEF e
  <2>2. RowOK(e)
    BY <1>3, <2>1 DEF RowOK
  <2>3. ServerMove(d, e)
    BY <1>1, <1>3, <2>1, <2>2 DEF ServerMove
  <2>4. QED
    BY <2>3 DEF e
<1>4. QED
  BY <1>2, <1>3

\* A new operation.
LEMMA CreatedRow ==
    ASSUME NEW d, RowOK(d), d.snap.status = "absent",
           NEW sig \in {Plain("ready"), Plain("waiting")}
    PROVE  Created(d, [AppendEvent([d EXCEPT !.snap = Planned], sig) EXCEPT !.resv = "held"])
<1> DEFINE b == [d EXCEPT !.snap = Planned]
           c == AppendEvent(b, sig)
           e == [c EXCEPT !.resv = "held"]
<1>1. d \in Rows /\ d.lease = "none"
  BY DEF RowOK, Rows, Terminal, KnownOutcomes
<1>2. Planned \in Snapshots /\ Planned.status = "planned" /\ Planned.effects = "null" /\ Planned.cancel = FALSE
  BY DEF Planned, Snapshots, Statuses
<1>3. b \in Rows /\ b.snap = Planned /\ b.lease = "none"
  BY <1>1, <1>2 DEF Rows
<1>4. b.snap.status # "absent"
  BY <1>2, <1>3
<1>5. ~KeepsStatus(b.snap, sig) /\ sig.type \in {"ready", "waiting"}
      /\ TargetStatus(sig) \in {"ready", "waiting_user"}
  BY DEF KeepsStatus, TargetStatus, Plain
<1>6. ~(sig.type \in {"outcome", "stopped"}) /\ sig.type # "cancel_requested"
  BY <1>5
<1> HIDE DEF b
<1>7. /\ c.lease = b.lease
      /\ c.snap.status = IF KeepsStatus(b.snap, sig) THEN b.snap.status ELSE TargetStatus(sig)
      /\ c.snap.cancel = (b.snap.cancel \/ sig.type = "cancel_requested")
      /\ c.snap.effects = IF sig.type \in {"outcome", "stopped"} THEN sig.effects ELSE b.snap.effects
      /\ c.snap.status \in Statuses /\ c.snap.effects \in Effects \cup {"null"} => c \in Rows
  BY <1>3, <1>4, Appended
<1> HIDE DEF c
<1>8. c \in Rows /\ c.lease = "none" /\ c.snap.status \in {"ready", "waiting_user"} /\ c.snap.effects = "null"
      /\ ~c.snap.cancel
  BY <1>2, <1>3, <1>5, <1>6, <1>7 DEF Statuses, Waiting
<1>9. e \in Rows /\ e.snap = c.snap /\ e.lease = c.lease /\ e.resv = "held"
  BY <1>8 DEF Rows
<1> HIDE DEF e
<1>10. RowOK(e)
  BY <1>8, <1>9 DEF RowOK, Terminal, KnownOutcomes, Waiting
<1>11. Created(d, e)
  BY <1>8, <1>9, <1>10 DEF Created
<1>12. QED
  BY <1>11 DEF e, c, b

\* The row a first dispatch writes: through "ready" if it was waiting.
LEMMA LeasedRow ==
    ASSUME NEW d, RowOK(d), d.lease = "none", d.snap.status \in Waiting \cup {"ready"}
    PROVE  Leased(d, [AppendEvent(IF d.snap.status = "ready" THEN d ELSE AppendEvent(d, Plain("ready")),
                                  Plain("dispatched")) EXCEPT !.lease = "live"])
<1> DEFINE b == IF d.snap.status = "ready" THEN d ELSE AppendEvent(d, Plain("ready"))
           c == AppendEvent(b, Plain("dispatched"))
           e == [c EXCEPT !.lease = "live"]
<1>1. d \in Rows /\ d.snap.status # "absent" /\ d.snap.effects = "null" /\ d.snap.cancel \in BOOLEAN
  BY SnapshotOfRow DEF RowOK, Waiting, Terminal, KnownOutcomes, Snapshots
<1>2. b \in Rows /\ b.snap.status = "ready" /\ b.snap.effects = "null"
      /\ b.resv = d.resv /\ b.snap.cancel = d.snap.cancel
  <2>1. CASE d.snap.status = "ready"
    BY <1>1, <2>1
  <2>2. CASE d.snap.status # "ready"
    <3> DEFINE a == AppendEvent(d, Plain("ready"))
    <3>1. ~KeepsStatus(d.snap, Plain("ready")) /\ TargetStatus(Plain("ready")) = "ready"
          /\ Plain("ready").type = "ready"
      BY DEF KeepsStatus, TargetStatus, Plain
    <3>2. /\ a.resv = d.resv
          /\ a.snap.status = "ready"
          /\ a.snap.cancel = (d.snap.cancel \/ FALSE)
          /\ a.snap.effects = d.snap.effects
          /\ a.snap.status \in Statuses /\ a.snap.effects \in Effects \cup {"null"} => a \in Rows
      BY <1>1, <3>1, Appended
    <3>3. b = a
      BY <2>2
    <3> HIDE DEF a, b
    <3>4. QED
      BY <1>1, <3>2, <3>3 DEF Statuses
  <2>3. QED
    BY <2>1, <2>2
<1> HIDE DEF b
<1>3. ~KeepsStatus(b.snap, Plain("dispatched")) /\ TargetStatus(Plain("dispatched")) = "dispatched"
      /\ Plain("dispatched").type = "dispatched"
  BY DEF KeepsStatus, TargetStatus, Plain
<1>4. /\ c.resv = b.resv
      /\ c.snap.status = "dispatched"
      /\ c.snap.cancel = (b.snap.cancel \/ FALSE)
      /\ c.snap.effects = b.snap.effects
      /\ c.snap.status \in Statuses /\ c.snap.effects \in Effects \cup {"null"} => c \in Rows
  <2> DEFINE sig == Plain("dispatched")
  <2>1. b.snap.status # "absent"
    BY <1>2
  <2>2. ~KeepsStatus(b.snap, sig) /\ TargetStatus(sig) = "dispatched" /\ sig.type = "dispatched"
        /\ c = AppendEvent(b, sig)
    BY <1>3
  <2> HIDE DEF sig, c
  <2>3. /\ c.resv = b.resv
        /\ c.snap.status = IF KeepsStatus(b.snap, sig) THEN b.snap.status ELSE TargetStatus(sig)
        /\ c.snap.cancel = (b.snap.cancel \/ sig.type = "cancel_requested")
        /\ c.snap.effects = IF sig.type \in {"outcome", "stopped"} THEN sig.effects ELSE b.snap.effects
        /\ c.snap.status \in Statuses /\ c.snap.effects \in Effects \cup {"null"} => c \in Rows
    BY <1>2, <2>1, <2>2, Appended
  <2>4. QED
    BY <2>2, <2>3
<1> HIDE DEF c
<1>5. c \in Rows
  BY <1>2, <1>4 DEF Statuses
<1>6. e \in Rows /\ e.snap = c.snap /\ e.lease = "live" /\ e.resv = c.resv
  BY <1>5 DEF Rows
<1> HIDE DEF e
<1>7. e.snap.status = "dispatched" /\ e.snap.effects = "null" /\ e.resv = d.resv
      /\ e.snap.cancel = d.snap.cancel
  BY <1>1, <1>2, <1>4, <1>6
<1>8. RowOK(e)
  BY <1>6, <1>7 DEF RowOK, Terminal, KnownOutcomes, Waiting
<1>9. Leased(d, e)
  BY <1>6, <1>7, <1>8 DEF Leased
<1>10. QED
  BY <1>9 DEF e, c, b

\* The row a start writes.
LEMMA BegunRow ==
    ASSUME NEW d, RowOK(d), d.lease = "live", d.snap.status = "dispatched"
    PROVE  Begun(d, AppendEvent(d, Plain("started")))
<1> DEFINE e == AppendEvent(d, Plain("started"))
<1>1. d \in Rows /\ d.snap.status # "absent" /\ d.snap.effects = "null" /\ d.snap.cancel \in BOOLEAN
  BY SnapshotOfRow DEF RowOK, Terminal, KnownOutcomes, Snapshots
<1>2. ~KeepsStatus(d.snap, Plain("started")) /\ TargetStatus(Plain("started")) = "running"
      /\ Plain("started").type = "started"
  BY DEF KeepsStatus, TargetStatus, Plain
<1>3. /\ e.lease = d.lease /\ e.resv = d.resv
      /\ e.snap.status = "running"
      /\ e.snap.cancel = (d.snap.cancel \/ FALSE)
      /\ e.snap.effects = d.snap.effects
      /\ e.snap.status \in Statuses /\ e.snap.effects \in Effects \cup {"null"} => e \in Rows
  <2> DEFINE sig == Plain("started")
  <2>1. ~KeepsStatus(d.snap, sig) /\ TargetStatus(sig) = "running" /\ sig.type = "started"
        /\ e = AppendEvent(d, sig)
    BY <1>2
  <2> HIDE DEF sig, e
  <2>2. /\ e.lease = d.lease /\ e.resv = d.resv
        /\ e.snap.status = IF KeepsStatus(d.snap, sig) THEN d.snap.status ELSE TargetStatus(sig)
        /\ e.snap.cancel = (d.snap.cancel \/ sig.type = "cancel_requested")
        /\ e.snap.effects = IF sig.type \in {"outcome", "stopped"} THEN sig.effects ELSE d.snap.effects
        /\ e.snap.status \in Statuses /\ e.snap.effects \in Effects \cup {"null"} => e \in Rows
    BY <1>1, <2>1, Appended
  <2>3. QED
    BY <2>1, <2>2
<1> HIDE DEF e
<1>4. e \in Rows
  BY <1>1, <1>3 DEF Statuses
<1>5. RowOK(e)
  BY <1>1, <1>3, <1>4 DEF RowOK, Terminal, KnownOutcomes, Waiting
<1>6. Begun(d, e)
  BY <1>1, <1>3, <1>5 DEF Begun
<1>7. QED
  BY <1>6 DEF e

\* The kinds of facts a device may report.
LEMMA DeviceSignalKinds ==
    ASSUME NEW sig \in DeviceSignals
    PROVE  \/ sig.type \in {"uncertain", "transport_ack", "started"}
           \/ sig.type = "outcome" /\ sig.status \in KnownOutcomes /\ sig.effects \in Effects
           \/ sig.type = "stopped" /\ sig.effects \in {"none", "partial"}
BY DEF DeviceSignals, Uncertain, Plain, Outcome, Stopped, Results

\* A fact the ledger can apply to a row, as it is or with the intent to stop.
LEMMA ToldRow ==
    ASSUME NEW d, RowOK(d), d.lease # "none", NEW sig \in DeviceSignals, NEW b \in Rows,
           b.snap.status # "absent", b.lease = d.lease, b.resv = d.resv,
           b = d \/ /\ d.snap.status = "running" /\ sig.type = "stopped"
                    /\ b.snap.status = "cancel_requested" /\ b.snap.cancel,
           CanAdvance(b.snap, sig)
    PROVE  Told(d, [d EXCEPT !.snap = Advance(b.snap, sig)], sig)
<1> DEFINE e == [d EXCEPT !.snap = Advance(b.snap, sig)]
           c == AppendEvent(b, sig)
<1>1. d \in Rows /\ d.snap.status # "absent" /\ d.snap \in Snapshots /\ b.snap \in Snapshots
  <2>1. d \in Rows /\ d.snap.status # "absent"
    BY DEF RowOK, Terminal, KnownOutcomes
  <2>2. QED
    BY <2>1, SnapshotOfRow
<1>2. /\ c.snap = Advance(b.snap, sig) /\ c.lease = b.lease /\ c.resv = b.resv
      /\ c.snap.status = IF KeepsStatus(b.snap, sig) THEN b.snap.status ELSE TargetStatus(sig)
      /\ c.snap.cancel = (b.snap.cancel \/ sig.type = "cancel_requested")
      /\ c.snap.effects = IF sig.type \in {"outcome", "stopped"} THEN sig.effects ELSE b.snap.effects
      /\ c.snap.status \in Statuses /\ c.snap.effects \in Effects \cup {"null"} => c \in Rows
  <2> HIDE DEF c
  <2>1. c = AppendEvent(b, sig)
    BY DEF c
  <2>2. QED
    BY <2>1, Appended
<1>3. e = c /\ e.lease = d.lease /\ e.resv = d.resv
  <2>1. b = [snap |-> b.snap, lease |-> d.lease, resv |-> d.resv]
        /\ d = [snap |-> d.snap, lease |-> d.lease, resv |-> d.resv]
    BY <1>1 DEF Rows
  <2> DEFINE s == Advance(b.snap, sig)
  <2>2. c = [b EXCEPT !.snap = s] /\ e = [d EXCEPT !.snap = s]
    BY DEF AppendEvent
  <2> HIDE DEF s, c, e
  <2>3. QED
    BY <2>1, <2>2
<1>4. e.snap.status \in Statuses /\ e.snap.effects \in Effects \cup {"null"} /\ e.snap.cancel \in BOOLEAN
      /\ e.snap.status = (IF KeepsStatus(b.snap, sig) THEN b.snap.status ELSE TargetStatus(sig))
      /\ e.snap.cancel = b.snap.cancel
      /\ e.snap.effects = (IF sig.type \in {"outcome", "stopped"} THEN sig.effects ELSE b.snap.effects)
  <2> HIDE DEF c, e
  <2>1. sig.type # "cancel_requested"
    BY DeviceSignalKinds
  <2>2. sig.type \in {"outcome", "stopped"} => sig.effects \in Effects
    BY DeviceSignalKinds DEF Effects
  <2>3. ~KeepsStatus(b.snap, sig) => TargetStatus(sig) \in Statuses
    BY DeviceSignalKinds DEF KeepsStatus, TargetStatus, Statuses, Terminal, KnownOutcomes
  <2>4. b.snap.status \in Statuses /\ b.snap.cancel \in BOOLEAN /\ b.snap.effects \in Effects \cup {"null"}
    BY <1>1 DEF Snapshots
  <2>5. QED
    BY <1>2, <1>3, <2>1, <2>2, <2>3, <2>4
<1>5. e \in Rows
  BY <1>2, <1>3, <1>4
<1> HIDE DEF c, e
<1>6. CASE sig.type \in {"outcome", "stopped"}
  <2>1. ~KeepsStatus(b.snap, sig)
    BY <1>6 DEF KeepsStatus
  <2>2. TargetStatus(sig) \in Terminal
    BY <1>6, DeviceSignalKinds DEF TargetStatus, Terminal, KnownOutcomes
  <2>3. TargetStatus(sig) \in Transitions(b.snap.status)
    BY <2>1 DEF CanAdvance
  <2>4. b.snap.status \notin Terminal
    BY <2>3 DEF Transitions, Terminal, KnownOutcomes, Waiting
  <2>5. d.snap.status \notin Terminal
    BY <2>4 DEF Terminal, KnownOutcomes
  <2>6. e.snap.status \in Terminal /\ e.snap.effects = sig.effects /\ sig.effects # "null"
    BY <1>4, <1>6, <2>1, <2>2, DeviceSignalKinds DEF Effects
  <2>7. RowOK(e)
    BY <1>3, <1>5, <2>6 DEF RowOK, Rows, Terminal, KnownOutcomes
  <2>8. d.snap.cancel => e.snap.cancel
    BY <1>4
  <2>9. QED
    BY <1>3, <1>6, <2>5, <2>6, <2>7, <2>8 DEF Told, Terminal, KnownOutcomes, e
<1>7. CASE sig.type \in {"uncertain", "transport_ack", "started"}
  <2>1. b = d /\ e.snap.effects = d.snap.effects /\ e.snap.cancel = d.snap.cancel
    BY <1>4, <1>7
  <2>2. CASE KeepsStatus(b.snap, sig)
    <3>1. e.snap.status = d.snap.status
      BY <1>4, <2>1, <2>2
    <3>2. e.snap = d.snap
      <4>1. e.snap \in Snapshots
        BY <1>5, <1>1, <3>1, SnapshotOfRow
      <4>2. QED
        BY <1>1, <2>1, <3>1, <4>1 DEF Snapshots
    <3>3. e = d
      BY <1>1, <1>3, <1>5, <3>2 DEF Rows
    <3>4. QED
      BY <1>7, <3>3 DEF Told, e
  <2>3. CASE ~KeepsStatus(b.snap, sig)
    <3>1. TargetStatus(sig) \in Transitions(d.snap.status)
      BY <2>1, <2>3 DEF CanAdvance
    <3>2. /\ sig.type \in {"uncertain", "started"}
          /\ e.snap.status = TargetStatus(sig)
          /\ TargetStatus(sig) = (IF sig.type = "uncertain" THEN "unknown" ELSE "running")
      BY <1>4, <1>7, <2>3 DEF KeepsStatus, TargetStatus
    <3>3. /\ d.snap.status \notin Terminal \cup {"unknown"}
          /\ e.snap.status = "running" => d.snap.status = "dispatched"
      BY <3>1, <3>2 DEF Transitions, Terminal, KnownOutcomes, Waiting, RowOK
    <3>4. RowOK(e)
      BY <1>3, <1>5, <2>1, <3>2, <3>3 DEF RowOK, Rows, Terminal, KnownOutcomes
    <3>5. QED
      BY <1>3, <1>7, <2>1, <3>2, <3>3, <3>4 DEF Told, Terminal, KnownOutcomes, e
  <2>4. QED
    BY <2>2, <2>3
<1>8. QED
  BY <1>6, <1>7, DeviceSignalKinds

-----------------------------------------------------------------------------
(* The inductive invariant of the ledger.                                  *)

Held(rows) == {o \in Ops : rows[o].resv = "held"}

\* The reserved column is the sum of the held reservations, and only a root
\* that is cut may be overdrawn.
BudgetOK ==
    /\ budget \in [metric : Metrics, reserved : Nat, spent : Nat]
    /\ budget.reserved = AmountOf(Held(op))
    /\ Overdrawn(budget) => root.cancel

\* An operation that has not ended knows of the cut of its root.
CutIsKnown ==
    root.cancel => \A o \in Ops : StatusOf(o) \in Terminal \cup {"absent"} \/ op[o].snap.cancel

LedgerInv ==
    /\ op \in [Ops -> Rows]
    /\ \A o \in Ops : RowOK(op[o])
    /\ root \in [cancel : BOOLEAN, past : BOOLEAN, run : {"live", "over"}]
    /\ \A r \in receipts : r.disposition \in {"applied", "conflict"}
    /\ \A o \in Ops : Known(StartId(o)) => op[o].lease # "none"
    /\ CutIsKnown
    /\ BudgetOK

\* What is released leaves the sum of what is held, and never below zero.
LEMMA ReleaseKeepsSum ==
    ASSUME LedgerInv, NEW rows \in [Ops -> Rows], NEW S \in SUBSET Ops,
           \A o \in S : op[o].resv = "held" /\ rows[o].resv = "settled",
           \A o \in Ops \ S : (rows[o].resv = "held") = (op[o].resv = "held")
    PROVE  /\ AmountOf(S) \in Nat
           /\ budget.reserved - AmountOf(S) \in Nat
           /\ budget.reserved - AmountOf(S) = AmountOf(Held(rows))
<1>1. S \subseteq Held(op) /\ Held(op) \in SUBSET Ops /\ Held(rows) \in SUBSET Ops
  BY DEF Held
<1>2. Held(rows) = Held(op) \ S
  BY DEF Held
<1>3. IsFiniteSet(Ops) /\ Amount \in [Ops -> Nat]
  BY LedgerAssumption
<1>4. AmountOf(Held(op) \ S) = AmountOf(Held(op)) - AmountOf(S)
  BY <1>1, <1>3, AmountSplits
<1>5. AmountOf(S) \in Nat /\ AmountOf(Held(rows)) \in Nat
  BY <1>1, <1>3, AmountIsNat
<1>6. budget.reserved = AmountOf(Held(op))
  BY DEF LedgerInv, BudgetOK
<1> QED
  BY <1>2, <1>4, <1>5, <1>6

\* Rows written by the server's own moves, saved with the budget they release.
LEMMA SavedRows ==
    ASSUME LedgerInv, NEW rows \in [Ops -> Rows], \A o \in Ops : ServerMove(op[o], rows[o]),
           SaveRows(rows), root.cancel => root'.cancel
    PROVE  BudgetOK'
<1> DEFINE S == {o \in Ops : op[o].resv = "held" /\ rows[o].resv = "settled"}
<1>1. op' = rows /\ budget' = [budget EXCEPT !.reserved = @ - AmountOf(S)]
  BY DEF SaveRows, Released, AmountOf
<1>2. \A o \in Ops : op[o] \in Rows /\ rows[o] \in Rows
  BY DEF LedgerInv
<1>3. \A o \in Ops \ S : (rows[o].resv = "held") = (op[o].resv = "held")
  <2> TAKE o \in Ops \ S
  <2>1. op[o].resv \in {"none", "held", "settled"}
    BY <1>2 DEF Rows
  <2>2. op[o].resv = "none" => rows[o].resv = "none"
    BY DEF ServerMove, RowOK, LedgerInv
  <2>3. QED
    BY <2>1, <2>2 DEF ServerMove
<1> DEFINE n == AmountOf(S)
<1>4. n \in Nat /\ budget.reserved - n \in Nat /\ budget.reserved - n = AmountOf(Held(rows))
  <2>1. S \in SUBSET Ops /\ \A o \in S : op[o].resv = "held" /\ rows[o].resv = "settled"
    OBVIOUS
  <2> HIDE DEF S
  <2>2. QED
    BY <1>3, <2>1, ReleaseKeepsSum
<1>5. AmountOf(Held(op))' = AmountOf(Held(rows))
  <2>1. Held(op)' = Held(rows)
    BY <1>1 DEF Held
  <2>2. AmountOf(Held(op))' = AmountOf(Held(op)')
    BY DEF AmountOf, MapThenSumSet, MapThenFoldSet
  <2>3. QED
    BY <2>1, <2>2
<1>6. budget \in [metric : Metrics, reserved : Nat, spent : Nat] /\ Capacity \in Nat
      /\ (Overdrawn(budget) => root.cancel)
  BY LedgerAssumption DEF LedgerInv, BudgetOK
<1> HIDE DEF n
<1>7. budget'.reserved = budget.reserved - n /\ budget'.spent = budget.spent
      /\ budget'.metric = budget.metric
      /\ budget' \in [metric : Metrics, reserved : Nat, spent : Nat]
  BY <1>1, <1>4, <1>6 DEF n
<1>8. QED
  BY <1>4, <1>5, <1>6, <1>7 DEF BudgetOK, Overdrawn, IsObserved

\* Canceling the rows of S is a move of the server for each row.
LEMMA CutMoves ==
    ASSUME LedgerInv, NEW rows \in [Ops -> Rows], NEW S \in SUBSET Ops,
           \A o \in Ops : ServerMove(op[o], rows[o])
    PROVE  LET cut == CancelOperationRows(rows, S) IN
           /\ cut \in [Ops -> Rows]
           /\ \A o \in Ops : ServerMove(op[o], cut[o])
           /\ \A o \in S : cut[o].snap.status \in Terminal \cup {"absent"} \/ cut[o].snap.cancel
<1> DEFINE cut == CancelOperationRows(rows, S)
<1>1. \A o \in Ops : cut[o] = IF o \in S THEN CancelRow(o, rows[o]) ELSE rows[o]
  BY DEF CancelOperationRows
<1>2. DOMAIN cut = Ops /\ cut = [o \in Ops |-> cut[o]]
  BY DEF CancelOperationRows
<1> HIDE DEF cut
<1>3. ASSUME NEW o \in Ops
      PROVE  /\ ServerMove(op[o], cut[o]) /\ cut[o] \in Rows
             /\ o \in S => cut[o].snap.status \in Terminal \cup {"absent"} \/ cut[o].snap.cancel
  <2>1. RowOK(rows[o]) /\ rows[o] \in Rows
    BY DEF ServerMove
  <2>2. CASE o \in S
    <3>1. cut[o] = CancelRow(o, rows[o])
      BY <1>1, <2>2
    <3>2. ServerMove(rows[o], cut[o])
          /\ (cut[o].snap.status \in Terminal \cup {"absent"} \/ cut[o].snap.cancel)
      BY <2>1, <3>1, CancelRowMoves
    <3>3. ServerMove(op[o], cut[o])
      BY <3>2, ServerMovesCompose
    <3>4. QED
      BY <3>2, <3>3 DEF ServerMove, RowOK
  <2>3. CASE o \notin S
    BY <1>1, <2>1, <2>3
  <2>4. QED
    BY <2>2, <2>3
<1>4. cut \in [Ops -> Rows]
  BY <1>2, <1>3
<1> QED
  BY <1>3, <1>4 DEF cut

\* Where every row stands still.
LEMMA SameRows ==
    ASSUME LedgerInv
    PROVE  op \in [Ops -> Rows] /\ \A o \in Ops : ServerMove(op[o], op[o])
BY StandingStill DEF LedgerInv

\* A step of the server's own moves keeps the invariant if it keeps the budget
\* and leaves no operation behind that does not know of the cut.
LEMMA ServerMovesKeepInv ==
    ASSUME LedgerInv, op' \in [Ops -> Rows], \A o \in Ops : ServerMove(op[o], op'[o]),
           root' \in [cancel : BOOLEAN, past : BOOLEAN, run : {"live", "over"}],
           UNCHANGED receipts,
           root.cancel => root'.cancel,
           root'.cancel /\ ~root.cancel =>
             \A o \in Ops : op'[o].snap.status \in Terminal \cup {"absent"} \/ op'[o].snap.cancel,
           BudgetOK'
    PROVE  LedgerInv'
<1>1. \A o \in Ops : RowOK(op'[o])
  BY DEF ServerMove
<1>2. \A o \in Ops : Known(StartId(o))' => op'[o].lease # "none"
  BY DEF LedgerInv, ServerMove, Known
<1>3. CutIsKnown'
  <2>1. CASE root.cancel
    <3>1. ASSUME NEW o \in Ops
          PROVE  op'[o].snap.status \in Terminal \cup {"absent"} \/ op'[o].snap.cancel
      <4>1. op[o].snap.status \in Terminal \cup {"absent"} \/ op[o].snap.cancel
        BY <2>1 DEF LedgerInv, CutIsKnown, StatusOf
      <4>2. QED
        BY <4>1 DEF ServerMove
    <3>2. QED
      BY <3>1 DEF CutIsKnown, StatusOf
  <2>2. CASE ~root.cancel
    BY <2>2 DEF CutIsKnown, StatusOf
  <2>3. QED
    BY <2>1, <2>2
<1> QED
  BY <1>1, <1>2, <1>3 DEF LedgerInv

\* cancelRoot.
LEMMA CancelRootMoves ==
    ASSUME LedgerInv, CancelRoot
    PROVE  LedgerInv' /\ UNCHANGED receipts /\ \A o \in Ops : ServerMove(op[o], op'[o])
<1> DEFINE rows == CancelOperationRows(op, Ops)
<1>1. /\ rows \in [Ops -> Rows]
      /\ \A o \in Ops : ServerMove(op[o], rows[o])
      /\ \A o \in Ops : rows[o].snap.status \in Terminal \cup {"absent"} \/ rows[o].snap.cancel
  BY SameRows, CutMoves
<1>2. SaveRows(rows) /\ UNCHANGED receipts
      /\ root' = [root EXCEPT !.cancel = TRUE]
  BY DEF CancelRoot
<1> HIDE DEF rows
<1>3. root' \in [cancel : BOOLEAN, past : BOOLEAN, run : {"live", "over"}] /\ root'.cancel
  BY <1>2 DEF LedgerInv
<1>4. BudgetOK'
  BY <1>1, <1>2, <1>3, SavedRows
<1>5. op' = rows
  BY <1>2 DEF SaveRows
<1>6. LedgerInv'
  BY <1>1, <1>2, <1>3, <1>4, <1>5, ServerMovesKeepInv
<1> QED
  BY <1>1, <1>2, <1>5, <1>6

\* cancelRuntimeAgentOperationsTransaction.
LEMMA CancelAgentMoves ==
    ASSUME LedgerInv, CancelAgent
    PROVE  LedgerInv' /\ UNCHANGED receipts /\ \A o \in Ops : ServerMove(op[o], op'[o])
<1> DEFINE rows == CancelOperationRows(op, AgentOps)
<1>1. rows \in [Ops -> Rows] /\ \A o \in Ops : ServerMove(op[o], rows[o])
  BY SameRows, CutMoves, LedgerAssumption
<1>2. SaveRows(rows) /\ UNCHANGED receipts /\ root' = root
  BY DEF CancelAgent
<1> HIDE DEF rows
<1>3. root' \in [cancel : BOOLEAN, past : BOOLEAN, run : {"live", "over"}]
  BY <1>2 DEF LedgerInv
<1>4. BudgetOK'
  BY <1>1, <1>2, SavedRows
<1>5. op' = rows
  BY <1>2 DEF SaveRows
<1>6. LedgerInv'
  BY <1>1, <1>2, <1>3, <1>4, <1>5, ServerMovesKeepInv
<1> QED
  BY <1>1, <1>2, <1>5, <1>6

\* expireLeases.
LEMMA ExpireLeasesMoves ==
    ASSUME LedgerInv, ExpireLeases
    PROVE  LedgerInv' /\ UNCHANGED receipts /\ \A o \in Ops : ServerMove(op[o], op'[o])
<1> DEFINE cut  == IF root.past THEN CancelOperationRows(op, Ops) ELSE op
           rows == [o \in Ops |-> ExpireRow(cut[o])]
<1>1. /\ cut \in [Ops -> Rows]
      /\ \A o \in Ops : ServerMove(op[o], cut[o])
      /\ root.past =>
           \A o \in Ops : cut[o].snap.status \in Terminal \cup {"absent"} \/ cut[o].snap.cancel
  <2>1. CASE root.past
    BY <2>1, SameRows, CutMoves
  <2>2. CASE ~root.past
    BY <2>2, SameRows
  <2>3. QED
    BY <2>1, <2>2
<1>2. SaveRows(rows) /\ UNCHANGED receipts
      /\ root' = [root EXCEPT !.cancel = @ \/ root.past]
  BY DEF ExpireLeases
<1> HIDE DEF cut
<1>3. ASSUME NEW o \in Ops
      PROVE  ServerMove(op[o], rows[o]) /\ ServerMove(cut[o], rows[o]) /\ rows[o] \in Rows
  <2>1. RowOK(cut[o])
    BY <1>1 DEF ServerMove
  <2>2. ServerMove(cut[o], rows[o])
    BY <2>1, ExpireRowMoves
  <2> HIDE DEF rows
  <2>3. ServerMove(op[o], rows[o])
    BY <1>1, <2>2, ServerMovesCompose
  <2>4. QED
    BY <2>2, <2>3 DEF ServerMove, RowOK
<1>4. rows \in [Ops -> Rows]
  BY <1>3
<1> HIDE DEF rows
<1>5. root' \in [cancel : BOOLEAN, past : BOOLEAN, run : {"live", "over"}]
      /\ root'.cancel = (root.cancel \/ root.past)
  BY <1>2 DEF LedgerInv
<1>6. root.past =>
        \A o \in Ops : rows[o].snap.status \in Terminal \cup {"absent"} \/ rows[o].snap.cancel
  BY <1>1, <1>3 DEF ServerMove
<1>7. BudgetOK'
  BY <1>2, <1>3, <1>4, <1>5, SavedRows
<1>8. op' = rows
  BY <1>2 DEF SaveRows
<1>9. LedgerInv'
  BY <1>2, <1>3, <1>4, <1>5, <1>6, <1>7, <1>8, ServerMovesKeepInv
<1> QED
  BY <1>2, <1>3, <1>8, <1>9

\* A lease that runs out, the deadline, and the end of the run.
LEMMA TimeMoves ==
    ASSUME LedgerInv, (\E o \in Ops : LeaseRunsOut(o)) \/ DeadlinePasses \/ RunEnds
    PROVE  LedgerInv' /\ UNCHANGED receipts /\ \A o \in Ops : ServerMove(op[o], op'[o])
<1>1. UNCHANGED <<receipts, budget>> /\ root'.cancel = root.cancel
      /\ root' \in [cancel : BOOLEAN, past : BOOLEAN, run : {"live", "over"}]
  BY DEF LedgerInv, LeaseRunsOut, DeadlinePasses, RunEnds
<1>2. /\ op' \in [Ops -> Rows]
      /\ \A o \in Ops : ServerMove(op[o], op'[o]) /\ op'[o].resv = op[o].resv
  <2>1. ASSUME NEW o \in Ops, LeaseRunsOut(o)
        PROVE  /\ op' \in [Ops -> Rows]
               /\ \A p \in Ops : ServerMove(op[p], op'[p]) /\ op'[p].resv = op[p].resv
    <3> DEFINE d == op[o]  e == [d EXCEPT !.lease = "expired"]
    <3>1. op' = [op EXCEPT ![o] = e] /\ d.lease = "live" /\ d \in Rows
      BY <2>1 DEF LeaseRunsOut, LedgerInv
    <3>2. ServerMove(d, e) /\ e.resv = d.resv /\ e \in Rows
      <4>1. RowOK(d)
        BY DEF LedgerInv
      <4>2. ServerMove(d, e) /\ e.resv = d.resv
        BY <3>1, <4>1, ColumnMoves DEF Rows
      <4>3. QED
        BY <4>2 DEF ServerMove, RowOK
    <3> HIDE DEF e
    <3>3. QED
      BY <3>1, <3>2, SameRows
  <2>2. CASE DeadlinePasses \/ RunEnds
    BY <2>2, SameRows DEF DeadlinePasses, RunEnds
  <2>3. QED
    BY <2>1, <2>2
<1>3. Held(op)' = Held(op)
  BY <1>2 DEF Held
<1>4. BudgetOK'
  <2>1. AmountOf(Held(op))' = AmountOf(Held(op)')
    BY DEF AmountOf, MapThenSumSet, MapThenFoldSet
  <2>2. QED
    BY <1>1, <1>3, <2>1 DEF LedgerInv, BudgetOK
<1>5. LedgerInv'
  BY <1>1, <1>2, <1>4, ServerMovesKeepInv
<1> QED
  BY <1>1, <1>2, <1>5

\* A step that writes one row, keeps its reservation and leaves the budget alone.
LEMMA OneRowKeepsBudget ==
    ASSUME LedgerInv, NEW o \in Ops, NEW e \in Rows, e.resv = op[o].resv,
           op' = [op EXCEPT ![o] = e], UNCHANGED <<root, budget>>
    PROVE  BudgetOK'
<1>1. \A p \in Ops : op'[p].resv = op[p].resv
  BY DEF LedgerInv
<1>2. Held(op)' = Held(op)
  BY <1>1 DEF Held
<1>3. AmountOf(Held(op))' = AmountOf(Held(op)')
  BY DEF AmountOf, MapThenSumSet, MapThenFoldSet
<1> QED
  BY <1>2, <1>3 DEF LedgerInv, BudgetOK

\* A step that writes one good row keeps the invariant, if it keeps the budget,
\* does not lose a lease and tells of the start of no other operation.
LEMMA OneRowKeepsInv ==
    ASSUME LedgerInv, NEW o \in Ops, NEW e, RowOK(e),
           op' = [op EXCEPT ![o] = e], UNCHANGED root,
           \A r \in receipts' : r.disposition \in {"applied", "conflict"},
           \A p \in Ops : Known(StartId(p))' => Known(StartId(p)) \/ (p = o /\ e.lease # "none"),
           op[o].lease # "none" => e.lease # "none",
           root.cancel => e.snap.status \in Terminal \cup {"absent"} \/ e.snap.cancel,
           BudgetOK'
    PROVE  LedgerInv'
<1>1. e \in Rows
  BY DEF RowOK
<1>2. op' \in [Ops -> Rows] /\ op'[o] = e /\ \A p \in Ops \ {o} : op'[p] = op[p]
  BY <1>1 DEF LedgerInv
<1>3. \A p \in Ops : RowOK(op'[p])
  <2> TAKE p \in Ops
  <2>1. CASE p = o
    BY <1>2, <2>1
  <2>2. CASE p # o
    BY <1>2, <2>2 DEF LedgerInv
  <2>3. QED
    BY <2>1, <2>2
<1>4. \A p \in Ops : Known(StartId(p))' => op'[p].lease # "none"
  <2> TAKE p \in Ops
  <2>1. Known(StartId(p)) => op[p].lease # "none"
    BY DEF LedgerInv
  <2>2. CASE p = o
    BY <1>2, <2>1, <2>2
  <2>3. CASE p # o
    BY <1>2, <2>1, <2>3
  <2>4. QED
    BY <2>2, <2>3
<1>5. CutIsKnown'
  <2>1. ASSUME root.cancel, NEW p \in Ops
        PROVE  op'[p].snap.status \in Terminal \cup {"absent"} \/ op'[p].snap.cancel
    <3>1. CASE p = o
      BY <1>2, <2>1, <3>1
    <3>2. CASE p # o
      BY <1>2, <2>1, <3>2 DEF LedgerInv, CutIsKnown, StatusOf
    <3>3. QED
      BY <3>1, <3>2
  <2>2. QED
    BY <2>1 DEF CutIsKnown, StatusOf
<1>6. root' \in [cancel : BOOLEAN, past : BOOLEAN, run : {"live", "over"}]
  BY DEF LedgerInv
<1> QED
  BY <1>2, <1>3, <1>4, <1>5, <1>6 DEF LedgerInv

\* createOperation: the reservation is inside the capacity and the root is open.
LEMMA CreateMoves ==
    ASSUME LedgerInv, NEW o \in Ops, CreateOperation(o)
    PROVE  /\ LedgerInv' /\ UNCHANGED receipts
           /\ Created(op[o], op'[o]) /\ \A p \in Ops \ {o} : op'[p] = op[p]
<1>1. PICK sig \in {Plain("ready"), Plain("waiting")} :
        op' = [op EXCEPT ![o] = [AppendEvent([@ EXCEPT !.snap = Planned], sig) EXCEPT !.resv = "held"]]
  BY DEF CreateOperation
<1> DEFINE e == [AppendEvent([op[o] EXCEPT !.snap = Planned], sig) EXCEPT !.resv = "held"]
<1>2. RowOK(op[o]) /\ op[o].snap.status = "absent" /\ op[o].resv = "none" /\ op[o].lease = "none"
  BY DEF LedgerInv, CreateOperation, StatusOf, RowOK, Terminal, KnownOutcomes
<1>3. Created(op[o], e)
  BY <1>2, CreatedRow
<1>4. op' = [op EXCEPT ![o] = e]
  BY <1>1
<1> HIDE DEF e
<1>5. UNCHANGED <<root, receipts>> /\ ~root.cancel
      /\ ~Overdrawn([budget EXCEPT !.reserved = @ + Amount[o]])
      /\ budget' = [budget EXCEPT !.reserved = @ + Amount[o]]
  BY DEF CreateOperation, RootAdmits
<1>6. e \in Rows /\ e.resv = "held" /\ e.lease = "none"
  BY <1>3 DEF Created, RowOK
<1>7. BudgetOK'
  <2>1. Held(op)' = Held(op) \cup {o} /\ Held(op) \in SUBSET Ops /\ o \in Ops \ Held(op)
    BY <1>2, <1>4, <1>6 DEF Held, LedgerInv
  <2> DEFINE H == Held(op)
  <2>2. AmountOf(Held(op))' = AmountOf(Held(op)')
    BY DEF AmountOf, MapThenSumSet, MapThenFoldSet
  <2>3. AmountOf(H \cup {o}) = AmountOf(H) + Amount[o] /\ Amount[o] \in Nat /\ Capacity \in Nat
    <3> HIDE DEF H
    <3>1. H \in SUBSET Ops /\ o \in Ops \ H
      BY <2>1 DEF H
    <3>2. QED
      BY <3>1, LedgerAssumption, AmountAdds
  <2>4. budget \in [metric : Metrics, reserved : Nat, spent : Nat] /\ budget.reserved = AmountOf(H)
    BY DEF LedgerInv, BudgetOK
  <2>5. budget'.reserved = budget.reserved + Amount[o] /\ budget'.spent = budget.spent
        /\ budget' \in [metric : Metrics, reserved : Nat, spent : Nat]
    BY <1>5, <2>3, <2>4
  <2> HIDE DEF H
  <2>6. budget'.reserved = AmountOf(Held(op))'
    BY <2>1, <2>2, <2>3, <2>4, <2>5 DEF H
  <2>7. ~Overdrawn(budget')
    BY <1>5
  <2>8. QED
    BY <2>5, <2>6, <2>7 DEF BudgetOK, Overdrawn, IsObserved
<1>8. RowOK(e)
  BY <1>3 DEF Created
<1>9. LedgerInv'
  <2>1. \A r \in receipts' : r.disposition \in {"applied", "conflict"}
    BY <1>5 DEF LedgerInv
  <2>2. \A p \in Ops : Known(StartId(p))' => Known(StartId(p))
    BY <1>5 DEF Known
  <2>3. QED
    BY <1>2, <1>4, <1>5, <1>7, <1>8, <2>1, <2>2, OneRowKeepsInv
<1>10. op'[o] = e /\ \A p \in Ops \ {o} : op'[p] = op[p]
  BY <1>4 DEF LedgerInv
<1> QED
  BY <1>3, <1>5, <1>9, <1>10

\* dispatchLocked, the first time.
LEMMA DispatchMoves ==
    ASSUME LedgerInv, NEW o \in Ops, Dispatch(o)
    PROVE  /\ LedgerInv' /\ UNCHANGED receipts /\ ~root.cancel
           /\ Leased(op[o], op'[o]) /\ \A p \in Ops \ {o} : op'[p] = op[p]
<1> DEFINE d == op[o]
           e == [AppendEvent(IF d.snap.status = "ready" THEN d ELSE AppendEvent(d, Plain("ready")),
                             Plain("dispatched")) EXCEPT !.lease = "live"]
<1>1. RowOK(d) /\ d.lease = "none" /\ d.snap.status \in Waiting \cup {"ready"}
  BY DEF LedgerInv, Dispatch, MayDispatch, StatusOf
<1>2. Leased(d, e)
  <2> HIDE DEF d
  <2> QED
    BY <1>1, LeasedRow
<1>3. op' = [op EXCEPT ![o] = e] /\ UNCHANGED <<root, receipts, budget>> /\ ~root.cancel
  BY DEF Dispatch, MayDispatch, RootAdmits
<1> HIDE DEF e
<1>4. RowOK(e) /\ e \in Rows /\ e.resv = op[o].resv /\ e.lease # "none"
  BY <1>2 DEF Leased, RowOK
<1>5. BudgetOK'
  BY <1>3, <1>4, OneRowKeepsBudget
<1>6. LedgerInv'
  <2>1. \A r \in receipts' : r.disposition \in {"applied", "conflict"}
    BY <1>3 DEF LedgerInv
  <2>2. \A p \in Ops : Known(StartId(p))' => Known(StartId(p))
    BY <1>3 DEF Known
  <2>3. QED
    BY <1>3, <1>4, <1>5, <2>1, <2>2, OneRowKeepsInv
<1>7. op'[o] = e /\ \A p \in Ops \ {o} : op'[p] = op[p]
  BY <1>3 DEF LedgerInv
<1> QED
  BY <1>2, <1>3, <1>6, <1>7

\* startOperation.
LEMMA StartMoves ==
    ASSUME LedgerInv, NEW o \in Ops, StartOperation(o)
    PROVE  /\ LedgerInv' /\ ~root.cancel /\ ~Known(StartId(o))
           /\ receipts' = receipts \cup {Stored(StartId(o), "start", "applied")}
           /\ Begun(op[o], op'[o]) /\ \A p \in Ops \ {o} : op'[p] = op[p]
<1> DEFINE d == op[o]
           e == AppendEvent(d, Plain("started"))
           s == Stored(StartId(o), "start", "applied")
<1>1. RowOK(d) /\ d.lease = "live" /\ d.snap.status = "dispatched"
  BY DEF LedgerInv, StartOperation, StartGranted, StatusOf
<1>2. Begun(d, e)
  <2> HIDE DEF d
  <2> QED
    BY <1>1, BegunRow
<1>3. op' = [op EXCEPT ![o] = e] /\ UNCHANGED <<root, budget>> /\ ~root.cancel
      /\ receipts' = receipts \cup {s} /\ ~Known(StartId(o))
  BY DEF StartOperation, StartGranted, RootAdmits
<1> HIDE DEF e
<1>4. RowOK(e) /\ e \in Rows /\ e.resv = op[o].resv /\ e.lease # "none"
  BY <1>1, <1>2 DEF Begun, RowOK
<1>5. BudgetOK'
  BY <1>3, <1>4, OneRowKeepsBudget
<1>6. s.disposition = "applied" /\ s.id = StartId(o)
  BY DEF Stored
<1> HIDE DEF s
<1>7. LedgerInv'
  <2>1. \A r \in receipts' : r.disposition \in {"applied", "conflict"}
    BY <1>3, <1>6 DEF LedgerInv
  <2>2. \A p \in Ops : Known(StartId(p))' => Known(StartId(p)) \/ p = o
    BY <1>3, <1>6 DEF Known, StartId
  <2>3. QED
    BY <1>3, <1>4, <1>5, <2>1, <2>2, OneRowKeepsInv
<1>8. op'[o] = e /\ \A p \in Ops \ {o} : op'[p] = op[p]
  BY <1>3 DEF LedgerInv
<1> QED
  BY <1>2, <1>3, <1>7, <1>8 DEF s

\* recordReceipt, of a fact of a device.
LEMMA ReceiptMoves ==
    ASSUME LedgerInv, NEW r, r.op \in Ops, r.sig \in DeviceSignals,
           \A o \in Ops : r.id # StartId(o), RecordReceipt(r)
    PROVE  /\ LedgerInv' /\ UNCHANGED root /\ ~Known(r.id) /\ op[r.op].lease # "none"
           /\ receipts' = receipts \cup {Stored(r.id, r.sig.type, Disposition(r))}
           /\ \/ Disposition(r) = "applied" /\ Told(op[r.op], op'[r.op], r.sig)
              \/ Disposition(r) = "conflict" /\ UNCHANGED op /\ ~CanAdvance(SnapshotFor(r), r.sig)
           /\ \A p \in Ops \ {r.op} : op'[p] = op[p]
<1> DEFINE o == r.op  d == op[o]
           e == [d EXCEPT !.snap = Advance(SnapshotFor(r), r.sig)]
           s == Stored(r.id, r.sig.type, Disposition(r))
<1>1. /\ ~Known(r.id) /\ Disposition(r) \in {"applied", "conflict"}
      /\ UNCHANGED <<root, budget>> /\ receipts' = receipts \cup {s}
      /\ op' = IF Disposition(r) = "applied" THEN [op EXCEPT ![o] = e] ELSE op
  BY DEF RecordReceipt, LedgerInv
<1>2. /\ d.lease # "none"
      /\ Disposition(r) = "applied" => CanAdvance(SnapshotFor(r), r.sig)
      /\ Disposition(r) = "conflict" => ~CanAdvance(SnapshotFor(r), r.sig)
  BY <1>1 DEF Disposition
<1>3. s.disposition = Disposition(r) /\ s.id = r.id
  BY DEF Stored
<1>4. RowOK(d) /\ d \in Rows
  BY DEF LedgerInv
<1>5. /\ \A q \in receipts' : q.disposition \in {"applied", "conflict"}
      /\ \A p \in Ops : Known(StartId(p))' => Known(StartId(p))
  BY <1>1, <1>3 DEF LedgerInv, Known
<1>6. CASE Disposition(r) = "applied"
  <2>1. Told(d, e, r.sig)
    <3>1. d.snap.status # "absent"
      BY <1>2, <1>4 DEF RowOK, Terminal, KnownOutcomes
    <3>2. CASE NeedsStopIntent(r)
      <4> DEFINE sig == Plain("cancel_requested")  b == AppendEvent(d, sig)
      <4>1. d.snap.status = "running" /\ r.sig.type = "stopped"
        BY <3>2 DEF NeedsStopIntent, StatusOf
      <4>2. ~KeepsStatus(d.snap, sig) /\ TargetStatus(sig) = "cancel_requested"
            /\ sig.type = "cancel_requested"
        BY <4>1 DEF KeepsStatus, TargetStatus, Plain
      <4>3. d.snap.effects \in Effects \cup {"null"}
        BY <3>1, <1>4, SnapshotOfRow DEF Snapshots
      <4> HIDE DEF sig, b, e
      <4>4. /\ b.snap = Advance(d.snap, sig) /\ b.lease = d.lease /\ b.resv = d.resv
            /\ b.snap.status = IF KeepsStatus(d.snap, sig) THEN d.snap.status ELSE TargetStatus(sig)
            /\ b.snap.cancel = (d.snap.cancel \/ sig.type = "cancel_requested")
            /\ b.snap.effects = IF sig.type \in {"outcome", "stopped"} THEN sig.effects
                                ELSE d.snap.effects
            /\ b.snap.status \in Statuses /\ b.snap.effects \in Effects \cup {"null"} => b \in Rows
        BY <1>4, <3>1, Appended DEF b
      <4>5. b \in Rows /\ b.snap.status = "cancel_requested" /\ b.snap.cancel
        BY <4>2, <4>3, <4>4 DEF Statuses
      <4>6. b.snap = SnapshotFor(r)
        BY <3>2, <4>4 DEF SnapshotFor, sig
      <4>7. CanAdvance(b.snap, r.sig)
        BY <1>2, <1>6, <4>6
      <4>8. Told(d, [d EXCEPT !.snap = Advance(b.snap, r.sig)], r.sig)
        <5> DEFINE g == r.sig
        <5>1. g \in DeviceSignals /\ g.type = "stopped" /\ CanAdvance(b.snap, g)
          BY <4>1, <4>7
        <5> HIDE DEF g, d
        <5>2. Told(d, [d EXCEPT !.snap = Advance(b.snap, g)], g)
          BY <1>2, <1>4, <4>1, <4>4, <4>5, <5>1, ToldRow
        <5>3. QED
          BY <5>2 DEF g
      <4>9. QED
        BY <4>6, <4>8 DEF e
    <3>3. CASE ~NeedsStopIntent(r)
      <4>1. SnapshotFor(r) = d.snap
        BY <3>3 DEF SnapshotFor
      <4> DEFINE g == r.sig
      <4>2. g \in DeviceSignals /\ CanAdvance(d.snap, g)
        BY <1>2, <1>6, <4>1
      <4> HIDE DEF g, d
      <4>3. Told(d, [d EXCEPT !.snap = Advance(d.snap, g)], g)
        BY <1>2, <1>4, <3>1, <4>2, ToldRow
      <4>4. QED
        BY <4>1, <4>3 DEF g
    <3>4. QED
      BY <3>2, <3>3
  <2>2. op' = [op EXCEPT ![o] = e]
    BY <1>1, <1>6
  <2> HIDE DEF e
  <2>3. RowOK(e) /\ e \in Rows /\ e.resv = op[o].resv /\ e.lease = op[o].lease
        /\ (d.snap.cancel => e.snap.cancel) /\ (d.snap.status \in Terminal => e = d)
    BY <2>1 DEF Told, RowOK
  <2>4. BudgetOK'
    BY <1>1, <2>2, <2>3, OneRowKeepsBudget
  <2>5. root.cancel => e.snap.status \in Terminal \cup {"absent"} \/ e.snap.cancel
    <3>1. root.cancel => d.snap.status \in Terminal \cup {"absent"} \/ d.snap.cancel
      BY DEF LedgerInv, CutIsKnown, StatusOf
    <3>2. d.snap.status # "absent"
      BY <1>2, <1>4 DEF RowOK, Terminal, KnownOutcomes
    <3>3. QED
      BY <2>3, <3>1, <3>2
  <2>6. LedgerInv'
    BY <1>1, <1>2, <1>5, <2>2, <2>3, <2>4, <2>5, OneRowKeepsInv
  <2>7. op'[o] = e /\ \A p \in Ops \ {o} : op'[p] = op[p]
    BY <2>2 DEF LedgerInv
  <2>8. QED
    BY <1>1, <1>2, <1>6, <2>1, <2>6, <2>7
<1>7. CASE Disposition(r) = "conflict"
  <2>1. op' = op
    BY <1>1, <1>7
  <2>2. op' = [op EXCEPT ![o] = d]
    BY <2>1 DEF LedgerInv
  <2>3. BudgetOK'
    <3> HIDE DEF e, s
    <3> QED
      BY <1>1, <1>4, <2>2, OneRowKeepsBudget
  <2>4. root.cancel => d.snap.status \in Terminal \cup {"absent"} \/ d.snap.cancel
    BY DEF LedgerInv, CutIsKnown, StatusOf
  <2> HIDE DEF e, s
  <2>5. LedgerInv'
    BY <1>1, <1>2, <1>4, <1>5, <2>2, <2>3, <2>4, OneRowKeepsInv
  <2>6. QED
    BY <1>1, <1>2, <1>7, <2>1, <2>5 DEF s
<1>8. QED
  BY <1>1, <1>6, <1>7

\* settleUsage, with the cut of a root that is over its capacity.
LEMMA SettleMoves ==
    ASSUME LedgerInv, NEW o \in Ops, NEW used \in 0..MaxUsage, SettleUsage(o, used)
    PROVE  LedgerInv' /\ UNCHANGED receipts /\ \A p \in Ops : ServerMove(op[p], op'[p])
<1> DEFINE s    == SettleRows(o, used)
           over == Overdrawn(s.budget)
           rows == IF over THEN CancelOperationRows(s.rows, Ops) ELSE s.rows
           B    == {p \in Ops \ {o} : op[p].resv = "held" /\ rows[p].resv = "settled"}
           n    == AmountOf(B)
           e    == [op[o] EXCEPT !.resv = "settled"]
<1>1. /\ op[o].resv = "held"
      /\ op' = rows
      /\ budget' = [s.budget EXCEPT !.reserved = @ - n]
      /\ root' = [root EXCEPT !.cancel = @ \/ over]
      /\ UNCHANGED receipts
  BY DEF SettleUsage, AmountOf
<1>2. s.budget = [budget EXCEPT !.reserved = @ - Amount[o], !.spent = @ + used]
      /\ s.rows = [op EXCEPT ![o] = e]
  BY DEF SettleRows
<1>3. RowOK(op[o]) /\ op[o] \in Rows
  BY DEF LedgerInv
<1>4. ServerMove(op[o], e) /\ e.resv = "settled" /\ e \in Rows
  BY <1>1, <1>3, ColumnMoves DEF Rows
<1> HIDE DEF e
<1>5. s.rows \in [Ops -> Rows] /\ (\A p \in Ops : ServerMove(op[p], s.rows[p]))
      /\ s.rows[o].resv = "settled"
  BY <1>2, <1>4, SameRows
<1> HIDE DEF s
<1>6. /\ rows \in [Ops -> Rows]
      /\ \A p \in Ops : ServerMove(op[p], rows[p])
      /\ over => \A p \in Ops : rows[p].snap.status \in Terminal \cup {"absent"} \/ rows[p].snap.cancel
      /\ rows[o].resv = "settled"
  <2>1. CASE over
    <3>1. /\ rows \in [Ops -> Rows]
          /\ \A p \in Ops : ServerMove(op[p], rows[p])
          /\ \A p \in Ops : rows[p].snap.status \in Terminal \cup {"absent"} \/ rows[p].snap.cancel
      BY <1>5, <2>1, CutMoves
    <3>2. ServerMove(s.rows[o], rows[o])
      <4>1. RowOK(s.rows[o])
        BY <1>5 DEF ServerMove
      <4>2. rows[o] = CancelRow(o, s.rows[o])
        BY <2>1 DEF CancelOperationRows
      <4>3. QED
        BY <4>1, <4>2, CancelRowMoves
    <3>3. rows[o].resv = "settled"
      BY <1>5, <3>2 DEF ServerMove
    <3>4. QED
      BY <3>1, <3>3
  <2>2. CASE ~over
    BY <1>5, <2>2
  <2>3. QED
    BY <2>1, <2>2
<1> HIDE DEF rows
<1>7. IsFiniteSet(Ops) /\ Amount \in [Ops -> Nat] /\ Amount[o] \in Nat /\ MaxUsage \in Nat
      /\ Capacity \in Nat
  BY LedgerAssumption
<1>8. /\ n \in Nat
      /\ budget.reserved - Amount[o] - n \in Nat
      /\ budget.reserved - Amount[o] - n = AmountOf(Held(rows))
  <2> DEFINE S == B \cup {o}
  <2>1. S \in SUBSET Ops /\ (\A p \in S : op[p].resv = "held" /\ rows[p].resv = "settled")
    BY <1>1, <1>6
  <2>2. \A p \in Ops \ S : (rows[p].resv = "held") = (op[p].resv = "held")
    <3> TAKE p \in Ops \ S
    <3>1. RowOK(op[p]) /\ op[p].resv \in {"none", "held", "settled"}
      BY DEF LedgerInv, RowOK, Rows
    <3>2. ServerMove(op[p], rows[p])
      BY <1>6
    <3>3. op[p].resv = "none" => rows[p].resv = "none"
      BY <3>1, <3>2 DEF ServerMove, RowOK
    <3>4. p # o /\ ~(op[p].resv = "held" /\ rows[p].resv = "settled")
      OBVIOUS
    <3>5. QED
      BY <3>1, <3>2, <3>3, <3>4 DEF ServerMove
  <2>3. B \in SUBSET Ops /\ o \in Ops \ B
    OBVIOUS
  <2> HIDE DEF B
  <2>4. AmountOf(S) = n + Amount[o] /\ n \in Nat
    BY <1>7, <2>3, AmountAdds, AmountIsNat
  <2> HIDE DEF S, n
  <2>5. budget.reserved - AmountOf(S) \in Nat /\ budget.reserved - AmountOf(S) = AmountOf(Held(rows))
    BY <1>6, <2>1, <2>2, ReleaseKeepsSum
  <2>6. budget.reserved \in Nat
    BY DEF LedgerInv, BudgetOK
  <2>7. QED
    BY <1>7, <2>4, <2>5, <2>6
<1> HIDE DEF n
<1>9. budget \in [metric : Metrics, reserved : Nat, spent : Nat] /\ used \in Nat /\ root.cancel \in BOOLEAN
  BY <1>7 DEF LedgerInv, BudgetOK
<1>10. /\ budget'.reserved = budget.reserved - Amount[o] - n
       /\ budget'.spent = budget.spent + used
       /\ budget'.metric = budget.metric
       /\ budget' = [metric |-> budget'.metric, reserved |-> budget'.reserved, spent |-> budget'.spent]
  BY <1>1, <1>2, <1>9
<1>11. root' \in [cancel : BOOLEAN, past : BOOLEAN, run : {"live", "over"}]
       /\ root'.cancel = (root.cancel \/ over)
  BY <1>1 DEF LedgerInv
<1>12. over <=> /\ budget.metric # "telemetry"
                /\ (budget.reserved - Amount[o]) + (budget.spent + used) > Capacity
  BY <1>2, <1>9 DEF Overdrawn, IsObserved
<1> HIDE DEF over
<1>13. BudgetOK'
  <2>1. budget' \in [metric : Metrics, reserved : Nat, spent : Nat]
    BY <1>8, <1>9, <1>10
  <2>2. Held(op)' = Held(rows)
    BY <1>1 DEF Held
  <2>3. AmountOf(Held(op))' = AmountOf(Held(op)')
    BY DEF AmountOf, MapThenSumSet, MapThenFoldSet
  <2>4. budget'.reserved = AmountOf(Held(op))'
    BY <1>8, <1>10, <2>2, <2>3
  <2>5. Overdrawn(budget)' => root'.cancel
    BY <1>7, <1>8, <1>9, <1>10, <1>11, <1>12 DEF Overdrawn, IsObserved
  <2>6. QED
    BY <2>1, <2>4, <2>5 DEF BudgetOK
<1>14. LedgerInv'
  BY <1>1, <1>6, <1>11, <1>13, ServerMovesKeepInv
<1>15. QED
  BY <1>1, <1>6, <1>14

-----------------------------------------------------------------------------
(* Steps, and the theorems of the ledger alone.                            *)

\* What the server does by itself: its own moves, or a creation on an open root.
LEMMA LedgerStepMoves ==
    ASSUME LedgerInv, LedgerStep
    PROVE  /\ LedgerInv' /\ UNCHANGED receipts
           /\ \A o \in Ops : \/ ServerMove(op[o], op'[o])
                             \/ Created(op[o], op'[o]) /\ ~root.cancel
<1>1. ASSUME NEW o \in Ops, CreateOperation(o)
      PROVE  /\ LedgerInv' /\ UNCHANGED receipts
             /\ \A p \in Ops : \/ ServerMove(op[p], op'[p])
                               \/ Created(op[p], op'[p]) /\ ~root.cancel
  <2>1. /\ LedgerInv' /\ UNCHANGED receipts
        /\ Created(op[o], op'[o]) /\ \A p \in Ops \ {o} : op'[p] = op[p]
    BY <1>1, CreateMoves
  <2>2. ~root.cancel
    BY <1>1 DEF CreateOperation, RootAdmits
  <2>3. QED
    BY <2>1, <2>2, SameRows
<1>2. CASE CancelRoot
  BY <1>2, CancelRootMoves
<1>3. CASE CancelAgent
  BY <1>3, CancelAgentMoves
<1>4. CASE ExpireLeases
  BY <1>4, ExpireLeasesMoves
<1>5. CASE (\E o \in Ops : LeaseRunsOut(o)) \/ DeadlinePasses \/ RunEnds
  BY <1>5, TimeMoves
<1>6. QED
  BY <1>1, <1>2, <1>3, <1>4, <1>5 DEF LedgerStep

\* The facts of the device in the ledger alone.
LEMMA AnyReceiptIsFact ==
    ASSUME NEW r \in AnyReceipt
    PROVE  r.op \in Ops /\ r.sig \in DeviceSignals /\ \A o \in Ops : r.id # StartId(o)
BY DEF AnyReceipt, Receipt, FactId, StartId

\* The empty ledger satisfies the invariant.
LEMMA LedgerStart == LedgerInit => LedgerInv
<1> SUFFICES ASSUME LedgerInit PROVE LedgerInv
  OBVIOUS
<1> DEFINE d == [snap |-> Absent, lease |-> "none", resv |-> "none"]
<1>1. Absent.status = "absent" /\ Absent.cancel = FALSE /\ Absent.effects = "null"
  BY DEF Absent, Planned
<1>2. d \in Rows /\ RowOK(d)
  BY <1>1 DEF Rows, RowOK, Terminal, KnownOutcomes, Waiting
<1>3. d.snap.status = "absent" /\ d.resv = "none"
  BY <1>1
<1>4. op = [o \in Ops |-> d]
  BY DEF LedgerInit
<1> HIDE DEF d
<1>5. Held(op) = {}
  BY <1>3, <1>4 DEF Held
<1>6. BudgetOK
  <2>1. AmountOf({}) = 0
    BY LedgerAssumption, AmountUnfolds
  <2>2. (\E m \in Metrics : budget = [metric |-> m, reserved |-> 0, spent |-> 0]) /\ Capacity \in Nat
    BY LedgerAssumption DEF LedgerInit
  <2>3. budget.reserved = 0 /\ budget.spent = 0 /\ budget \in [metric : Metrics, reserved : Nat, spent : Nat]
    BY <2>2
  <2>4. QED
    BY <1>5, <2>1, <2>2, <2>3 DEF BudgetOK, Overdrawn, IsObserved
<1>7. QED
  BY <1>2, <1>3, <1>4, <1>6 DEF LedgerInit, LedgerInv, CutIsKnown, Known, StatusOf

\* The moves of any step of the ledger.
AnyMove(d, e) ==
    \/ ServerMove(d, e)
    \/ Created(d, e) /\ ~root.cancel
    \/ Leased(d, e) /\ ~root.cancel
    \/ Begun(d, e) /\ ~root.cancel
    \/ \E sig \in DeviceSignals : Told(d, e, sig)

\* Every step of the ledger keeps its invariant, makes of every row one of the
\* moves above, and never takes the cut of the root back.
LEMMA LedgerNextMoves ==
    ASSUME LedgerInv, [LedgerNext]_ledgerVars
    PROVE  LedgerInv' /\ (\A o \in Ops : AnyMove(op[o], op'[o]))
           /\ (root.cancel => root'.cancel)
<1>1. CASE LedgerStep
  <2>1. root.cancel => root'.cancel
    BY <1>1 DEF LedgerStep, CreateOperation, LeaseRunsOut, CancelRoot, CancelAgent, ExpireLeases,
       DeadlinePasses, RunEnds, LedgerInv
  <2>2. QED
    BY <1>1, <2>1, LedgerStepMoves DEF AnyMove
<1>2. ASSUME NEW o \in Ops, NEW used \in 0..MaxUsage, SettleUsage(o, used)
      PROVE  LedgerInv' /\ (\A p \in Ops : AnyMove(op[p], op'[p])) /\ (root.cancel => root'.cancel)
  <2>1. root.cancel => root'.cancel
    BY <1>2 DEF SettleUsage, LedgerInv
  <2>2. QED
    BY <1>2, <2>1, SettleMoves DEF AnyMove
<1>3. ASSUME NEW o \in Ops, Dispatch(o)
      PROVE  LedgerInv' /\ (\A p \in Ops : AnyMove(op[p], op'[p])) /\ (root.cancel => root'.cancel)
  <2>1. /\ LedgerInv' /\ ~root.cancel
        /\ Leased(op[o], op'[o]) /\ \A p \in Ops \ {o} : op'[p] = op[p]
    BY <1>3, DispatchMoves
  <2>2. QED
    BY <2>1, SameRows DEF AnyMove
<1>4. ASSUME NEW o \in Ops, StartOperation(o)
      PROVE  LedgerInv' /\ (\A p \in Ops : AnyMove(op[p], op'[p])) /\ (root.cancel => root'.cancel)
  <2>1. /\ LedgerInv' /\ ~root.cancel
        /\ Begun(op[o], op'[o]) /\ \A p \in Ops \ {o} : op'[p] = op[p]
    BY <1>4, StartMoves
  <2>2. QED
    BY <2>1, SameRows DEF AnyMove
<1>5. ASSUME NEW r \in AnyReceipt, RecordReceipt(r)
      PROVE  LedgerInv' /\ (\A p \in Ops : AnyMove(op[p], op'[p])) /\ (root.cancel => root'.cancel)
  <2>1. r.op \in Ops /\ r.sig \in DeviceSignals
    BY AnyReceiptIsFact
  <2>2. /\ LedgerInv' /\ UNCHANGED root
        /\ Told(op[r.op], op'[r.op], r.sig) \/ UNCHANGED op
        /\ \A p \in Ops \ {r.op} : op'[p] = op[p]
    BY <1>5, AnyReceiptIsFact, ReceiptMoves
  <2> DEFINE g == r.sig  q == r.op
  <2> HIDE DEF g, q
  <2>3. g \in DeviceSignals /\ q \in Ops
        /\ (Told(op[q], op'[q], g) \/ UNCHANGED op)
        /\ \A p \in Ops \ {q} : op'[p] = op[p]
    BY <2>1, <2>2 DEF g, q
  <2>4. \A p \in Ops : AnyMove(op[p], op'[p])
    BY <2>3, SameRows DEF AnyMove
  <2>5. QED
    BY <2>2, <2>4
<1>6. CASE UNCHANGED ledgerVars
  <2>1. UNCHANGED <<op, root, receipts, budget>>
    BY <1>6 DEF ledgerVars
  <2>2. AmountOf(Held(op))' = AmountOf(Held(op)')
    BY DEF AmountOf, MapThenSumSet, MapThenFoldSet
  <2>3. Held(op)' = Held(op)
    BY <2>1 DEF Held
  <2>4. LedgerInv'
    BY <2>1, <2>2, <2>3 DEF LedgerInv, BudgetOK, Overdrawn, IsObserved, CutIsKnown, Known, StatusOf
  <2>5. QED
    BY <2>1, <2>4, SameRows DEF AnyMove
<1>7. QED
  BY <1>1, <1>2, <1>3, <1>4, <1>5, <1>6 DEF LedgerNext

\* LedgerInv holds in every reachable state of the ledger.
THEOREM LedgerInvariance == LedgerSpec => []LedgerInv
<1>1. LedgerInv /\ [LedgerNext]_ledgerVars => LedgerInv'
  BY LedgerNextMoves
<1> QED
  BY <1>1, LedgerStart, PTL DEF LedgerSpec

\* Rows, root, receipts and budget are well typed: in particular the reserved
\* column never falls below zero, whatever is settled or given back.
THEOREM LedgerTyped == LedgerSpec => []LedgerTypeOK
<1>1. LedgerInv => LedgerTypeOK
  BY DEF LedgerInv, BudgetOK, LedgerTypeOK
<1> QED
  BY <1>1, LedgerInvariance, PTL

\* The reserved column is the sum of the reservations still held, for any number
\* of operations and any amounts, and only a cut root is overdrawn.
THEOREM BudgetIsExact == LedgerSpec => []BudgetAccounts
<1>1. LedgerInv => BudgetAccounts
  BY DEF LedgerInv, BudgetOK, BudgetAccounts, AmountOf, Held
<1> QED
  BY <1>1, LedgerInvariance, PTL

\* No operation has a result, or is in doubt, that no device ever held a lease for.
THEOREM ResultNeedsLease == LedgerSpec => []UnleasedHasNoResult
<1>1. LedgerInv => UnleasedHasNoResult
  BY DEF LedgerInv, UnleasedHasNoResult, RowOK, StatusOf, KnownOutcomes, Waiting
<1> QED
  BY <1>1, LedgerInvariance, PTL

\* A root that is cut stays cut: nothing is created, leased or started any more,
\* and what has not ended knows of it.
THEOREM CutStays == LedgerSpec => CutIsFinal
<1> DEFINE Kept ==
      root.cancel =>
         /\ root'.cancel
         /\ \A o \in Ops :
              /\ (StatusOf(o) = "absent") = (StatusOf(o)' = "absent")
              /\ op'[o].lease # "none" => op[o].lease # "none"
              /\ StatusOf(o)' = "running" => StatusOf(o) = "running"
              /\ StatusOf(o) \in Terminal \cup {"absent"} \/ op[o].snap.cancel
<1>1. LedgerInv /\ [LedgerNext]_ledgerVars => [Kept]_ledgerVars
  <2>1. SUFFICES ASSUME LedgerInv, [LedgerNext]_ledgerVars, root.cancel PROVE Kept
    OBVIOUS
  <2>2. LedgerInv' /\ (\A o \in Ops : AnyMove(op[o], op'[o])) /\ root'.cancel
    BY <2>1, LedgerNextMoves
  <2>3. ASSUME NEW o \in Ops
        PROVE  /\ (StatusOf(o) = "absent") = (StatusOf(o)' = "absent")
               /\ op'[o].lease # "none" => op[o].lease # "none"
               /\ StatusOf(o)' = "running" => StatusOf(o) = "running"
               /\ StatusOf(o) \in Terminal \cup {"absent"} \/ op[o].snap.cancel
    <3> DEFINE d == op[o]  e == op'[o]
    <3>1. d.snap.status \in Terminal \cup {"absent"} \/ d.snap.cancel
      BY <2>1 DEF LedgerInv, CutIsKnown, StatusOf
    <3>2. RowOK(d) /\ RowOK(e)
      BY <2>1, <2>2 DEF LedgerInv
    <3>3. ServerMove(d, e) \/ \E sig \in DeviceSignals : Told(d, e, sig)
      BY <2>1, <2>2 DEF AnyMove
    <3> HIDE DEF d, e
    <3>4. CASE ServerMove(d, e)
      BY <3>1, <3>4 DEF ServerMove, StatusOf, d, e
    <3>5. ASSUME NEW sig \in DeviceSignals, Told(d, e, sig)
          PROVE  /\ d.snap.status # "absent" /\ e.snap.status # "absent"
                 /\ e.lease # "none" => d.lease # "none"
                 /\ e.snap.status = "running" => d.snap.status = "running"
      <4>1. d.snap.status # "absent" /\ e.snap.status # "absent"
        BY <3>2, <3>5 DEF Told, RowOK, Terminal, KnownOutcomes
      <4>2. e.snap.status = "running" => d.snap.status = "running"
        BY <3>1, <3>2, <3>5, <4>1 DEF Told, RowOK, Terminal, KnownOutcomes
      <4>3. QED
        BY <3>5, <4>1, <4>2 DEF Told
    <3>6. QED
      BY <3>1, <3>3, <3>4, <3>5 DEF StatusOf, d, e
  <2>4. QED
    BY <2>1, <2>2, <2>3
<1>2. QED
  BY <1>1, LedgerInvariance, PTL DEF LedgerSpec, CutIsFinal
=============================================================================
