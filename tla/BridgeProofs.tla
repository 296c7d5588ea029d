---------------------------- MODULE BridgeProofs ----------------------------
(***************************************************************************)
(* Proofs about the ledger, the Bridge client and the link together: what  *)
(* happens on the user's computer happens at most once, what the ledger    *)
(* says of it is true, an outcome always lands, and the whole keeps the    *)
(* promise of OperationPromise.                                            *)
(***************************************************************************)
EXTENDS BridgeOperations, OperationLedgerProofs, SequenceTheorems

-----------------------------------------------------------------------------
(* The inductive invariant.                                                *)

Executing == {"starting", "permitted", "acted", "file", "prepared", "commit", "wrote", "record"}
Permitted == Executing \ {"starting"}
Handling  == Executing \cup {"got", "journaled"}
PerFile   == {"file", "prepared", "commit", "wrote"}
Decisive  == {"outcome", "stopped"}
FactTypes == Decisive \cup {"uncertain"}
Concluded == {"completed", "unknown"}

\* The facts a device may journal.
Facts == {Fact(o, k, sig, proof) :
            o \in Ops, k \in {1, 2}, sig \in {s \in DeviceSignals : s.type \in FactTypes},
            proof \in BOOLEAN}

\* The device's variables are well typed.
DeviceTyped ==
    /\ entry \in [Ops -> EntryStates]
    /\ files \in [Ops -> [Files -> FileStates]]
    /\ outbox \in Seq(Facts)
    /\ client \in [pc : PCs, op : Ops \cup {None}, file : 0..NFiles,
                   paused : BOOLEAN, back : {"flush", "report", "close"}]
    /\ reply \in Answers \cup {None}
    /\ done \in [Ops -> [Files -> Nat]]
    /\ faults \in [crashes : 0..MaxCrashes, pauses : 0..MaxPauses]

\* Where the client is agrees with its journal: it handles the one active entry,
\* unless it is down; and it is past the start only with a recorded permission.
ClientOK ==
    /\ client.pc \in Handling => Op \in Ops
    /\ At("journaled") => entry[Op] = "received"
    /\ client.pc \in Executing => entry[Op] = "executing"
    /\ \A o \in Ops : Active(o) => At("down") \/ (Op = o /\ client.pc \in Executing \cup {"journaled"})
    /\ \A o, p \in Ops : Active(o) /\ Active(p) => o = p
    /\ client.pc \in Permitted => Known(StartId(Op))
    /\ At("acted") => Capability[Op] # "changeset"
    /\ client.pc \in PerFile \cup {"record"} => Capability[Op] = "changeset"
    /\ client.pc \in PerFile => File \in Files

\* A request names an operation of the root, and a receipt request carries a fact.
RequestOK(q) ==
    \/ q.kind = "next"
    \/ q.kind = "start" /\ q.op \in Ops
    \/ q.kind = "receipt" /\ q.receipt \in Facts

\* The client waits for the answer to its own request, and "granted" is recorded.
LinkOK ==
    /\ wire = None \/ reply = None
    /\ client.pc \notin Waits => wire = None /\ reply = None
    /\ wire # None =>
         /\ RequestOK(wire)
         /\ At("starting") => wire.kind = "start" /\ wire.op = Op
         /\ At("claiming") => wire.kind = "next"
         /\ At("acking") => wire.kind = "receipt"
    /\ reply # None /\ reply.kind = "granted" /\ At("starting") => Known(StartId(Op))
    /\ reply # None /\ reply.kind = "dispatch" => reply.op \in Ops
    /\ \A q \in late : RequestOK(q)

\* Every copy of a fact that the server may still see: in the outbox, on the wire
\* or late.
CopiesOf(ob, lt, w) ==
    {ob[i] : i \in 1..Len(ob)}
      \cup {q.receipt : q \in {x \in lt \cup ({w} \ {None}) : x.kind = "receipt"}}
Copies == CopiesOf(outbox, late, wire)

\* Somebody holds the k-th fact of o, of type t: a copy, or the ledger.
Said(C, R, o, k, t) ==
    \/ \E c \in C : c.id = FactId(o, k) /\ c.sig.type = t
    \/ \E s \in R : s.id = FactId(o, k) /\ s.type = t

\* What the effects e say of o is so, when the effects in H happened.
TrueOf(o, e, H) ==
    IF Capability[o] \in Isolated THEN e = "none"
    ELSE /\ e \in Effects
         /\ e = "none" => H = {}
         /\ e = "applied" => H = UnitsOf(o)
         /\ e = "partial" => H \notin {{}, UnitsOf(o)}

\* Facts are told of concluded operations only, and are true; an operation has
\* one fact of each number, and one decisive fact at most.
FactsOK ==
    /\ \A c \in Copies : c.sig.type \in Decisive => TrueOf(c.op, c.sig.effects, Happened(c.op))
    /\ \A s \in receipts :
         \/ s.type = "start" /\ \E o \in Ops : s.id = StartId(o)
         \/ s.type \in FactTypes /\ \E o \in Ops, k \in {1, 2} : s.id = FactId(o, k)
    /\ \A o \in Ops, k \in {1, 2}, t \in FactTypes :
         Said(Copies, receipts, o, k, t) =>
           /\ entry[o] \in Concluded
           /\ entry[o] = "unknown" => k = 1 /\ t = "uncertain"
    /\ \A o \in Ops, k, l \in {1, 2}, t, u \in FactTypes :
         /\ Said(Copies, receipts, o, k, t) /\ Said(Copies, receipts, o, l, u)
         /\ k = l \/ {t, u} \subseteq Decisive
         => k = l /\ t = u

\* An operation that ended with a lease was ended by a decisive fact of its device,
\* what is said of it is so, and nothing happens without a permission.
VerdictOK ==
    \A o \in Ops :
        /\ StatusOf(o) \in Terminal => TrueOf(o, op[o].snap.effects, Happened(o))
        /\ StatusOf(o) \in Terminal /\ op[o].lease # "none" =>
             \E k \in {1, 2}, t \in Decisive : \E s \in receipts : s.id = FactId(o, k) /\ s.type = t
        /\ Happened(o) # {} => Known(StartId(o))

\* The effects of one operation agree with its journal and the client's place.
EffectsOf(o) ==
    /\ \A i \in Files : done[o][i] \in {0, 1}
    /\ Capability[o] # "changeset" => \A i \in Files \ {1} : done[o][i] = 0
    /\ entry[o] \in {"absent", "received"} \/ (Op = o /\ client.pc \in {"starting", "permitted"}) =>
         \A i \in Files : done[o][i] = 0 /\ files[o][i] = "pending"
    /\ Capability[o] = "changeset" =>
         \A i \in Files :
           /\ files[o][i] \in {"pending", "conflict", "canceled"} => done[o][i] = 0
           /\ files[o][i] = "applied" => done[o][i] = 1
    /\ Op = o /\ client.pc \in PerFile \cup {"record"} =>
         \A i \in Files : files[o][i] = "prepared" <=>
                            (i = File /\ client.pc \in {"prepared", "commit", "wrote"})
    /\ Op = o /\ client.pc \in {"prepared", "commit"} => done[o][File] = 0
    /\ Op = o /\ At("wrote") => done[o][File] = 1
    /\ Op = o /\ At("acted") => done[o][1] = 1

EffectsOK == \A o \in Ops : EffectsOf(o)

BridgeInv ==
    /\ LedgerInv /\ DeviceTyped /\ ClientOK /\ LinkOK /\ FactsOK /\ VerdictOK /\ EffectsOK

-----------------------------------------------------------------------------
(* Copies of facts.                                                        *)

\* A fact names an operation and one of the signals a device journals, and its
\* number is never a start's.
LEMMA FactFields ==
    ASSUME NEW c \in Facts
    PROVE  /\ c.op \in Ops /\ c.sig \in DeviceSignals /\ c.sig.type \in FactTypes
           /\ \E k \in {1, 2} : c.id = FactId(c.op, k)
           /\ \A o \in Ops : c.id # StartId(o)
BY DEF Facts, Fact, FactId, StartId

\* Copies with a fact more, with the head gone, or with the head on the wire.
LEMMA CopiesMove ==
    ASSUME NEW ob \in Seq(Facts), NEW lt, NEW w
    PROVE  /\ \A f \in Facts : /\ Append(ob, f) \in Seq(Facts)
                               /\ CopiesOf(Append(ob, f), lt, w) = CopiesOf(ob, lt, w) \cup {f}
           /\ ob # << >> => /\ Tail(ob) \in Seq(Facts) /\ Head(ob) \in Facts
                            /\ CopiesOf(Tail(ob), lt, w) \subseteq CopiesOf(ob, lt, w)
           /\ ob # << >> => \A r : r.receipt = Head(ob) =>
                              CopiesOf(ob, lt, r) \subseteq CopiesOf(ob, lt, w)
           /\ \A r : r.kind # "receipt" => CopiesOf(ob, lt, r) \subseteq CopiesOf(ob, lt, w)
           /\ CopiesOf(ob, lt, None) \subseteq CopiesOf(ob, lt, w)
           /\ CopiesOf(ob, lt \cup {w}, None) \subseteq CopiesOf(ob, lt, w) \/ w = None
           /\ \A q : CopiesOf(ob, lt \ {q}, w) \subseteq CopiesOf(ob, lt, w)
<1>1. ASSUME NEW f \in Facts
      PROVE  /\ Append(ob, f) \in Seq(Facts)
             /\ CopiesOf(Append(ob, f), lt, w) = CopiesOf(ob, lt, w) \cup {f}
  <2>1. /\ Append(ob, f) \in Seq(Facts)
        /\ Len(Append(ob, f)) = Len(ob) + 1 /\ Len(ob) \in Nat
        /\ Append(ob, f)[Len(ob) + 1] = f
        /\ \A i \in 1..Len(ob) : Append(ob, f)[i] = ob[i]
    OBVIOUS
  <2>2. {Append(ob, f)[i] : i \in 1..Len(Append(ob, f))} = {ob[i] : i \in 1..Len(ob)} \cup {f}
    <3>1. 1..(Len(ob) + 1) = (1..Len(ob)) \cup {Len(ob) + 1}
      BY <2>1
    <3> DEFINE a == Append(ob, f)  n == Len(ob)
    <3> HIDE DEF a, n
    <3>2. Len(a) = n + 1 /\ a[n + 1] = f /\ (\A i \in 1..n : a[i] = ob[i])
          /\ 1..(n + 1) = (1..n) \cup {n + 1}
      BY <2>1, <3>1 DEF a, n
    <3>3. {a[i] : i \in 1..Len(a)} = {ob[i] : i \in 1..n} \cup {f}
      BY <3>2
    <3>4. QED
      BY <3>3 DEF a, n
  <2>3. QED
    BY <2>1, <2>2 DEF CopiesOf
<1>2. ASSUME ob # << >>
      PROVE  /\ Tail(ob) \in Seq(Facts) /\ Head(ob) \in Facts
             /\ CopiesOf(Tail(ob), lt, w) \subseteq CopiesOf(ob, lt, w)
             /\ 1 \in 1..Len(ob) /\ Head(ob) = ob[1]
  <2>1. /\ Tail(ob) \in Seq(Facts) /\ Head(ob) \in Facts
        /\ Len(Tail(ob)) = Len(ob) - 1 /\ Len(ob) \in Nat /\ Len(ob) > 0 /\ Head(ob) = ob[1]
        /\ \A i \in 1..Len(Tail(ob)) : Tail(ob)[i] = ob[i + 1]
    BY <1>2
  <2>2. \A i \in 1..Len(Tail(ob)) : i + 1 \in 1..Len(ob)
    BY <2>1
  <2>3. QED
    BY <2>1, <2>2 DEF CopiesOf
<1>3. QED
  BY <1>1, <1>2 DEF CopiesOf

\* Fewer copies and fewer receipts say less.
LEMMA SaidLess ==
    ASSUME NEW C, NEW D, NEW R, NEW S, C \subseteq D, R \subseteq S, NEW o, NEW k, NEW t,
           Said(C, R, o, k, t)
    PROVE  Said(D, S, o, k, t)
BY DEF Said

-----------------------------------------------------------------------------
(* Steps of the server.                                                    *)

\* A step that leaves the device alone and stores nothing but starts and facts
\* that a copy tells keeps what concerns the device.
LEMMA ServerKeeps ==
    ASSUME BridgeInv, UNCHANGED <<entry, files, outbox, client, done, faults>>, LedgerInv',
           receipts \subseteq receipts', Copies' \subseteq Copies,
           \A s \in receipts' \ receipts :
             \/ s.type = "start" /\ \E o \in Ops : s.id = StartId(o)
             \/ \E c \in Copies : c \in Facts /\ s.id = c.id /\ s.type = c.sig.type,
           reply' \in Answers \cup {None}, LinkOK', VerdictOK'
    PROVE  BridgeInv'
<1>1. DeviceTyped'
  BY DEF BridgeInv, DeviceTyped
<1>2. \A o : Known(StartId(o)) => Known(StartId(o))'
  BY DEF Known
<1>3. ClientOK'
  BY <1>2 DEF BridgeInv, ClientOK, At, Op, File, Active
<1>4. EffectsOK'
  BY DEF BridgeInv, EffectsOK, EffectsOf, At, Op, File
<1>5. \A o \in Ops, k \in {1, 2}, t \in FactTypes :
        Said(Copies', receipts', o, k, t) => Said(Copies, receipts, o, k, t)
  <2> TAKE o \in Ops, k \in {1, 2}, t \in FactTypes
  <2>1. SUFFICES ASSUME Said(Copies', receipts', o, k, t) PROVE Said(Copies, receipts, o, k, t)
    OBVIOUS
  <2>2. CASE \E c \in Copies' : c.id = FactId(o, k) /\ c.sig.type = t
    BY <2>2 DEF Said
  <2>3. ASSUME NEW s \in receipts', s.id = FactId(o, k), s.type = t
        PROVE  Said(Copies, receipts, o, k, t)
    <3>1. CASE s \in receipts
      BY <2>3, <3>1 DEF Said
    <3>2. CASE s \notin receipts
      <4>1. s.type # "start"
        BY <2>3 DEF FactTypes, Decisive
      <4>2. PICK c \in Copies : s.id = c.id /\ s.type = c.sig.type
        BY <3>2, <4>1
      <4>3. QED
        BY <2>3, <4>2 DEF Said
    <3>3. QED
      BY <3>1, <3>2
  <2>4. QED
    BY <2>1, <2>2, <2>3 DEF Said
<1>6. FactsOK'
  <2>1. \A c \in Copies' : c.sig.type \in Decisive => TrueOf(c.op, c.sig.effects, Happened(c.op)')
    BY DEF BridgeInv, FactsOK, Happened
  <2>2. \A s \in receipts' :
         \/ s.type = "start" /\ \E o \in Ops : s.id = StartId(o)
         \/ s.type \in FactTypes /\ \E o \in Ops, k \in {1, 2} : s.id = FactId(o, k)
    <3> TAKE s \in receipts'
    <3>1. CASE s \in receipts
      BY <3>1 DEF BridgeInv, FactsOK
    <3>2. CASE s \notin receipts
      <4>1. ASSUME NEW c \in Copies, c \in Facts, s.id = c.id, s.type = c.sig.type
            PROVE  s.type \in FactTypes /\ \E o \in Ops, k \in {1, 2} : s.id = FactId(o, k)
        BY <4>1, FactFields
      <4>2. QED
        BY <3>2, <4>1
    <3>3. QED
      BY <3>1, <3>2
  <2>3. \A o \in Ops, k \in {1, 2}, t \in FactTypes :
         Said(Copies', receipts', o, k, t) =>
           /\ entry[o] \in Concluded
           /\ entry[o] = "unknown" => k = 1 /\ t = "uncertain"
    BY <1>5 DEF BridgeInv, FactsOK
  <2>4. \A o \in Ops, k, l \in {1, 2}, t, u \in FactTypes :
         /\ Said(Copies', receipts', o, k, t) /\ Said(Copies', receipts', o, l, u)
         /\ k = l \/ {t, u} \subseteq Decisive
         => k = l /\ t = u
    <3> HIDE DEF Copies
    <3> QED
      BY <1>5 DEF BridgeInv, FactsOK
  <2>5. QED
    <3>1. \A o, k, t : Said(Copies, receipts, o, k, t)' <=> Said(Copies', receipts', o, k, t)
      BY DEF Said
    <3>2. \A c : TrueOf(c.op, c.sig.effects, Happened(c.op))'
                   <=> TrueOf(c.op, c.sig.effects, Happened(c.op)')
      BY DEF TrueOf, UnitsOf
    <3> HIDE DEF Copies
    <3>3. QED
      BY <2>1, <2>2, <2>3, <2>4, <3>1, <3>2 DEF FactsOK
<1>7. QED
  BY <1>1, <1>3, <1>4, <1>6 DEF BridgeInv

\* What a move of the ledger leaves true of one operation, its effects unchanged.
LEMMA MoveKeepsVerdict ==
    ASSUME BridgeInv, UNCHANGED done, LedgerInv', receipts \subseteq receipts', NEW o \in Ops,
           \/ ServerMove(op[o], op'[o]) \/ Created(op[o], op'[o])
           \/ Leased(op[o], op'[o]) \/ Begun(op[o], op'[o])
    PROVE  /\ StatusOf(o)' \in Terminal => TrueOf(o, op'[o].snap.effects, Happened(o)')
           /\ StatusOf(o)' \in Terminal /\ op'[o].lease # "none" =>
                \E k \in {1, 2}, t \in Decisive : \E s \in receipts' : s.id = FactId(o, k) /\ s.type = t
           /\ Happened(o)' # {} => Known(StartId(o))'
<1> DEFINE d == op[o]  e == op'[o]
<1>1. Happened(o)' = Happened(o)
  BY DEF Happened
<1>2. StatusOf(o) = d.snap.status /\ StatusOf(o)' = e.snap.status
  BY DEF StatusOf
<1>3. Happened(o)' # {} => Known(StartId(o))'
  BY <1>1 DEF BridgeInv, VerdictOK, Known
<1>4. /\ d.snap.status \in Terminal => TrueOf(o, d.snap.effects, Happened(o))
      /\ d.snap.status \in Terminal /\ d.lease # "none" =>
           \E k \in {1, 2}, t \in Decisive : \E s \in receipts : s.id = FactId(o, k) /\ s.type = t
      /\ d.lease = "none" => Happened(o) = {}
  BY <1>2 DEF BridgeInv, VerdictOK, LedgerInv
<1> HIDE DEF d, e
<1>5. CASE ServerMove(d, e)
  <2>1. CASE d.snap.status \in Terminal
    BY <1>1, <1>2, <1>3, <1>4, <1>5, <2>1 DEF ServerMove, d, e
  <2>2. CASE d.snap.status \notin Terminal /\ e.snap.status \in Terminal
    <3>1. e.snap.effects = "none" /\ d.lease = "none" /\ e.lease = "none"
      BY <1>5, <2>2 DEF ServerMove
    <3>2. TrueOf(o, "none", {})
      BY DEF TrueOf, Effects
    <3>3. QED
      BY <1>1, <1>2, <1>3, <1>4, <3>1, <3>2 DEF d, e
  <2>3. CASE e.snap.status \notin Terminal
    BY <1>2, <1>3, <2>3
  <2>4. QED
    BY <2>1, <2>2, <2>3
<1>6. CASE Created(d, e) \/ Leased(d, e) \/ Begun(d, e)
  BY <1>2, <1>3, <1>6 DEF Created, Leased, Begun, Terminal, KnownOutcomes
<1>7. QED
  BY <1>5, <1>6 DEF d, e

\* The server's own steps.
LEMMA ServerNextKeeps ==
    ASSUME BridgeInv, ServerNext
    PROVE  BridgeInv'
<1>1. LedgerStep /\ UNCHANGED <<entry, files, outbox, client, wire, reply, late, done, faults>>
  BY DEF ServerNext, journalVars, linkVars
<1>2. /\ LedgerInv' /\ UNCHANGED receipts
      /\ \A o \in Ops : ServerMove(op[o], op'[o]) \/ Created(op[o], op'[o])
  BY <1>1, LedgerStepMoves DEF BridgeInv
<1>3. VerdictOK'
  <2>1. ASSUME NEW o \in Ops
        PROVE  /\ StatusOf(o)' \in Terminal => TrueOf(o, op'[o].snap.effects, Happened(o)')
               /\ StatusOf(o)' \in Terminal /\ op'[o].lease # "none" =>
                    \E k \in {1, 2}, t \in Decisive : \E s \in receipts' : s.id = FactId(o, k) /\ s.type = t
               /\ Happened(o)' # {} => Known(StartId(o))'
    BY <1>1, <1>2, MoveKeepsVerdict
  <2>2. QED
    BY <2>1 DEF VerdictOK, TrueOf, UnitsOf
<1>4. Copies' = Copies
  BY <1>1 DEF Copies, CopiesOf
<1>5. LinkOK'
  BY <1>1, <1>2 DEF BridgeInv, LinkOK, At, Op, RequestOK, Known
<1>6. reply' \in Answers \cup {None}
  BY <1>1 DEF BridgeInv, DeviceTyped
<1>7. QED
  BY <1>1, <1>2, <1>3, <1>4, <1>5, <1>6, ServerKeeps

\* Serving a request: what the ledger then knows, and what an answer is worth.
LEMMA HandleKeeps ==
    ASSUME BridgeInv, UNCHANGED done, NEW req, NEW ans, RequestOK(req),
           req.kind = "receipt" => req.receipt \in Copies,
           Handle(req, ans)
    PROVE  /\ LedgerInv' /\ receipts \subseteq receipts' /\ VerdictOK'
           /\ \A s \in receipts' \ receipts :
                \/ s.type = "start" /\ \E o \in Ops : s.id = StartId(o)
                \/ \E c \in Copies : c \in Facts /\ s.id = c.id /\ s.type = c.sig.type
           /\ ans.kind = "granted" => req.kind = "start" /\ Known(StartId(req.op))'
<1> DEFINE Served == /\ LedgerInv' /\ receipts \subseteq receipts' /\ VerdictOK'
                     /\ \A s \in receipts' \ receipts :
                          \/ s.type = "start" /\ \E o \in Ops : s.id = StartId(o)
                          \/ \E c \in Copies : c \in Facts /\ s.id = c.id /\ s.type = c.sig.type
           Good(o) == /\ StatusOf(o)' \in Terminal => TrueOf(o, op'[o].snap.effects, Happened(o)')
                      /\ StatusOf(o)' \in Terminal /\ op'[o].lease # "none" =>
                           \E k \in {1, 2}, t \in Decisive :
                             \E s \in receipts' : s.id = FactId(o, k) /\ s.type = t
                      /\ Happened(o)' # {} => Known(StartId(o))'
<1>1. (\A o \in Ops : Good(o)) => VerdictOK'
  BY DEF VerdictOK, TrueOf, UnitsOf
<1>2. ASSUME UNCHANGED ledgerVars PROVE Served
  <2>1. UNCHANGED <<op, root, receipts, budget>>
    BY <1>2 DEF ledgerVars
  <2>2. LedgerInv'
    BY <1>2, LedgerNextMoves DEF BridgeInv
  <2>3. \A o \in Ops : ServerMove(op[o], op'[o])
    BY <2>1, SameRows DEF BridgeInv
  <2>4. \A o \in Ops : Good(o)
    BY <2>1, <2>2, <2>3, MoveKeepsVerdict
  <2>5. QED
    BY <1>1, <2>1, <2>2, <2>4
<1>3. ASSUME NEW o \in Ops, Dispatch(o)
      PROVE  Served
  <2>1. /\ LedgerInv' /\ UNCHANGED receipts
        /\ Leased(op[o], op'[o]) /\ \A p \in Ops \ {o} : op'[p] = op[p]
    BY <1>3, DispatchMoves DEF BridgeInv
  <2>2. \A p \in Ops : ServerMove(op[p], op'[p]) \/ Leased(op[p], op'[p])
    BY <2>1, SameRows DEF BridgeInv
  <2>3. \A p \in Ops : Good(p)
    BY <2>1, <2>2, MoveKeepsVerdict
  <2>4. QED
    BY <1>1, <2>1, <2>3
<1>4. ASSUME NEW o \in Ops, StartOperation(o)
      PROVE  Served /\ Known(StartId(o))'
  <2> DEFINE s == Stored(StartId(o), "start", "applied")
  <2>1. /\ LedgerInv' /\ receipts' = receipts \cup {s}
        /\ Begun(op[o], op'[o]) /\ \A p \in Ops \ {o} : op'[p] = op[p]
    BY <1>4, StartMoves DEF BridgeInv
  <2>2. s.id = StartId(o) /\ s.type = "start"
    BY DEF Stored
  <2> HIDE DEF s
  <2>3. \A p \in Ops : ServerMove(op[p], op'[p]) \/ Begun(op[p], op'[p])
    BY <2>1, SameRows DEF BridgeInv
  <2>4. \A p \in Ops : Good(p)
    BY <2>1, <2>3, MoveKeepsVerdict
  <2>5. Known(StartId(o))'
    BY <2>1, <2>2 DEF Known
  <2>6. QED
    BY <1>1, <2>1, <2>2, <2>4, <2>5
<1>5. ASSUME NEW r \in Copies, r \in Facts, RecordReceipt(r)
      PROVE  Served
  <2> DEFINE s == Stored(r.id, r.sig.type, Disposition(r))
  <2>1. r.op \in Ops /\ r.sig \in DeviceSignals /\ r.sig.type \in FactTypes
        /\ (\E k \in {1, 2} : r.id = FactId(r.op, k)) /\ \A o \in Ops : r.id # StartId(o)
    BY <1>5, FactFields
  <2>2. /\ LedgerInv' /\ receipts' = receipts \cup {s}
        /\ Told(op[r.op], op'[r.op], r.sig) \/ UNCHANGED op
        /\ \A p \in Ops \ {r.op} : op'[p] = op[p]
    BY <1>5, <2>1, ReceiptMoves DEF BridgeInv
  <2>3. s.id = r.id /\ s.type = r.sig.type
    BY DEF Stored
  <2> HIDE DEF s
  <2>4. ASSUME NEW p \in Ops, op'[p] = op[p] PROVE Good(p)
    <3>1. ServerMove(op[p], op'[p])
      BY <2>4, SameRows DEF BridgeInv
    <3>2. receipts \subseteq receipts'
      BY <2>2
    <3>3. QED
      BY <2>2, <3>1, <3>2, MoveKeepsVerdict
  <2>5. ASSUME Told(op[r.op], op'[r.op], r.sig), op'[r.op] # op[r.op] PROVE Good(r.op)
    <3> DEFINE o == r.op  d == op[o]  e == op'[o]
    <3>1. Happened(o)' = Happened(o) /\ StatusOf(o) = d.snap.status /\ StatusOf(o)' = e.snap.status
      BY DEF Happened, StatusOf
    <3>2. Happened(o)' # {} => Known(StartId(o))'
      <4>1. Happened(o) # {} => Known(StartId(o))
        BY <2>1 DEF BridgeInv, VerdictOK
      <4>2. QED
        BY <2>2, <3>1, <4>1 DEF Known
    <3>3. d.snap.status \notin Terminal
      BY <2>5 DEF Told
    <3>4. CASE r.sig.type \in Decisive
      <4>1. e.snap.effects = r.sig.effects
        BY <2>5, <3>4 DEF Told, Decisive
      <4>2. TrueOf(o, r.sig.effects, Happened(o))
        BY <1>5, <3>4 DEF BridgeInv, FactsOK
      <4>3. s \in receipts' /\ s.type \in Decisive /\ \E k \in {1, 2} : s.id = FactId(o, k)
        BY <2>1, <2>2, <2>3, <3>4
      <4> HIDE DEF o, d, e
      <4>4. QED
        BY <3>1, <3>2, <4>1, <4>2, <4>3 DEF o, e, d
    <3>5. CASE r.sig.type \notin Decisive
      <4>1. e.snap.status \notin Terminal
        BY <2>5, <3>3, <3>5 DEF Told, Decisive
      <4>2. QED
        BY <3>1, <3>2, <4>1
    <3>6. QED
      BY <3>4, <3>5
  <2>6. \A p \in Ops : Good(p)
    <3> HIDE DEF Good
    <3> QED
      BY <2>1, <2>2, <2>4, <2>5
  <2>7. VerdictOK'
    <3> HIDE DEF Good
    <3> QED
      BY <1>1, <2>6
  <2>8. QED
    <3> HIDE DEF Good
    <3> QED
      BY <1>5, <2>2, <2>3, <2>7
<1> HIDE DEF Good, Served
<1>6. CASE req.kind = "next"
  <2>1. ans.kind # "granted"
    BY <1>6 DEF Handle, Answer
  <2>2. Served
    BY <1>2, <1>3, <1>6 DEF Handle, Served
  <2>3. QED
    BY <2>1, <2>2 DEF Served
<1>7. CASE req.kind = "start"
  <2>1. req.op \in Ops
    BY <1>7 DEF RequestOK
  <2>2. \/ StartOperation(req.op)
        \/ ans.kind # "granted" /\ UNCHANGED ledgerVars
    BY <1>7 DEF Handle, Answer
  <2>3. QED
    BY <1>2, <1>4, <1>7, <2>1, <2>2 DEF Served
<1>8. CASE req.kind = "receipt"
  <2>1. ans.kind # "granted"
    BY <1>8 DEF Handle, Answer
  <2>2. req.receipt \in Copies /\ req.receipt \in Facts
    BY <1>8 DEF RequestOK
  <2>3. RecordReceipt(req.receipt) \/ UNCHANGED ledgerVars
    BY <1>8 DEF Handle
  <2>4. Served
    BY <1>2, <1>5, <2>2, <2>3 DEF Served
  <2>5. QED
    BY <2>1, <2>4 DEF Served
<1>9. QED
  BY <1>6, <1>7, <1>8 DEF RequestOK

\* A served request of the client.
LEMMA ServeCurrentKeeps ==
    ASSUME BridgeInv, ServeCurrent
    PROVE  BridgeInv'
<1>1. PICK ans \in Answers : Handle(wire, ans) /\ reply' = ans
  BY DEF ServeCurrent
<1>2. /\ wire # None /\ wire' = None /\ reply = None
      /\ UNCHANGED <<late, entry, files, outbox, client, done, faults>>
  BY DEF ServeCurrent, journalVars
<1>3. RequestOK(wire) /\ (wire.kind = "receipt" => wire.receipt \in Copies)
  BY <1>2 DEF BridgeInv, LinkOK, Copies, CopiesOf
<1> PICK w : w = wire
  OBVIOUS
<1>4. /\ LedgerInv' /\ receipts \subseteq receipts' /\ VerdictOK'
      /\ \A s \in receipts' \ receipts :
           \/ s.type = "start" /\ \E o \in Ops : s.id = StartId(o)
           \/ \E c \in Copies : c \in Facts /\ s.id = c.id /\ s.type = c.sig.type
      /\ ans.kind = "granted" => w.kind = "start" /\ Known(StartId(w.op))'
  BY <1>1, <1>2, <1>3, HandleKeeps
<1>5. Copies' \subseteq Copies
  <2>1. Copies' = CopiesOf(outbox, late, None)
    BY <1>2 DEF Copies, CopiesOf
  <2>2. QED
    BY <2>1, CopiesMove DEF BridgeInv, DeviceTyped, Copies
<1>6. LinkOK'
  <2>1. client.pc \in Waits
    BY <1>2 DEF BridgeInv, LinkOK
  <2>2. ans.kind = "dispatch" => ans.op \in Ops
    BY <1>1 DEF Answers, Answer
  <2>3. ans.kind = "granted" /\ At("starting") => Known(StartId(Op))'
    <3>1. At("starting") => w.op = Op /\ Op' = Op
      BY <1>2 DEF BridgeInv, LinkOK, Op
    <3>2. QED
      BY <1>4, <3>1 DEF Known, StartId
  <2>4. Op' = Op
    BY <1>2 DEF Op
  <2>5. QED
    BY <1>1, <1>2, <2>1, <2>2, <2>3, <2>4 DEF BridgeInv, LinkOK, At, Op, RequestOK, Known
<1>7. QED
  BY <1>1, <1>2, <1>4, <1>5, <1>6, ServerKeeps

\* A request that is served with nobody listening.
LEMMA ServeUnheardKeeps ==
    ASSUME BridgeInv, ServeUnheard
    PROVE  BridgeInv'
<1>1. UNCHANGED <<reply, entry, files, outbox, client, done, faults>>
  BY DEF ServeUnheard, journalVars
<1>2. PICK req, ans :
        /\ Handle(req, ans)
        /\ \/ req = wire /\ wire # None /\ wire' = None /\ late' = late
           \/ req \in late /\ late' = late \ {req} /\ wire' = wire
  BY DEF ServeUnheard
<1>3. RequestOK(req) /\ (req.kind = "receipt" => req.receipt \in Copies)
  BY <1>2 DEF BridgeInv, LinkOK, Copies, CopiesOf
<1>4. /\ LedgerInv' /\ receipts \subseteq receipts' /\ VerdictOK'
      /\ \A s \in receipts' \ receipts :
           \/ s.type = "start" /\ \E o \in Ops : s.id = StartId(o)
           \/ \E c \in Copies : c \in Facts /\ s.id = c.id /\ s.type = c.sig.type
  BY <1>1, <1>2, <1>3, HandleKeeps
<1>5. Copies' \subseteq Copies
  <2>1. Copies' = CopiesOf(outbox, late', wire')
    BY <1>1 DEF Copies, CopiesOf
  <2>2. CASE wire' = None /\ late' = late
    BY <2>1, <2>2, CopiesMove DEF BridgeInv, DeviceTyped, Copies
  <2>3. CASE wire' = wire /\ late' = late \ {req}
    BY <2>1, <2>3, CopiesMove DEF BridgeInv, DeviceTyped, Copies
  <2>4. QED
    BY <1>2, <2>2, <2>3
<1>6. LinkOK'
  <2>1. \A o : Known(StartId(o)) => Known(StartId(o))'
    BY <1>4 DEF Known
  <2>2. QED
    BY <1>1, <1>2, <2>1 DEF BridgeInv, LinkOK, At, Op, RequestOK
<1>7. reply' \in Answers \cup {None}
  BY <1>1 DEF BridgeInv, DeviceTyped
<1>8. QED
  BY <1>1, <1>4, <1>5, <1>6, <1>7, ServerKeeps

-----------------------------------------------------------------------------
(* Steps of the client: the ledger stands still.                           *)

\* What lies in the outbox or on the wire are facts.
LEMMA CopiesAreFacts ==
    ASSUME BridgeInv
    PROVE  Copies \subseteq Facts
<1>1. \A i \in 1..Len(outbox) : outbox[i] \in Facts
  BY DEF BridgeInv, DeviceTyped
<1>2. ASSUME NEW q \in late \cup ({wire} \ {None}), q.kind = "receipt"
      PROVE  q.receipt \in Facts
  BY <1>2 DEF BridgeInv, LinkOK, RequestOK
<1> QED
  BY <1>1, <1>2 DEF Copies, CopiesOf

\* A fact is told of concluded operations only.
LEMMA CopyIsConcluded ==
    ASSUME BridgeInv, NEW c \in Copies
    PROVE  c.op \in Ops /\ entry[c.op] \in Concluded
<1>1. c \in Facts
  BY CopiesAreFacts
<1>2. PICK k \in {1, 2} : c.id = FactId(c.op, k)
  BY <1>1, FactFields
<1>3. c.op \in Ops /\ c.sig.type \in FactTypes
  BY <1>1, FactFields
<1>4. Said(Copies, receipts, c.op, k, c.sig.type)
  BY <1>2 DEF Said
<1> QED
  BY <1>3, <1>4 DEF BridgeInv, FactsOK

\* An operation that ended and was started has been concluded by its device.
LEMMA EndedIsConcluded ==
    ASSUME BridgeInv, NEW o \in Ops, StatusOf(o) \in Terminal, Known(StartId(o))
    PROVE  entry[o] \in Concluded
<1>1. op[o].lease # "none"
  BY DEF BridgeInv, LedgerInv
<1>2. PICK k \in {1, 2}, t \in Decisive : \E s \in receipts : s.id = FactId(o, k) /\ s.type = t
  BY <1>1 DEF BridgeInv, VerdictOK
<1>3. Said(Copies, receipts, o, k, t) /\ t \in FactTypes
  BY <1>2 DEF Said, FactTypes
<1> QED
  BY <1>3 DEF BridgeInv, FactsOK

\* A step of the device leaves the ledger's part of the invariant alone.
LEMMA LedgerStands ==
    ASSUME BridgeInv, UNCHANGED ledgerVars
    PROVE  LedgerInv' /\ UNCHANGED <<op, root, receipts, budget>>
BY LedgerNextMoves DEF BridgeInv, ledgerVars

\* A step that tells no new fact, and changes only effects of an operation that is
\* permitted and not concluded.
LEMMA QuietKeepsFacts ==
    ASSUME BridgeInv, UNCHANGED ledgerVars, Copies' \subseteq Copies,
           \A o \in Ops : entry[o] \in Concluded => entry'[o] = entry[o],
           \A o \in Ops : done'[o] = done[o] \/ (Known(StartId(o)) /\ entry[o] \notin Concluded)
    PROVE  LedgerInv' /\ FactsOK' /\ VerdictOK'
<1>1. LedgerInv' /\ UNCHANGED <<op, root, receipts, budget>>
  BY LedgerStands
<1>2. \A o \in Ops : \A k, t : Said(Copies', receipts', o, k, t) => Said(Copies, receipts, o, k, t)
  BY <1>1, SaidLess
<1>3. \A o \in Ops : done'[o] = done[o] => Happened(o)' = Happened(o)
  BY DEF Happened
<1>4. FactsOK'
  <2>1. ASSUME NEW c \in Copies', c.sig.type \in Decisive
        PROVE  TrueOf(c.op, c.sig.effects, Happened(c.op)')
    <3>1. c \in Copies /\ c.op \in Ops /\ entry[c.op] \in Concluded
      BY CopyIsConcluded
    <3>2. Happened(c.op)' = Happened(c.op)
      BY <1>3, <3>1
    <3>3. QED
      BY <2>1, <3>1, <3>2 DEF BridgeInv, FactsOK
  <2>2. \A s \in receipts' :
         \/ s.type = "start" /\ \E o \in Ops : s.id = StartId(o)
         \/ s.type \in FactTypes /\ \E o \in Ops, k \in {1, 2} : s.id = FactId(o, k)
    BY <1>1 DEF BridgeInv, FactsOK
  <2>3. \A o \in Ops, k \in {1, 2}, t \in FactTypes :
         Said(Copies', receipts', o, k, t) =>
           /\ entry'[o] \in Concluded
           /\ entry'[o] = "unknown" => k = 1 /\ t = "uncertain"
    <3> HIDE DEF Copies
    <3> QED
      BY <1>2 DEF BridgeInv, FactsOK
  <2>4. \A o \in Ops, k, l \in {1, 2}, t, u \in FactTypes :
         /\ Said(Copies', receipts', o, k, t) /\ Said(Copies', receipts', o, l, u)
         /\ k = l \/ {t, u} \subseteq Decisive
         => k = l /\ t = u
    BY <1>2 DEF BridgeInv, FactsOK
  <2>5. QED
    <3>1. \A o, k, t : Said(Copies, receipts, o, k, t)' <=> Said(Copies', receipts', o, k, t)
      BY DEF Said
    <3>2. \A c : TrueOf(c.op, c.sig.effects, Happened(c.op))'
                   <=> TrueOf(c.op, c.sig.effects, Happened(c.op)')
      BY DEF TrueOf, UnitsOf
    <3>3. QED
      BY <2>1, <2>2, <2>3, <2>4, <3>1, <3>2 DEF FactsOK
<1>5. VerdictOK'
  <2>1. ASSUME NEW o \in Ops
        PROVE  /\ StatusOf(o)' \in Terminal => TrueOf(o, op'[o].snap.effects, Happened(o)')
               /\ StatusOf(o)' \in Terminal /\ op'[o].lease # "none" =>
                    \E k \in {1, 2}, t \in Decisive : \E s \in receipts' : s.id = FactId(o, k) /\ s.type = t
               /\ Happened(o)' # {} => Known(StartId(o))'
    <3>1. StatusOf(o)' = StatusOf(o) /\ (Known(StartId(o))' <=> Known(StartId(o)))
      BY <1>1 DEF StatusOf, Known
    <3>2. CASE done'[o] = done[o]
      BY <1>1, <1>3, <3>1, <3>2 DEF BridgeInv, VerdictOK
    <3>3. CASE Known(StartId(o)) /\ entry[o] \notin Concluded
      BY <1>1, <3>1, <3>3, EndedIsConcluded
    <3>4. QED
      BY <3>2, <3>3
  <2>2. QED
    BY <2>1 DEF VerdictOK, TrueOf, UnitsOf
<1> QED
  BY <1>1, <1>4, <1>5

\* A step that concludes o with its first fact, or with a second one after doubt.
LEMMA ConcludingKeepsFacts ==
    ASSUME BridgeInv, UNCHANGED ledgerVars, UNCHANGED done,
           NEW o \in Ops, NEW k \in {1, 2}, NEW sig, NEW proof, Fact(o, k, sig, proof) \in Facts,
           Copies' \subseteq Copies \cup {Fact(o, k, sig, proof)},
           \/ k = 1 /\ entry[o] \notin Concluded
           \/ k = 2 /\ entry[o] = "unknown" /\ sig.type \in Decisive,
           entry' = [entry EXCEPT ![o] = IF sig.type = "uncertain" THEN "unknown" ELSE "completed"],
           sig.type \in Decisive => TrueOf(o, sig.effects, Happened(o))
    PROVE  LedgerInv' /\ FactsOK' /\ VerdictOK'
<1> DEFINE f == Fact(o, k, sig, proof)
<1>1. LedgerInv' /\ UNCHANGED <<op, root, receipts, budget>>
  BY LedgerStands
<1>2. f.id = FactId(o, k) /\ f.op = o /\ f.sig = sig /\ sig.type \in FactTypes
  <2>1. f.id = FactId(o, k) /\ f.op = o /\ f.sig = sig
    BY DEF Fact, FactId
  <2>2. f.sig.type \in FactTypes
    BY FactFields
  <2>3. QED
    BY <2>1, <2>2
<1>3. f \in Facts /\ Copies' \subseteq Copies \cup {f}
  OBVIOUS
<1> HIDE DEF f
<1>4. \A p \in Ops, l \in {1, 2} : \A t :
        Said(Copies', receipts', p, l, t) =>
           Said(Copies, receipts, p, l, t) \/ (p = o /\ l = k /\ t = sig.type)
  BY <1>1, <1>2, <1>3 DEF Said, FactId
<1>5. \A p : Happened(p)' = Happened(p)
  BY DEF Happened
<1>6. \A l \in {1, 2}, t \in FactTypes :
        Said(Copies, receipts, o, l, t) =>
          k = 2 /\ l = 1 /\ t = "uncertain" /\ sig.type \in Decisive
  BY DEF BridgeInv, FactsOK, Concluded
<1>7. entry'[o] = (IF sig.type = "uncertain" THEN "unknown" ELSE "completed")
      /\ \A p \in Ops \ {o} : entry'[p] = entry[p]
  BY DEF BridgeInv, DeviceTyped
<1>8. FactsOK'
  <2>1. ASSUME NEW c \in Copies', c.sig.type \in Decisive
        PROVE  TrueOf(c.op, c.sig.effects, Happened(c.op)')
    BY <1>2, <1>3, <1>5, <2>1 DEF BridgeInv, FactsOK
  <2>2. \A s \in receipts' :
         \/ s.type = "start" /\ \E p \in Ops : s.id = StartId(p)
         \/ s.type \in FactTypes /\ \E p \in Ops, l \in {1, 2} : s.id = FactId(p, l)
    BY <1>1 DEF BridgeInv, FactsOK
  <2>3. ASSUME NEW p \in Ops, NEW l \in {1, 2}, NEW t \in FactTypes,
               Said(Copies', receipts', p, l, t)
        PROVE  /\ entry'[p] \in Concluded
               /\ entry'[p] = "unknown" => l = 1 /\ t = "uncertain"
    <3>1. CASE p # o
      BY <1>4, <1>7, <2>3, <3>1 DEF BridgeInv, FactsOK
    <3>2. CASE p = o
      <4>1. entry'[o] \in Concluded
        BY <1>7 DEF Concluded
      <4>2. entry'[o] = "unknown" => sig.type = "uncertain" /\ sig.type \notin Decisive
        BY <1>7 DEF Decisive
      <4>3. CASE Said(Copies, receipts, o, l, t)
        BY <1>6, <3>2, <4>1, <4>2, <4>3
      <4>4. CASE l = k /\ t = sig.type
        BY <3>2, <4>1, <4>2, <4>4
      <4>5. QED
        BY <1>4, <2>3, <3>2, <4>3, <4>4
    <3>3. QED
      BY <3>1, <3>2
  <2>4. ASSUME NEW p \in Ops, NEW l \in {1, 2}, NEW m \in {1, 2},
               NEW t \in FactTypes, NEW u \in FactTypes,
               Said(Copies', receipts', p, l, t), Said(Copies', receipts', p, m, u),
               l = m \/ {t, u} \subseteq Decisive
        PROVE  l = m /\ t = u
    <3>1. CASE p # o
      <4>1. Said(Copies, receipts, p, l, t) /\ Said(Copies, receipts, p, m, u)
        BY <1>4, <2>4, <3>1
      <4>2. QED
        BY <2>4, <4>1 DEF BridgeInv, FactsOK
    <3>2. CASE p = o
      <4>1. Said(Copies, receipts, o, l, t) \/ (l = k /\ t = sig.type)
        BY <1>4, <2>4, <3>2
      <4>2. Said(Copies, receipts, o, m, u) \/ (m = k /\ u = sig.type)
        BY <1>4, <2>4, <3>2
      <4>3. "uncertain" \notin Decisive
        BY DEF Decisive
      <4>4. QED
        BY <1>6, <2>4, <4>1, <4>2, <4>3
    <3>3. QED
      BY <3>1, <3>2
  <2>5. QED
    <3>1. \A p, l, t : Said(Copies, receipts, p, l, t)' <=> Said(Copies', receipts', p, l, t)
      BY DEF Said
    <3>2. \A c : TrueOf(c.op, c.sig.effects, Happened(c.op))'
                   <=> TrueOf(c.op, c.sig.effects, Happened(c.op)')
      BY DEF TrueOf, UnitsOf
    <3>3. QED
      BY <2>1, <2>2, <2>3, <2>4, <3>1, <3>2 DEF FactsOK
<1>9. VerdictOK'
  <2>1. \A p \in Ops : StatusOf(p)' = StatusOf(p) /\ (Known(StartId(p))' <=> Known(StartId(p)))
    BY <1>1 DEF StatusOf, Known
  <2>2. \A p \in Ops :
               /\ StatusOf(p)' \in Terminal => TrueOf(p, op'[p].snap.effects, Happened(p)')
               /\ StatusOf(p)' \in Terminal /\ op'[p].lease # "none" =>
                    \E l \in {1, 2}, t \in Decisive : \E s \in receipts' : s.id = FactId(p, l) /\ s.type = t
               /\ Happened(p)' # {} => Known(StartId(p))'
    BY <1>1, <1>5, <2>1 DEF BridgeInv, VerdictOK
  <2>3. QED
    BY <2>2 DEF VerdictOK, TrueOf, UnitsOf
<1> QED
  BY <1>1, <1>8, <1>9

-----------------------------------------------------------------------------
(* Steps of the client: the link, and steps with no operation in hand.     *)

\* A client that waits for nothing, reads an answer or gives up: nothing is on the
\* wire afterwards, and no new copy of a fact has come to be.
LEMMA LinkQuiets ==
    ASSUME BridgeInv, UNCHANGED ledgerVars,
           \/ client.pc \notin Waits /\ UNCHANGED linkVars
           \/ \E kind : Read(kind)
           \/ Abandon
    PROVE  /\ LinkOK' /\ reply' \in Answers \cup {None}
           /\ CopiesOf(outbox, late', wire') \subseteq Copies
<1>1. /\ wire' = None /\ reply' = None
      /\ late' = late \/ (wire # None /\ late' = late \cup {wire})
  BY DEF BridgeInv, LinkOK, linkVars, Read, Abandon
<1>2. \A q \in late' : RequestOK(q)
  BY <1>1 DEF BridgeInv, LinkOK
<1>3. LinkOK'
  BY <1>1, <1>2 DEF LinkOK, RequestOK
<1>4. CopiesOf(outbox, late', wire') \subseteq Copies
  <2>1. outbox \in Seq(Facts)
    BY DEF BridgeInv, DeviceTyped
  <2>2. CASE late' = late
    BY <1>1, <2>1, <2>2, CopiesMove DEF Copies
  <2>3. CASE wire # None /\ late' = late \cup {wire}
    BY <1>1, <2>1, <2>3, CopiesMove DEF Copies
  <2>4. QED
    BY <1>1, <2>2, <2>3
<1> QED
  BY <1>1, <1>3, <1>4

\* A client that waited for nothing sends a request and waits for its answer.
LEMMA LinkSends ==
    ASSUME BridgeInv, UNCHANGED ledgerVars, client.pc \notin Waits, NEW req, Send(req), RequestOK(req),
           \/ client'.pc = "starting" /\ req.kind = "start" /\ req.op = client'.op
           \/ client'.pc = "claiming" /\ req.kind = "next"
           \/ client'.pc = "acking" /\ req.kind = "receipt"
    PROVE  LinkOK' /\ reply' \in Answers \cup {None} /\ wire' = req /\ late' = late
<1>1. wire = None /\ reply = None /\ wire' = req /\ reply' = None /\ late' = late
  BY DEF BridgeInv, LinkOK, Send
<1>2. \A q \in late : RequestOK(q)
  BY DEF BridgeInv, LinkOK
<1>3. client'.pc \in Waits
  BY DEF Waits
<1> QED
  BY <1>1, <1>2, <1>3 DEF LinkOK, RequestOK, At, Op

\* Only the operation in the client's hands is active.
LEMMA NothingInHand ==
    ASSUME BridgeInv, client.pc \notin Executing \cup {"journaled", "down"}
    PROVE  \A o \in Ops : ~Active(o)
BY DEF BridgeInv, ClientOK, At

\* A client with no operation in hand agrees with any journal that has none active.
LEMMA AwayKeeps ==
    ASSUME BridgeInv, UNCHANGED <<files, done>>,
           \A o \in Ops : entry'[o] = entry[o] \/ entry'[o] \in Concluded,
           client'.pc \notin Executing \cup {"journaled"},
           client'.pc = "got" => client'.op \in Ops,
           client'.pc = "down" \/ \A o \in Ops : ~Active(o)'
    PROVE  ClientOK' /\ EffectsOK'
<1>1. \A o \in Ops : Active(o)' => Active(o) /\ entry'[o] = entry[o]
  BY DEF Active, Concluded
<1>2. ClientOK'
  BY <1>1 DEF BridgeInv, ClientOK, At, Op, File, Executing, Permitted, Handling, PerFile, Active
<1>3. ASSUME NEW o \in Ops PROVE EffectsOf(o)'
  <2>1. EffectsOf(o)
    BY DEF BridgeInv, EffectsOK
  <2>2. entry'[o] \in {"absent", "received"} => entry[o] = entry'[o]
    BY DEF Concluded
  <2>3. client'.pc \notin PerFile \cup {"record", "starting", "permitted", "acted", "wrote", "prepared", "commit"}
    BY DEF Executing, PerFile
  <2>4. QED
    BY <2>1, <2>2, <2>3 DEF EffectsOf, At, Op, File
<1> QED
  BY <1>2, <1>3 DEF EffectsOK

\* What the client keeps in memory, typed.
ClientTyped(c) ==
    c \in [pc : PCs, op : Ops \cup {None}, file : 0..NFiles,
           paused : BOOLEAN, back : {"flush", "report", "close"}]

\* A step with no operation in hand, before and after.
LEMMA AwayStep ==
    ASSUME BridgeInv, UNCHANGED <<ledgerVars, entry, files, done>>,
           outbox' \in Seq(Facts), Copies' \subseteq Copies,
           LinkOK', reply' \in Answers \cup {None},
           ClientTyped(client'), faults' \in [crashes : 0..MaxCrashes, pauses : 0..MaxPauses],
           client'.pc \notin Executing \cup {"journaled"},
           client'.pc = "got" => client'.op \in Ops,
           client'.pc = "down" \/ \A o \in Ops : ~Active(o)
    PROVE  BridgeInv'
<1>1. LedgerInv' /\ FactsOK' /\ VerdictOK'
  BY QuietKeepsFacts
<1>2. ClientOK' /\ EffectsOK'
  <2>1. client'.pc = "down" \/ \A o \in Ops : ~Active(o)'
    BY DEF Active
  <2>2. QED
    BY <2>1, AwayKeeps
<1>3. DeviceTyped'
  BY DEF BridgeInv, DeviceTyped, ClientTyped
<1> QED
  BY <1>1, <1>2, <1>3 DEF BridgeInv

\* Where a client may go with nothing in hand.
LEMMA ClientMoves ==
    ASSUME BridgeInv
    PROVE  /\ ClientTyped(client)
           /\ \A pc \in PCs : /\ ClientTyped([client EXCEPT !.pc = pc])
                              /\ [client EXCEPT !.pc = pc].pc = pc
                              /\ [client EXCEPT !.pc = pc].op = client.op
                              /\ [client EXCEPT !.pc = pc].file = client.file
                              /\ [client EXCEPT !.pc = pc].paused = client.paused
           /\ ClientTyped(Idle) /\ Idle.pc = "idle"
           /\ ClientTyped(Down) /\ Down.pc = "down"
           /\ ClientTyped(PollFails) /\ PollFails.pc \in {"idle", "down"}
<1>1. ClientTyped(client)
  BY DEF BridgeInv, DeviceTyped, ClientTyped
<1>2. NFiles \in Nat \ {0}
  BY JournalAssumption
<1>3. ClientTyped(Idle) /\ Idle.pc = "idle" /\ ClientTyped(Down) /\ Down.pc = "down"
  <2>1. ClientTyped(Idle) /\ Idle.pc = "idle"
    <3>1. 0 \in 0..NFiles
      BY <1>2
    <3>2. QED
      BY <3>1 DEF Idle, ClientTyped, PCs
  <2>2. Down = [Idle EXCEPT !.pc = "down"]
    BY DEF Down
  <2>3. QED
    BY <2>1, <2>2 DEF ClientTyped, PCs
<1>4. ClientTyped(PollFails) /\ PollFails.pc \in {"idle", "down"}
  BY <1>1, <1>3 DEF PollFails, ClientTyped, PCs
<1>5. ASSUME NEW pc \in PCs
      PROVE  /\ ClientTyped([client EXCEPT !.pc = pc])
             /\ [client EXCEPT !.pc = pc].pc = pc
             /\ [client EXCEPT !.pc = pc].op = client.op
             /\ [client EXCEPT !.pc = pc].file = client.file
             /\ [client EXCEPT !.pc = pc].paused = client.paused
  BY <1>1 DEF ClientTyped
<1> QED
  BY <1>1, <1>3, <1>4, <1>5

\* The outbox and the link of a step that delivers nothing new.
LEMMA QuietOutbox ==
    ASSUME BridgeInv, UNCHANGED ledgerVars, UNCHANGED outbox,
           \/ client.pc \notin Waits /\ UNCHANGED linkVars
           \/ \E kind : Read(kind)
           \/ Abandon
    PROVE  /\ LinkOK' /\ reply' \in Answers \cup {None}
           /\ outbox' \in Seq(Facts) /\ Copies' \subseteq Copies
<1>1. LinkOK' /\ reply' \in Answers \cup {None} /\ CopiesOf(outbox, late', wire') \subseteq Copies
  BY LinkQuiets
<1>2. Copies' = CopiesOf(outbox, late', wire')
  BY DEF Copies, CopiesOf
<1>3. outbox' \in Seq(Facts)
  BY DEF BridgeInv, DeviceTyped
<1> QED
  BY <1>1, <1>2, <1>3

\* Steps that only move a client with nothing in hand: a poll, the end of a flush,
\* the exit, an answer that brings no work, and a request given up.
LEMMA IdlingKeeps ==
    ASSUME BridgeInv,
           PollOnce \/ ReceiptRefused \/ FlushEnds \/ ClaimAnswered \/ RequestTimesOut \/ ShutDown
    PROVE  BridgeInv'
<1>1. UNCHANGED <<ledgerVars, entry, files, outbox, done, faults>>
  BY DEF PollOnce, ReceiptRefused, FlushEnds, ClaimAnswered, RequestTimesOut, ShutDown, journalVars
<1>2. \/ client.pc \notin Waits /\ UNCHANGED linkVars
      \/ \E kind : Read(kind)
      \/ Abandon
  BY DEF PollOnce, ReceiptRefused, FlushEnds, ClaimAnswered, RequestTimesOut, ShutDown, At, Waits
<1>3. client.pc \notin Executing \cup {"journaled", "down"}
  BY DEF PollOnce, ReceiptRefused, FlushEnds, ClaimAnswered, RequestTimesOut, ShutDown, At, Executing
<1>4. /\ ClientTyped(client') /\ client'.pc \notin Executing \cup {"journaled"}
      /\ client'.pc = "got" => client'.op \in Ops
  <2>1. CASE PollOnce \/ ShutDown
    <3>1. \E pc \in {"flush", "close"} : client' = [client EXCEPT !.pc = pc]
      BY <2>1 DEF PollOnce, ShutDown, Goto
    <3>2. QED
      BY <3>1, ClientMoves DEF PCs, Executing
  <2>2. CASE ReceiptRefused \/ RequestTimesOut
    <3>1. client' = PollFails
      BY <2>2 DEF ReceiptRefused, RequestTimesOut
    <3>2. QED
      BY <3>1, ClientMoves DEF Executing
  <2>3. CASE FlushEnds
    <3>1. client' = [Idle EXCEPT !.paused = client.paused] \/ client' = Down
      BY <2>3 DEF FlushEnds
    <3>2. ClientTyped(client) /\ ClientTyped(Idle) /\ Idle.pc = "idle"
      BY ClientMoves
    <3>3. ASSUME client' = [Idle EXCEPT !.paused = client.paused]
          PROVE  ClientTyped(client') /\ client'.pc = "idle"
      BY <3>2, <3>3 DEF ClientTyped
    <3>4. QED
      BY <3>1, <3>3, ClientMoves DEF Executing
  <2>4. CASE ClaimAnswered
    <3>1. \/ client' = [client EXCEPT !.pc = "idle"]
          \/ reply # None /\ reply.kind = "dispatch" /\ client' = [client EXCEPT !.pc = "got", !.op = reply.op]
      BY <2>4 DEF ClaimAnswered, Read, Goto
    <3>2. reply # None /\ reply.kind = "dispatch" => reply.op \in Ops
      BY DEF BridgeInv, LinkOK
    <3>3. ASSUME client' = [client EXCEPT !.pc = "got", !.op = reply.op], reply.op \in Ops
          PROVE  ClientTyped(client') /\ client'.pc = "got" /\ client'.op \in Ops
      <4>1. ClientTyped(client)
        BY ClientMoves
      <4>2. QED
        BY <3>3, <4>1 DEF ClientTyped, PCs
    <3>4. ASSUME client' = [client EXCEPT !.pc = "idle"]
          PROVE  ClientTyped(client') /\ client'.pc = "idle"
      BY <3>4, ClientMoves DEF PCs
    <3>5. QED
      BY <3>1, <3>2, <3>3, <3>4 DEF Executing
  <2>5. QED
    BY <2>1, <2>2, <2>3, <2>4
<1>5. /\ LinkOK' /\ reply' \in Answers \cup {None}
      /\ outbox' \in Seq(Facts) /\ Copies' \subseteq Copies
  BY <1>1, <1>2, QuietOutbox
<1>6. \A o \in Ops : ~Active(o)
  BY <1>3, NothingInHand
<1>7. faults' \in [crashes : 0..MaxCrashes, pauses : 0..MaxPauses]
  BY <1>1 DEF BridgeInv, DeviceTyped
<1> QED
  BY <1>1, <1>4, <1>5, <1>6, <1>7, AwayStep

\* Faults are counted up to their bounds.
LEMMA FaultsCount ==
    ASSUME NEW f \in [crashes : 0..MaxCrashes, pauses : 0..MaxPauses]
    PROVE  /\ f.crashes < MaxCrashes =>
                [f EXCEPT !.crashes = @ + 1] \in [crashes : 0..MaxCrashes, pauses : 0..MaxPauses]
           /\ f.pauses < MaxPauses =>
                [f EXCEPT !.pauses = @ + 1] \in [crashes : 0..MaxCrashes, pauses : 0..MaxPauses]
<1>1. MaxCrashes \in Nat /\ MaxPauses \in Nat
  BY FaultAssumption
<1>2. f.crashes \in 0..MaxCrashes /\ f.pauses \in 0..MaxPauses
  OBVIOUS
<1>3. f.crashes < MaxCrashes => f.crashes + 1 \in 0..MaxCrashes
  BY <1>1, <1>2
<1>4. f.pauses < MaxPauses => f.pauses + 1 \in 0..MaxPauses
  BY <1>1, <1>2
<1> DEFINE C == 0..MaxCrashes  P == 0..MaxPauses
<1>5. f \in [crashes : C, pauses : P] /\ (f.crashes < MaxCrashes => f.crashes + 1 \in C)
      /\ (f.pauses < MaxPauses => f.pauses + 1 \in P)
  BY <1>3, <1>4
<1> HIDE DEF C, P
<1>6. /\ f.crashes < MaxCrashes => [f EXCEPT !.crashes = @ + 1] \in [crashes : C, pauses : P]
      /\ f.pauses < MaxPauses => [f EXCEPT !.pauses = @ + 1] \in [crashes : C, pauses : P]
  BY <1>5
<1> QED
  BY <1>6 DEF C, P

\* A crash may come at any point, with an entry left active.
LEMMA CrashKeeps ==
    ASSUME BridgeInv, Crash
    PROVE  BridgeInv'
<1>1. /\ UNCHANGED <<ledgerVars, entry, files, outbox, done>> /\ Abandon /\ client' = Down
      /\ faults' = [faults EXCEPT !.crashes = @ + 1] /\ faults.crashes < MaxCrashes
  BY DEF Crash, journalVars
<1>2. faults' \in [crashes : 0..MaxCrashes, pauses : 0..MaxPauses]
  BY <1>1, FaultsCount DEF BridgeInv, DeviceTyped
<1>3. ClientTyped(client') /\ client'.pc = "down"
  BY <1>1, ClientMoves
<1>4. /\ LinkOK' /\ reply' \in Answers \cup {None}
      /\ outbox' \in Seq(Facts) /\ Copies' \subseteq Copies
  BY <1>1, QuietOutbox
<1> QED
  BY <1>1, <1>2, <1>3, <1>4, AwayStep DEF Executing

\* The oldest receipt goes out, and stays in the outbox.
LEMMA SendReceiptKeeps ==
    ASSUME BridgeInv, SendReceipt
    PROVE  BridgeInv'
<1> DEFINE req == Request("receipt", Head(outbox).op, Head(outbox))
<1>1. /\ UNCHANGED <<ledgerVars, entry, files, outbox, done, faults>> /\ Send(req)
      /\ client.pc \in {"flush", "report", "close"} /\ outbox # <<>>
      /\ client' = [client EXCEPT !.pc = "acking", !.back = client.pc]
  BY DEF SendReceipt, journalVars
<1>2. ClientTyped(client') /\ client'.pc = "acking"
  <2>1. ClientTyped(client)
    BY ClientMoves
  <2>2. QED
    BY <1>1, <2>1 DEF ClientTyped, PCs, Waits
<1>3. outbox \in Seq(Facts) /\ Head(outbox) \in Facts
  BY <1>1 DEF BridgeInv, DeviceTyped
<1>4. req.kind = "receipt" /\ req.receipt = Head(outbox)
  BY DEF Request
<1>5. RequestOK(req)
  BY <1>3, <1>4 DEF RequestOK
<1> HIDE DEF req
<1> PICK r : r = req
  OBVIOUS
<1>6. LinkOK' /\ reply' \in Answers \cup {None} /\ wire' = r /\ late' = late
  <2>1. client.pc \notin Waits
    BY <1>1 DEF Waits
  <2>2. QED
    BY <1>1, <1>2, <1>4, <1>5, <2>1, LinkSends
<1>7. Copies' \subseteq Copies
  <2>1. Copies' = CopiesOf(outbox, late, r)
    BY <1>1, <1>6 DEF Copies, CopiesOf
  <2>2. QED
    BY <1>1, <1>3, <1>4, <2>1, CopiesMove DEF Copies
<1>8. \A o \in Ops : ~Active(o)
  BY <1>1, NothingInHand DEF Executing
<1>9. outbox' \in Seq(Facts) /\ faults' \in [crashes : 0..MaxCrashes, pauses : 0..MaxPauses]
  BY <1>1 DEF BridgeInv, DeviceTyped
<1> QED
  BY <1>1, <1>2, <1>6, <1>7, <1>8, <1>9, AwayStep DEF Executing

\* New work is asked for once the outbox is empty.
LEMMA ClaimKeeps ==
    ASSUME BridgeInv, Claim
    PROVE  BridgeInv'
<1> DEFINE req == Request("next", None, None)
<1>1. /\ UNCHANGED <<ledgerVars, entry, files, outbox, done, faults>> /\ Send(req)
      /\ client.pc = "flush" /\ client' = [client EXCEPT !.pc = "claiming"]
  BY DEF Claim, journalVars, At, Goto
<1>2. ClientTyped(client') /\ client'.pc = "claiming"
  BY <1>1, ClientMoves DEF PCs, Waits
<1>3. outbox \in Seq(Facts)
  BY DEF BridgeInv, DeviceTyped
<1>4. req.kind = "next" /\ RequestOK(req)
  BY DEF Request, RequestOK
<1> HIDE DEF req
<1> PICK r : r = req
  OBVIOUS
<1>6. LinkOK' /\ reply' \in Answers \cup {None} /\ wire' = r /\ late' = late
  <2>1. client.pc \notin Waits
    BY <1>1 DEF Waits
  <2>2. QED
    BY <1>1, <1>2, <1>4, <2>1, LinkSends
<1>7. Copies' \subseteq Copies
  <2>1. Copies' = CopiesOf(outbox, late, r)
    BY <1>1, <1>6 DEF Copies, CopiesOf
  <2>2. QED
    BY <1>3, <1>4, <2>1, CopiesMove DEF Copies
<1>8. \A o \in Ops : ~Active(o)
  BY <1>1, NothingInHand DEF Executing
<1>9. outbox' \in Seq(Facts) /\ faults' \in [crashes : 0..MaxCrashes, pauses : 0..MaxPauses]
  BY <1>1 DEF BridgeInv, DeviceTyped
<1> QED
  BY <1>1, <1>2, <1>6, <1>7, <1>8, <1>9, AwayStep DEF Executing

\* An acknowledged receipt leaves the outbox.  That it is the head that was sent
\* does not matter here: a fact is still told by the ledger, or by nobody.
LEMMA ReceiptAcknowledgedKeeps ==
    ASSUME BridgeInv, ReceiptAcknowledged
    PROVE  BridgeInv'
<1>1. /\ UNCHANGED <<ledgerVars, entry, files, done, faults>> /\ Read("ack")
      /\ client.pc = "acking" /\ outbox' = Tail(outbox)
      /\ client' = [client EXCEPT !.pc = client.back, !.back = "flush"]
  BY DEF ReceiptAcknowledged, Acknowledge, At
<1>2. ClientTyped(client') /\ client'.pc \in {"flush", "report", "close"}
  <2>1. ClientTyped(client)
    BY ClientMoves
  <2>2. QED
    BY <1>1, <2>1 DEF ClientTyped, PCs
<1>3. outbox \in Seq(Facts)
  BY DEF BridgeInv, DeviceTyped
<1>4. LinkOK' /\ reply' \in Answers \cup {None} /\ CopiesOf(outbox, late', wire') \subseteq Copies
  BY <1>1, LinkQuiets
<1>5. outbox' \in Seq(Facts) /\ Copies' \subseteq Copies
  <2>1. PICK lt, w : lt = late' /\ w = wire'
    OBVIOUS
  <2>2. Copies' = CopiesOf(Tail(outbox), lt, w)
    BY <1>1, <2>1 DEF Copies, CopiesOf
  <2>3. CASE outbox # << >>
    BY <1>1, <1>3, <1>4, <2>1, <2>2, <2>3, CopiesMove
  <2>4. CASE outbox = << >>
    <3>1. Tail(outbox) = << >>
      BY <2>4
    <3>2. QED
      BY <1>1, <1>3, <1>4, <2>1, <2>2, <2>4, <3>1
  <2>5. QED
    BY <2>3, <2>4
<1>6. \A o \in Ops : ~Active(o)
  BY <1>1, NothingInHand DEF Executing
<1>7. faults' \in [crashes : 0..MaxCrashes, pauses : 0..MaxPauses]
  BY <1>1 DEF BridgeInv, DeviceTyped
<1> QED
  BY <1>1, <1>2, <1>4, <1>5, <1>6, <1>7, AwayStep DEF Executing

\* A pause is only noted.
LEMMA PauseKeeps ==
    ASSUME BridgeInv, Pause
    PROVE  BridgeInv'
<1>1. /\ UNCHANGED <<ledgerVars, entry, files, outbox, wire, reply, late, done>>
      /\ client' = [client EXCEPT !.paused = TRUE]
      /\ faults' = [faults EXCEPT !.pauses = @ + 1] /\ faults.pauses < MaxPauses
  BY DEF Pause, journalVars, linkVars
<1>2. faults' \in [crashes : 0..MaxCrashes, pauses : 0..MaxPauses]
  BY <1>1, FaultsCount DEF BridgeInv, DeviceTyped
<1>3. ClientTyped(client') /\ client'.pc = client.pc /\ client'.op = client.op /\ client'.file = client.file
  <2>1. ClientTyped(client)
    BY ClientMoves
  <2>2. QED
    BY <1>1, <2>1 DEF ClientTyped
<1>4. LedgerInv' /\ UNCHANGED <<op, root, receipts, budget>>
  BY <1>1, LedgerStands
<1>5. Copies' = Copies
  BY <1>1 DEF Copies, CopiesOf
<1>6. LedgerInv' /\ FactsOK' /\ VerdictOK'
  BY <1>1, <1>5, QuietKeepsFacts
<1>7. DeviceTyped'
  BY <1>1, <1>2, <1>3 DEF BridgeInv, DeviceTyped, ClientTyped
<1>8. ClientOK' /\ EffectsOK'
  BY <1>1, <1>3, <1>4 DEF BridgeInv, ClientOK, EffectsOK, EffectsOf, At, Op, File, Active, Known
<1>9. LinkOK'
  BY <1>1, <1>3, <1>4 DEF BridgeInv, LinkOK, At, Op, RequestOK, Known
<1> QED
  BY <1>6, <1>7, <1>8, <1>9 DEF BridgeInv

-----------------------------------------------------------------------------
(* Steps of the client: conclusions.                                       *)

\* The signals a client journals.
LEMMA Signals ==
    /\ Uncertain \in DeviceSignals /\ Uncertain.type = "uncertain"
    /\ \A s \in {"succeeded", "failed"} :
         Outcome(s, "none") \in DeviceSignals /\ Outcome(s, "none").type = "outcome"
           /\ Outcome(s, "none").effects = "none"
    /\ Outcome("succeeded", "applied") \in DeviceSignals
    /\ Outcome("succeeded", "applied").type = "outcome" /\ Outcome("succeeded", "applied").effects = "applied"
    /\ Outcome("partial", "partial") \in DeviceSignals
    /\ Outcome("partial", "partial").type = "outcome" /\ Outcome("partial", "partial").effects = "partial"
    /\ Stopped("none") \in DeviceSignals /\ Stopped("none").type = "stopped"
    /\ Stopped("none").effects = "none"
<1>1. ASSUME NEW s \in KnownOutcomes, NEW e \in Effects,
             s = "partial" => e = "partial", s = "succeeded" => e # "partial"
      PROVE  Outcome(s, e) \in DeviceSignals
  <2> DEFINE r == [status |-> s, effects |-> e]
  <2>1. r \in Results /\ r.status = s /\ r.effects = e
    BY <1>1 DEF Results
  <2> HIDE DEF r
  <2>2. QED
    BY <2>1 DEF DeviceSignals
<1>2. Uncertain \in DeviceSignals /\ Stopped("none") \in DeviceSignals
  BY DEF DeviceSignals
<1>3. \A s, e : Outcome(s, e).type = "outcome" /\ Outcome(s, e).effects = e
  BY DEF Outcome
<1>4. Uncertain.type = "uncertain" /\ Stopped("none").type = "stopped" /\ Stopped("none").effects = "none"
  BY DEF Uncertain, Plain, Stopped
<1> QED
  BY <1>1, <1>2, <1>3, <1>4 DEF KnownOutcomes, Effects

\* sig may be said of o: it is doubt, or what it says is so.
Sayable(o, sig) ==
    /\ sig \in DeviceSignals /\ sig.type \in FactTypes
    /\ sig.type \in Decisive => TrueOf(o, sig.effects, Happened(o))

\* Doubt may always be said; a failure and a stop without effects, of what had none
\* or ran in a copy.
LEMMA SayableSignals ==
    ASSUME NEW o \in Ops
    PROVE  /\ Sayable(o, Uncertain)
           /\ Happened(o) = {} \/ Capability[o] \in Isolated =>
                /\ Sayable(o, Outcome("failed", "none")) /\ Sayable(o, Stopped("none"))
                /\ Capability[o] \in Isolated => Sayable(o, Outcome("succeeded", "none"))
           /\ Happened(o) = UnitsOf(o) /\ Capability[o] \notin Isolated =>
                Sayable(o, Outcome("succeeded", "applied"))
           /\ Happened(o) \notin {{}, UnitsOf(o)} /\ Capability[o] \notin Isolated =>
                Sayable(o, Outcome("partial", "partial"))
<1>1. Sayable(o, Uncertain)
  BY Signals DEF Sayable, FactTypes, Decisive
<1>2. ASSUME NEW sig \in DeviceSignals, sig.type \in Decisive, TrueOf(o, sig.effects, Happened(o))
      PROVE  Sayable(o, sig)
  BY <1>2 DEF Sayable, FactTypes
<1>3. Happened(o) = {} \/ Capability[o] \in Isolated => TrueOf(o, "none", Happened(o))
  BY DEF TrueOf, Effects
<1>4. Happened(o) = UnitsOf(o) /\ Capability[o] \notin Isolated => TrueOf(o, "applied", Happened(o))
  BY DEF TrueOf, Effects
<1>5. Happened(o) \notin {{}, UnitsOf(o)} /\ Capability[o] \notin Isolated =>
        TrueOf(o, "partial", Happened(o))
  BY DEF TrueOf, Effects
<1>6. "outcome" \in Decisive /\ "stopped" \in Decisive
  BY DEF Decisive
<1> QED
  BY <1>1, <1>2, <1>3, <1>4, <1>5, <1>6, Signals

\* A conclusion: the entry is closed, and its receipt joins the outbox.
LEMMA ConclusionKeeps ==
    ASSUME BridgeInv, UNCHANGED <<ledgerVars, files, done, faults>>,
           NEW o \in Ops, NEW k \in {1, 2}, NEW sig, NEW proof \in BOOLEAN, Sayable(o, sig),
           \/ k = 1 /\ Active(o)
           \/ k = 2 /\ entry[o] = "unknown" /\ sig.type \in Decisive /\ \A p \in Ops : ~Active(p),
           entry' = [entry EXCEPT ![o] = IF sig.type = "uncertain" THEN "unknown" ELSE "completed"],
           outbox' = Append(outbox, Fact(o, k, sig, proof)),
           \/ client.pc \notin Waits /\ UNCHANGED linkVars
           \/ \E kind : Read(kind)
           \/ Abandon,
           ClientTyped(client'), client'.pc \notin Executing \cup {"journaled", "got"}
    PROVE  BridgeInv'
<1> DEFINE f == Fact(o, k, sig, proof)
<1>1. f \in Facts
  BY DEF Facts, Sayable
<1>2. LinkOK' /\ reply' \in Answers \cup {None} /\ CopiesOf(outbox, late', wire') \subseteq Copies
  BY LinkQuiets
<1>3. outbox' \in Seq(Facts) /\ Copies' \subseteq Copies \cup {f}
  <2>1. PICK lt, w : lt = late' /\ w = wire'
    OBVIOUS
  <2>2. outbox \in Seq(Facts)
    BY DEF BridgeInv, DeviceTyped
  <2> HIDE DEF f
  <2>3. Append(outbox, f) \in Seq(Facts) /\ CopiesOf(Append(outbox, f), lt, w) = CopiesOf(outbox, lt, w) \cup {f}
    BY <1>1, <2>2, CopiesMove
  <2>4. outbox' = Append(outbox, f)
    BY DEF f
  <2>5. Copies' = CopiesOf(Append(outbox, f), lt, w)
    BY <2>1, <2>4 DEF Copies, CopiesOf
  <2>6. QED
    BY <1>2, <2>1, <2>3, <2>4, <2>5
<1>4. LedgerInv' /\ FactsOK' /\ VerdictOK'
  <2>1. Active(o) => entry[o] \notin Concluded
    BY DEF Active, Concluded
  <2>2. QED
    BY <1>1, <1>3, <2>1, ConcludingKeepsFacts DEF Sayable
<1>5. /\ entry'[o] \in Concluded /\ \A p \in Ops \ {o} : entry'[p] = entry[p]
      /\ entry' \in [Ops -> EntryStates]
  BY DEF BridgeInv, DeviceTyped, Concluded, EntryStates
<1>6. \A p \in Ops : ~Active(p)'
  <2>1. \A p \in Ops \ {o} : ~Active(p)
    BY DEF BridgeInv, ClientOK
  <2>2. QED
    BY <1>5, <2>1 DEF Active, Concluded
<1>7. ClientOK' /\ EffectsOK'
  BY <1>5, <1>6, AwayKeeps
<1>8. DeviceTyped'
  BY <1>2, <1>3, <1>5 DEF BridgeInv, DeviceTyped, ClientTyped
<1> QED
  BY <1>2, <1>4, <1>7, <1>8 DEF BridgeInv

\* The client concludes the operation in its hands.
LEMMA ConcludeWithKeeps ==
    ASSUME BridgeInv, UNCHANGED <<ledgerVars, files, done, faults>>, Op \in Ops,
           NEW sig, NEW proof \in BOOLEAN, Sayable(Op, sig), ConcludeWith(sig, proof),
           \/ client.pc \notin Waits /\ UNCHANGED linkVars
           \/ \E kind : Read(kind)
           \/ Abandon
    PROVE  BridgeInv'
<1>1. PICK o \in Ops : o = Op
  OBVIOUS
<1>2. /\ Active(o)
      /\ entry' = [entry EXCEPT ![o] = IF sig.type = "uncertain" THEN "unknown" ELSE "completed"]
      /\ outbox' = Append(outbox, Fact(o, 1, sig, proof))
      /\ client' = [client EXCEPT !.pc = "report"]
  BY <1>1 DEF ConcludeWith, Conclude, Goto
<1>3. ClientTyped(client') /\ client'.pc = "report"
  BY <1>2, ClientMoves DEF PCs
<1>4. client'.pc \notin Executing \cup {"journaled", "got"}
  BY <1>3 DEF Executing
<1> QED
  BY <1>1, <1>2, <1>3, <1>4, ConclusionKeeps

\* What a client with an operation in its hands knows of it.
LEMMA InHand ==
    ASSUME BridgeInv, client.pc \in Executing \cup {"journaled"}
    PROVE  /\ Op \in Ops /\ EffectsOf(Op) /\ Active(Op) /\ Capability[Op] \in Capabilities
           /\ 1 \in Files
<1>1. Op \in Ops
  BY DEF BridgeInv, ClientOK, Handling
<1>2. Active(Op)
  BY DEF BridgeInv, ClientOK, At, Active
<1>3. 1 \in Files
  BY JournalAssumption DEF Files
<1> QED
  BY <1>1, <1>2, <1>3, CapabilityAssumption DEF BridgeInv, EffectsOK

\* Before the client acts, nothing has happened.
LEMMA NothingYet ==
    ASSUME BridgeInv, client.pc \in {"journaled", "starting", "permitted"}
    PROVE  Op \in Ops /\ Happened(Op) = {} /\ Sayable(Op, PausedSignal)
<1>1. client.pc \in Executing \cup {"journaled"}
  BY DEF Executing
<1>2. Op \in Ops /\ EffectsOf(Op)
  BY <1>1, InHand
<1>3. At("journaled") => entry[Op] = "received"
  BY DEF BridgeInv, ClientOK
<1>4. Happened(Op) = {}
  BY <1>2, <1>3 DEF EffectsOf, Happened, At
<1> QED
  BY <1>2, <1>4, SayableSignals DEF PausedSignal

\* Conclusions without an execution: declined, denied, paused or given up.
LEMMA UnexecutedKeeps ==
    ASSUME BridgeInv,
           \/ DeclineDispatch \/ StartDenied \/ NotExecuted
           \/ StartAnswered /\ ~(Goto("permitted") /\ UNCHANGED journalVars)
    PROVE  BridgeInv'
<1>1. client.pc \in {"journaled", "starting", "permitted"}
  BY DEF DeclineDispatch, StartDenied, NotExecuted, StartAnswered, At
<1>2. Op \in Ops /\ Happened(Op) = {} /\ Sayable(Op, PausedSignal)
  BY <1>1, NothingYet
<1>3. /\ Sayable(Op, Uncertain) /\ Sayable(Op, Outcome("failed", "none"))
      /\ Sayable(Op, Stopped("none"))
  BY <1>2, SayableSignals
<1>4. UNCHANGED <<ledgerVars, files, done, faults>>
  BY DEF DeclineDispatch, StartDenied, NotExecuted, StartAnswered, journalVars
<1>5. \/ client.pc \notin Waits /\ UNCHANGED linkVars
      \/ \E kind : Read(kind)
      \/ Abandon
  BY DEF DeclineDispatch, StartDenied, NotExecuted, StartAnswered, At, Waits
<1>6. FALSE \in BOOLEAN /\ (Capability[Op] \in Isolated) \in BOOLEAN
  OBVIOUS
<1>7. CASE DeclineDispatch
  <2>1. \/ ConcludeWith(PausedSignal, FALSE)
        \/ ConcludeWith(Uncertain, FALSE)
        \/ ConcludeWith(Outcome("failed", "none"), FALSE)
    BY <1>7 DEF DeclineDispatch
  <2>2. QED
    BY <1>2, <1>3, <1>4, <1>5, <1>6, <2>1, ConcludeWithKeeps
<1>8. CASE StartDenied
  <2>1. ConcludeWith(Uncertain, FALSE)
    BY <1>8 DEF StartDenied
  <2>2. QED
    BY <1>2, <1>3, <1>4, <1>5, <1>6, <2>1, ConcludeWithKeeps
<1>9. CASE NotExecuted
  <2>1. PICK sig \in UntouchedSignals(Capability[Op]) : ConcludeWith(sig, Capability[Op] \in Isolated)
    BY <1>9 DEF NotExecuted
  <2>2. Sayable(Op, sig)
    BY <1>3, <2>1 DEF UntouchedSignals
  <2>3. QED
    BY <1>2, <1>4, <1>5, <1>6, <2>1, <2>2, ConcludeWithKeeps
<1>10. CASE StartAnswered /\ ~(Goto("permitted") /\ UNCHANGED journalVars)
  <2>1. ConcludeWith(PausedSignal, FALSE) \/ ConcludeWith(Uncertain, FALSE)
    BY <1>10 DEF StartAnswered
  <2>2. QED
    BY <1>2, <1>3, <1>4, <1>5, <1>6, <2>1, ConcludeWithKeeps
<1> QED
  BY <1>7, <1>8, <1>9, <1>10

\* The result of an execution.
LEMMA JournalResultKeeps ==
    ASSUME BridgeInv, JournalResult
    PROVE  BridgeInv'
<1>1. client.pc = "acted" /\ UNCHANGED <<ledgerVars, files, linkVars, done, faults>>
  BY DEF JournalResult, At
<1>2. Op \in Ops /\ EffectsOf(Op) /\ 1 \in Files
  BY <1>1, InHand DEF Executing
<1>3. Capability[Op] # "changeset"
  BY <1>1 DEF BridgeInv, ClientOK, At
<1>4. Happened(Op) = UnitsOf(Op)
  BY <1>1, <1>2, <1>3 DEF EffectsOf, Happened, UnitsOf, At
<1>5. PICK sig \in ExecutedSignals(Capability[Op]) : ConcludeWith(sig, Capability[Op] \in Isolated)
  BY DEF JournalResult
<1>6. Sayable(Op, sig)
  BY <1>2, <1>4, <1>5, SayableSignals DEF ExecutedSignals
<1>7. (Capability[Op] \in Isolated) \in BOOLEAN /\ client.pc \notin Waits
  BY <1>1 DEF Waits
<1> QED
  BY <1>1, <1>2, <1>5, <1>6, <1>7, ConcludeWithKeeps

\* A changeset none of whose files is in doubt: the files applied are those written,
\* and its outcome says so.
LEMMA ChangesetTruth ==
    ASSUME NEW o \in Ops, Capability[o] = "changeset", EffectsOf(o),
           files[o] \in [Files -> FileStates],
           \A i \in Files : files[o][i] \notin {"prepared", "unknown"}
    PROVE  /\ Happened(o) = Applied(files[o])
           /\ Sayable(o, ChangesetOutcome(files[o]))
<1>1. \A i \in Files : done[o][i] > 0 <=> files[o][i] = "applied"
  BY DEF EffectsOf, FileStates
<1>2. Happened(o) = Applied(files[o])
  BY <1>1 DEF Happened, Applied
<1>3. UnitsOf(o) = Files /\ Files # {} /\ Capability[o] \notin Isolated
  BY JournalAssumption DEF UnitsOf, Isolated, Files
<1>4. ChangesetOutcome(files[o]) =
        IF Applied(files[o]) = Files THEN Outcome("succeeded", "applied")
        ELSE IF Applied(files[o]) = {} THEN Outcome("failed", "none")
        ELSE Outcome("partial", "partial")
  BY <1>3 DEF ChangesetOutcome
<1> QED
  BY <1>2, <1>3, <1>4, SayableSignals

\* A changeset that is recorded has no file in preparation.
LEMMA RecordChangesetKeeps ==
    ASSUME BridgeInv, RecordChangeset
    PROVE  BridgeInv'
<1>1. client.pc = "record" /\ UNCHANGED <<ledgerVars, files, linkVars, done, faults>>
      /\ ConcludeWith(ChangesetSignal(files[Op]), FALSE)
  BY DEF RecordChangeset, At
<1>2. Op \in Ops /\ EffectsOf(Op)
  BY <1>1, InHand DEF Executing
<1>3. Capability[Op] = "changeset" /\ files[Op] \in [Files -> FileStates]
  BY <1>1, <1>2 DEF BridgeInv, ClientOK, DeviceTyped
<1>4. \A i \in Files : files[Op][i] # "prepared"
  BY <1>1, <1>2 DEF EffectsOf
<1>5. Sayable(Op, ChangesetSignal(files[Op]))
  <2>1. CASE \E i \in Files : files[Op][i] = "unknown"
    BY <1>2, <2>1, SayableSignals DEF ChangesetSignal
  <2>2. CASE ~ \E i \in Files : files[Op][i] = "unknown"
    <3>1. /\ Happened(Op) = Applied(files[Op])
          /\ Sayable(Op, ChangesetOutcome(files[Op]))
      BY <1>2, <1>3, <1>4, <2>2, ChangesetTruth
    <3>2. QED
      BY <1>2, <2>2, <3>1, SayableSignals DEF ChangesetSignal
  <2>3. QED
    BY <2>1, <2>2
<1>6. client.pc \notin Waits
  BY <1>1 DEF Waits
<1> QED
  BY <1>1, <1>2, <1>5, <1>6, ConcludeWithKeeps

\* A restart closes the entry the last process left active, and tells of it only
\* what the checkpoints prove.
LEMMA RestartKeeps ==
    ASSUME BridgeInv, Restart
    PROVE  BridgeInv'
<1>1. client.pc = "down" /\ Open /\ client' = Idle /\ UNCHANGED <<ledgerVars, linkVars, done, faults>>
  BY DEF Restart, At
<1>2. client.pc \notin Waits /\ client.pc \notin Executing
  BY <1>1 DEF Waits, Executing
<1>3. ClientTyped(client') /\ client'.pc = "idle"
  BY <1>1, ClientMoves
<1>4. client'.pc \notin Executing \cup {"journaled", "got", "down"}
  BY <1>3 DEF Executing
<1>5. CASE (\A o \in Ops : ~Active(o)) /\ UNCHANGED <<entry, files, outbox>>
  <2>1. /\ LinkOK' /\ reply' \in Answers \cup {None}
        /\ outbox' \in Seq(Facts) /\ Copies' \subseteq Copies
    BY <1>1, <1>2, <1>5, QuietOutbox
  <2>2. faults' \in [crashes : 0..MaxCrashes, pauses : 0..MaxPauses]
    BY <1>1 DEF BridgeInv, DeviceTyped
  <2>3. QED
    BY <1>1, <1>3, <1>4, <1>5, <2>1, <2>2, AwayStep
<1>6. ASSUME NEW o \in Ops, Conclude(o, RestartSignal(o), FALSE), UNCHANGED files
      PROVE  BridgeInv'
  <2>1. Active(o) /\ EffectsOf(o) /\ files[o] \in [Files -> FileStates]
    BY <1>6 DEF Conclude, BridgeInv, EffectsOK, DeviceTyped
  <2>2. Sayable(o, RestartSignal(o))
    <3>1. CASE entry[o] = "received"
      <4>1. Happened(o) = {}
        BY <2>1, <3>1 DEF EffectsOf, Happened
      <4>2. QED
        BY <3>1, <4>1, SayableSignals DEF RestartSignal
    <3>2. CASE entry[o] # "received" /\ Capability[o] # "changeset"
      BY <3>2, SayableSignals DEF RestartSignal
    <3>3. CASE /\ entry[o] # "received" /\ Capability[o] = "changeset"
               /\ \E i \in Files : AfterRestart(files[o])[i] = "unknown"
      BY <3>3, SayableSignals DEF RestartSignal
    <3>4. CASE /\ entry[o] # "received" /\ Capability[o] = "changeset"
               /\ ~ \E i \in Files : AfterRestart(files[o])[i] = "unknown"
      <4>1. \A i \in Files : files[o][i] \notin {"prepared", "unknown"}
        BY <3>4 DEF AfterRestart
      <4>2. AfterRestart(files[o]) = files[o]
        BY <2>1, <4>1 DEF AfterRestart
      <4>3. Sayable(o, ChangesetOutcome(files[o]))
        BY <2>1, <3>4, <4>1, ChangesetTruth
      <4>4. QED
        BY <3>4, <4>2, <4>3 DEF RestartSignal
    <3>5. QED
      BY <3>1, <3>2, <3>3, <3>4
  <2>3. PICK sig : sig = RestartSignal(o)
    OBVIOUS
  <2>4. /\ entry' = [entry EXCEPT ![o] = IF sig.type = "uncertain" THEN "unknown" ELSE "completed"]
        /\ outbox' = Append(outbox, Fact(o, 1, sig, FALSE))
    BY <1>6, <2>3 DEF Conclude
  <2>5. QED
    BY <1>1, <1>2, <1>3, <1>4, <1>6, <2>1, <2>2, <2>3, <2>4, ConclusionKeeps
<1> QED
  BY <1>1, <1>5, <1>6 DEF Open

\* A result found later: what ran in a copy left the folder alone.
LEMMA ReconcileUnknownKeeps ==
    ASSUME BridgeInv, ReconcileUnknown
    PROVE  BridgeInv'
<1>1. /\ client.pc = "flush" /\ UNCHANGED <<ledgerVars, client, linkVars, done, faults>>
  BY DEF ReconcileUnknown, At
<1>2. PICK o \in Ops,
           sig \in {Outcome("succeeded", "none"), Outcome("failed", "none"), Stopped("none")} :
             Reconcile(o, sig)
  BY DEF ReconcileUnknown
<1>3. Capability[o] \in Isolated /\ entry[o] = "unknown" /\ UNCHANGED files
      /\ entry' = [entry EXCEPT ![o] = "completed"] /\ outbox' = Append(outbox, Fact(o, 2, sig, TRUE))
  BY <1>2 DEF Reconcile
<1>4. Sayable(o, sig)
  BY <1>2, <1>3, SayableSignals
<1>5. sig.type \in Decisive /\ sig.type # "uncertain"
  BY <1>2, Signals DEF Decisive
<1>6. \A p \in Ops : ~Active(p)
  BY <1>1, NothingInHand DEF Executing
<1>7. client.pc \notin Waits /\ ClientTyped(client') /\ client'.pc \notin Executing \cup {"journaled", "got"}
  BY <1>1, ClientMoves DEF Waits, Executing
<1>8. entry' = [entry EXCEPT ![o] = IF sig.type = "uncertain" THEN "unknown" ELSE "completed"]
  BY <1>3, <1>5
<1> QED
  BY <1>1, <1>3, <1>4, <1>5, <1>6, <1>7, <1>8, ConclusionKeeps

-----------------------------------------------------------------------------
(* Steps of the client: an operation in its hands.                         *)

\* An operation that is not in the client's hands, before and after, keeps its
\* effects and checkpoints.
LEMMA OthersKeepEffects ==
    ASSUME BridgeInv, NEW o \in Ops, Op' # o \/ client'.pc \notin Executing,
           entry'[o] = entry[o], files'[o] = files[o], done'[o] = done[o]
    PROVE  EffectsOf(o)'
<1>1. EffectsOf(o)
  BY DEF BridgeInv, EffectsOK
<1>2. {"starting", "permitted", "record", "prepared", "commit", "wrote", "acted"} \cup PerFile
        \subseteq Executing
  BY DEF Executing, PerFile
<1> QED
  BY <1>1, <1>2 DEF EffectsOf, At, Op, File

\* A dispatch is journalled before anything else, once.
LEMMA ReceiveDispatchKeeps ==
    ASSUME BridgeInv, ReceiveDispatch
    PROVE  BridgeInv'
<1>1. client.pc = "got" /\ UNCHANGED <<ledgerVars, linkVars, done, faults>>
  BY DEF ReceiveDispatch, At
<1>2. Op \in Ops /\ client.pc \notin Waits /\ client.pc \notin Executing \cup {"journaled", "down"}
  BY <1>1 DEF BridgeInv, ClientOK, Handling, Waits, Executing
<1>3. \A o \in Ops : ~Active(o)
  BY <1>2, NothingInHand
<1>4. CASE client' \in {[client EXCEPT !.pc = pc] : pc \in {"report", "idle"}} /\ UNCHANGED journalVars
  <2>1. UNCHANGED <<entry, files, outbox>>
    BY <1>4 DEF journalVars
  <2>2. ClientTyped(client') /\ client'.pc \in {"report", "idle"}
    BY <1>4, ClientMoves DEF PCs
  <2>3. /\ LinkOK' /\ reply' \in Answers \cup {None}
        /\ outbox' \in Seq(Facts) /\ Copies' \subseteq Copies
    BY <1>1, <1>2, <2>1, QuietOutbox
  <2>4. faults' \in [crashes : 0..MaxCrashes, pauses : 0..MaxPauses]
    BY <1>1 DEF BridgeInv, DeviceTyped
  <2>5. QED
    BY <1>1, <1>3, <2>1, <2>2, <2>3, <2>4, AwayStep DEF Executing
<1>5. CASE Receive(Op) /\ Goto("journaled")
  <2>1. /\ entry[Op] = "absent" /\ entry' = [entry EXCEPT ![Op] = "received"]
        /\ UNCHANGED <<files, outbox>> /\ client' = [client EXCEPT !.pc = "journaled"]
    BY <1>5 DEF Receive, Receivable, Goto
  <2>2. ClientTyped(client') /\ client'.pc = "journaled" /\ Op' = Op
    BY <2>1, ClientMoves DEF PCs, Op
  <2>3. /\ LinkOK' /\ reply' \in Answers \cup {None}
        /\ outbox' \in Seq(Facts) /\ Copies' \subseteq Copies
    BY <1>1, <1>2, <2>1, QuietOutbox
  <2>4. entry' \in [Ops -> EntryStates] /\ entry'[Op] = "received"
        /\ \A o \in Ops \ {Op} : entry'[o] = entry[o]
    BY <1>2, <2>1 DEF BridgeInv, DeviceTyped, EntryStates
  <2>5. LedgerInv' /\ FactsOK' /\ VerdictOK'
    <3>1. \A o \in Ops : entry[o] \in Concluded => entry'[o] = entry[o]
      BY <2>1, <2>4 DEF Concluded
    <3>2. QED
      BY <1>1, <2>3, <3>1, QuietKeepsFacts
  <2>6. DeviceTyped'
    BY <1>1, <2>1, <2>2, <2>3, <2>4 DEF BridgeInv, DeviceTyped, ClientTyped
  <2>7. ClientOK'
    <3>1. \A o \in Ops : Active(o)' => o = Op
      BY <1>3, <2>4 DEF Active
    <3>2. client'.pc \notin Executing
      BY <2>2 DEF Executing
    <3>3. QED
      BY <1>2, <2>2, <2>4, <3>1, <3>2
         DEF ClientOK, At, Op, Permitted, PerFile, Executing
  <2>8. EffectsOK'
    <3>1. ASSUME NEW o \in Ops PROVE EffectsOf(o)'
      <4>1. CASE o # Op
        BY <1>1, <2>1, <2>2, <2>4, <4>1, OthersKeepEffects
      <4>2. CASE o = Op
        <5>1. EffectsOf(o)
          BY DEF BridgeInv, EffectsOK
        <5>2. QED
          BY <1>1, <2>1, <2>2, <2>4, <4>2, <5>1 DEF EffectsOf, At, Op, File, PerFile
      <4>3. QED
        BY <4>1, <4>2
    <3>2. QED
      BY <3>1 DEF EffectsOK
  <2>9. QED
    BY <2>3, <2>5, <2>6, <2>7, <2>8 DEF BridgeInv
<1> QED
  BY <1>4, <1>5 DEF ReceiveDispatch, Goto

\* The entry is executing before the start is asked for.
LEMMA BeginOperationKeeps ==
    ASSUME BridgeInv, BeginOperation
    PROVE  BridgeInv'
<1>1. /\ client.pc = "journaled" /\ UNCHANGED <<ledgerVars, files, outbox, done, faults>>
      /\ entry[Op] = "received" /\ entry' = [entry EXCEPT ![Op] = "executing"]
      /\ client' = [client EXCEPT !.pc = "starting"] /\ Send(Request("start", Op, None))
  BY DEF BeginOperation, Begin, At, Goto
<1>2. Op \in Ops /\ EffectsOf(Op)
  BY <1>1, InHand
<1>3. ClientTyped(client') /\ client'.pc = "starting" /\ client'.op = Op /\ Op' = Op
  BY <1>1, ClientMoves DEF PCs, Op, Waits
<1>4. PICK o \in Ops : o = Op
  BY <1>2
<1> DEFINE req == Request("start", o, None)
<1>5. req.kind = "start" /\ req.op = o /\ RequestOK(req)
  BY DEF Request, RequestOK
<1>6. Send(req)
  BY <1>1, <1>4
<1> HIDE DEF req
<1> PICK r : r = req
  OBVIOUS
<1>7. LinkOK' /\ reply' \in Answers \cup {None} /\ wire' = r /\ late' = late
  <2>1. client.pc \notin Waits
    BY <1>1 DEF Waits
  <2>2. QED
    BY <1>1, <1>3, <1>4, <1>5, <1>6, <2>1, LinkSends
<1>8. Copies' \subseteq Copies
  <2>1. Copies' = CopiesOf(outbox, late, r)
    BY <1>1, <1>7 DEF Copies, CopiesOf
  <2>2. outbox \in Seq(Facts)
    BY DEF BridgeInv, DeviceTyped
  <2>3. QED
    BY <1>5, <2>1, <2>2, CopiesMove DEF Copies
<1>9. entry' \in [Ops -> EntryStates] /\ entry'[Op] = "executing"
      /\ \A p \in Ops \ {Op} : entry'[p] = entry[p]
  BY <1>1, <1>2 DEF BridgeInv, DeviceTyped, EntryStates
<1>10. LedgerInv' /\ FactsOK' /\ VerdictOK'
  <2>1. \A p \in Ops : entry[p] \in Concluded => entry'[p] = entry[p]
    BY <1>1, <1>9 DEF Concluded
  <2>2. QED
    BY <1>1, <1>8, <2>1, QuietKeepsFacts
<1>11. DeviceTyped'
  BY <1>1, <1>3, <1>7, <1>9 DEF BridgeInv, DeviceTyped, ClientTyped
<1>12. ClientOK'
  <2>1. \A p \in Ops : Active(p)' => p = Op
    <3>1. \A p \in Ops \ {Op} : ~Active(p)
      BY <1>1, <1>2 DEF BridgeInv, ClientOK, At
    <3>2. QED
      BY <1>9, <3>1 DEF Active
  <2>2. client'.pc \notin Permitted \cup PerFile \cup {"record"} /\ client'.pc \in Executing
    BY <1>3 DEF Executing, Permitted, PerFile
  <2>3. QED
    BY <1>2, <1>3, <1>9, <2>1, <2>2 DEF ClientOK, At, Op
<1>13. EffectsOK'
  <2>1. ASSUME NEW p \in Ops PROVE EffectsOf(p)'
    <3>1. CASE p # Op
      BY <1>1, <1>3, <1>9, <3>1, OthersKeepEffects
    <3>2. CASE p = Op
      BY <1>1, <1>2, <1>3, <1>9, <3>2 DEF EffectsOf, At, Op, File, PerFile
    <3>3. QED
      BY <3>1, <3>2
  <2>2. QED
    BY <2>1 DEF EffectsOK
<1> QED
  BY <1>7, <1>10, <1>11, <1>12, <1>13 DEF BridgeInv

\* A step of a permitted client with its operation: what it says of its place and
\* of the effects of its own operation is all there is to check.
LEMMA WorkKeeps ==
    ASSUME BridgeInv, UNCHANGED <<ledgerVars, entry, outbox, faults>>,
           client.pc \in Executing, Known(StartId(Op)),
           \/ client.pc \notin Waits /\ UNCHANGED linkVars
           \/ \E kind : Read(kind),
           ClientTyped(client'), Op' = Op, client'.pc \in Permitted,
           At("acted")' => Capability[Op] # "changeset",
           client'.pc \in PerFile \cup {"record"} => Capability[Op] = "changeset",
           client'.pc \in PerFile => File' \in Files,
           files' \in [Ops -> [Files -> FileStates]], done' \in [Ops -> [Files -> Nat]],
           \A o \in Ops \ {Op} : files'[o] = files[o] /\ done'[o] = done[o],
           EffectsOf(Op)'
    PROVE  BridgeInv'
<1>1. Op \in Ops /\ entry[Op] = "executing" /\ Active(Op)
  BY InHand DEF BridgeInv, ClientOK
<1>2. LedgerInv' /\ UNCHANGED <<op, root, receipts, budget>>
  BY LedgerStands
<1>3. /\ LinkOK' /\ reply' \in Answers \cup {None}
      /\ outbox' \in Seq(Facts) /\ Copies' \subseteq Copies
  BY QuietOutbox
<1>4. LedgerInv' /\ FactsOK' /\ VerdictOK'
  <2>1. \A o \in Ops : done'[o] = done[o] \/ (Known(StartId(o)) /\ entry[o] \notin Concluded)
    BY <1>1 DEF Concluded
  <2>2. QED
    BY <1>3, <2>1, QuietKeepsFacts
<1>5. DeviceTyped'
  BY <1>3 DEF BridgeInv, DeviceTyped, ClientTyped
<1>6. ClientOK'
  <2>1. \A o \in Ops : Active(o)' => o = Op
    BY <1>1 DEF BridgeInv, ClientOK, Active
  <2>2. Known(StartId(Op))'
    BY <1>2 DEF Known
  <2>3. client'.pc # "journaled" /\ client'.pc \in Executing
    BY DEF Permitted, Executing
  <2>4. QED
    BY <1>1, <2>1, <2>2, <2>3 DEF ClientOK, At, File, Op, Active
<1>7. EffectsOK'
  <2>1. ASSUME NEW o \in Ops, o # Op PROVE EffectsOf(o)'
    BY <2>1, OthersKeepEffects
  <2>2. EffectsOf(Op)' /\ Op' = Op
    OBVIOUS
  <2>3. \A o \in Ops : EffectsOf(o)'
    <3> TAKE o \in Ops
    <3>1. CASE o = Op
      BY <2>2, <3>1 DEF EffectsOf
    <3>2. QED
      BY <2>1, <3>1
  <2>4. QED
    BY <2>3 DEF EffectsOK
<1> QED
  BY <1>3, <1>4, <1>5, <1>6, <1>7 DEF BridgeInv

\* A checkpoint touches one file of the operation.
LEMMA CheckpointMoves ==
    ASSUME BridgeInv, Op \in Ops, NEW i \in Files, NEW state \in FileStates, Checkpoint(Op, i, state)
    PROVE  /\ files[Op][i] \in {"pending", "prepared"}
           /\ files' \in [Ops -> [Files -> FileStates]]
           /\ files'[Op][i] = state
           /\ \A j \in Files \ {i} : files'[Op][j] = files[Op][j]
           /\ \A o \in Ops \ {Op} : files'[o] = files[o]
<1>1. files \in [Ops -> [Files -> FileStates]]
  BY DEF BridgeInv, DeviceTyped
<1>2. files' = [files EXCEPT ![Op] = [files[Op] EXCEPT ![i] = state]] /\ files[Op][i] \in {"pending", "prepared"}
  BY DEF Checkpoint
<1>3. PICK o \in Ops : o = Op
  OBVIOUS
<1> DEFINE g == [files[o] EXCEPT ![i] = state]
<1>4. g \in [Files -> FileStates] /\ g[i] = state /\ \A j \in Files \ {i} : g[j] = files[o][j]
  BY <1>1
<1> HIDE DEF g
<1>5. files' = [files EXCEPT ![o] = g]
  BY <1>2, <1>3 DEF g
<1>6. /\ files' \in [Ops -> [Files -> FileStates]] /\ files'[o] = g
      /\ \A p \in Ops \ {o} : files'[p] = files[p]
  BY <1>1, <1>4, <1>5
<1> QED
  BY <1>2, <1>3, <1>4, <1>6

\* The i-th effect of the operation happens.
LEMMA EffectMoves ==
    ASSUME BridgeInv, Op \in Ops, NEW i \in Files, done' = [done EXCEPT ![Op][i] = @ + 1]
    PROVE  /\ done' \in [Ops -> [Files -> Nat]]
           /\ done'[Op][i] = done[Op][i] + 1
           /\ \A j \in Files \ {i} : done'[Op][j] = done[Op][j]
           /\ \A o \in Ops \ {Op} : done'[o] = done[o]
<1>1. done \in [Ops -> [Files -> Nat]]
  BY DEF BridgeInv, DeviceTyped
<1>2. PICK o \in Ops : o = Op
  OBVIOUS
<1> DEFINE g == [done[o] EXCEPT ![i] = done[o][i] + 1]
<1>3. g \in [Files -> Nat] /\ g[i] = done[o][i] + 1 /\ \A j \in Files \ {i} : g[j] = done[o][j]
  BY <1>1
<1>4. done' = [done EXCEPT ![o] = g]
  BY <1>2
<1> HIDE DEF g
<1>5. /\ done' \in [Ops -> [Files -> Nat]] /\ done'[o] = g
      /\ \A p \in Ops \ {o} : done'[p] = done[p]
  BY <1>1, <1>3, <1>4
<1> QED
  BY <1>2, <1>3, <1>5

\* Only the place of the client changes.
LEMMA PlaceMoves ==
    ASSUME BridgeInv, NEW pc \in Permitted, Goto(pc)
    PROVE  /\ ClientTyped(client') /\ client'.pc = pc /\ Op' = Op /\ File' = File
           /\ At("acted")' <=> pc = "acted"
BY ClientMoves DEF Goto, Permitted, Executing, PCs, Waits, Op, File, At

\* The same effects and checkpoints at another place.
LEMMA TypesStand ==
    ASSUME BridgeInv
    PROVE  /\ UNCHANGED files => files' \in [Ops -> [Files -> FileStates]]
           /\ UNCHANGED done => done' \in [Ops -> [Files -> Nat]]
BY DEF BridgeInv, DeviceTyped

\* The permission is recorded, and heard of.
LEMMA StartGrantedKeeps ==
    ASSUME BridgeInv, StartAnswered, Goto("permitted"), UNCHANGED journalVars
    PROVE  BridgeInv'
<1>1. /\ client.pc = "starting" /\ Read("granted")
      /\ UNCHANGED <<ledgerVars, entry, files, outbox, done, faults>>
  BY DEF StartAnswered, At, journalVars
<1>2. Op \in Ops /\ EffectsOf(Op) /\ client.pc \in Executing
  BY <1>1, InHand DEF Executing
<1>3. Known(StartId(Op))
  BY <1>1 DEF Read, BridgeInv, LinkOK, At
<1>4. /\ ClientTyped(client') /\ client'.pc = "permitted" /\ Op' = Op /\ File' = File
  BY PlaceMoves DEF Permitted, Executing
<1>5. EffectsOf(Op)'
  BY <1>1, <1>2, <1>4 DEF EffectsOf, At, Op, File, PerFile
<1>6. client'.pc \in Permitted /\ client'.pc \notin PerFile \cup {"record"} /\ ~At("acted")'
  BY <1>4 DEF Permitted, Executing, PerFile, At
<1> QED
  BY <1>1, <1>2, <1>3, <1>4, <1>5, <1>6, TypesStand, WorkKeeps

\* What a permitted client knows.
LEMMA PermittedKnows ==
    ASSUME BridgeInv, client.pc \in Permitted
    PROVE  /\ Op \in Ops /\ EffectsOf(Op) /\ client.pc \in Executing /\ client.pc \notin Waits
           /\ Known(StartId(Op)) /\ 1 \in Files
<1>1. client.pc \in Executing \cup {"journaled"} /\ client.pc \notin Waits /\ client.pc \in Executing
  BY DEF Permitted, Executing, Waits
<1>2. Known(StartId(Op))
  BY DEF BridgeInv, ClientOK
<1> QED
  BY <1>1, <1>2, InHand

\* The effect of an operation that has one, after nothing had happened.
LEMMA ExecuteKeeps ==
    ASSUME BridgeInv, Execute
    PROVE  BridgeInv'
<1>1. /\ client.pc = "permitted" /\ Capability[Op] # "changeset" /\ Goto("acted")
      /\ done' = [done EXCEPT ![Op][1] = @ + 1]
      /\ UNCHANGED <<ledgerVars, entry, files, outbox, linkVars, faults>>
  BY DEF Execute, At, journalVars
<1>2. client.pc \in Permitted
  BY <1>1 DEF Permitted, Executing
<1>3. /\ Op \in Ops /\ EffectsOf(Op) /\ client.pc \in Executing /\ client.pc \notin Waits
      /\ Known(StartId(Op)) /\ 1 \in Files
  BY <1>2, PermittedKnows
<1>4. /\ done' \in [Ops -> [Files -> Nat]]
      /\ done'[Op][1] = done[Op][1] + 1
      /\ \A j \in Files \ {1} : done'[Op][j] = done[Op][j]
      /\ \A o \in Ops \ {Op} : done'[o] = done[o]
  BY <1>1, <1>3, EffectMoves
<1>5. /\ ClientTyped(client') /\ client'.pc = "acted" /\ Op' = Op /\ File' = File /\ At("acted")'
  BY <1>1, PlaceMoves DEF Permitted, Executing
<1>6. \A i \in Files : done[Op][i] = 0 /\ files[Op][i] = "pending"
  BY <1>1, <1>3 DEF EffectsOf
<1>7. entry[Op] = "executing"
  BY <1>3 DEF BridgeInv, ClientOK
<1>8. EffectsOf(Op)'
  <2>1. done'[Op][1] = 1 /\ \A i \in Files \ {1} : done'[Op][i] = 0
    BY <1>3, <1>4, <1>6
  <2>2. QED
    BY <1>1, <1>5, <1>7, <2>1 DEF EffectsOf, At, Op, File, PerFile
<1>9. client'.pc \in Permitted /\ client'.pc \notin PerFile \cup {"record"}
  BY <1>5 DEF Permitted, Executing, PerFile
<1> QED
  BY <1>1, <1>3, <1>4, <1>5, <1>8, <1>9, TypesStand, WorkKeeps

\* The verification of the baselines ends before any file is prepared.
LEMMA PreflightKeeps ==
    ASSUME BridgeInv, Preflight
    PROVE  BridgeInv'
<1>1. /\ client.pc = "permitted" /\ Capability[Op] = "changeset"
      /\ UNCHANGED <<ledgerVars, entry, outbox, linkVars, done, faults>>
  BY DEF Preflight, At
<1>2. client.pc \in Permitted
  BY <1>1 DEF Permitted, Executing
<1>3. /\ Op \in Ops /\ EffectsOf(Op) /\ client.pc \in Executing /\ client.pc \notin Waits
      /\ Known(StartId(Op)) /\ 1 \in Files
  BY <1>2, PermittedKnows
<1>4. \A i \in Files : done[Op][i] = 0 /\ files[Op][i] = "pending"
  BY <1>1, <1>3 DEF EffectsOf
<1>5. entry[Op] = "executing"
  BY <1>3 DEF BridgeInv, ClientOK
<1>6. CASE client' = [client EXCEPT !.pc = "file", !.file = 1] /\ UNCHANGED files
  <2>1. ClientTyped(client') /\ client'.pc = "file" /\ Op' = Op /\ File' = 1
    <3>1. ClientTyped(client)
      BY ClientMoves
    <3>2. 1 \in 0..NFiles /\ "file" \in PCs
      BY JournalAssumption DEF PCs
    <3>3. QED
      BY <1>6, <3>1, <3>2 DEF ClientTyped, Op, File
  <2>2. EffectsOf(Op)'
    BY <1>1, <1>4, <1>5, <1>6, <2>1 DEF EffectsOf, At, Op, File, PerFile
  <2>3. client'.pc \in Permitted /\ ~At("acted")'
    BY <2>1 DEF Permitted, Executing, At
  <2>4. QED
    BY <1>1, <1>3, <1>6, <2>1, <2>2, <2>3, TypesStand, WorkKeeps
<1>7. ASSUME NEW i \in Files, Checkpoint(Op, i, "conflict"), Goto("record")
      PROVE  BridgeInv'
  <2>1. /\ files' \in [Ops -> [Files -> FileStates]]
        /\ files'[Op][i] = "conflict"
        /\ \A j \in Files \ {i} : files'[Op][j] = files[Op][j]
        /\ \A o \in Ops \ {Op} : files'[o] = files[o]
    BY <1>3, <1>7, CheckpointMoves DEF FileStates
  <2>2. /\ ClientTyped(client') /\ client'.pc = "record" /\ Op' = Op /\ File' = File
    BY <1>7, PlaceMoves DEF Permitted, Executing
  <2>3. EffectsOf(Op)'
    BY <1>1, <1>4, <1>5, <2>1, <2>2 DEF EffectsOf, At, Op, File, PerFile
  <2>4. client'.pc \in Permitted /\ client'.pc \notin PerFile /\ ~At("acted")'
    BY <2>2 DEF Permitted, Executing, PerFile, At
  <2>5. QED
    BY <1>1, <1>3, <2>1, <2>2, <2>3, <2>4, TypesStand, WorkKeeps
<1> QED
  BY <1>6, <1>7 DEF Preflight

\* What the client knows while it is at a file.
LEMMA AtFile ==
    ASSUME BridgeInv, client.pc \in PerFile
    PROVE  /\ client.pc \in Permitted /\ Capability[Op] = "changeset" /\ File \in Files
           /\ entry[Op] = "executing"
           /\ Op \in Ops /\ EffectsOf(Op) /\ client.pc \in Executing /\ client.pc \notin Waits
           /\ Known(StartId(Op)) /\ 1 \in Files
           /\ \A i \in Files : files[Op][i] = "prepared" <=>
                                 (i = File /\ client.pc \in {"prepared", "commit", "wrote"})
           /\ \A i \in Files : files[Op][i] \in {"pending", "conflict", "canceled"} => done[Op][i] = 0
           /\ \A i \in Files : files[Op][i] = "applied" => done[Op][i] = 1
           /\ \A i \in Files : done[Op][i] \in {0, 1}
           /\ files \in [Ops -> [Files -> FileStates]]
<1>1. client.pc \in Permitted
  BY DEF PerFile, Permitted, Executing
<1>2. /\ Op \in Ops /\ EffectsOf(Op) /\ client.pc \in Executing /\ client.pc \notin Waits
      /\ Known(StartId(Op)) /\ 1 \in Files
  BY <1>1, PermittedKnows
<1>3. Capability[Op] = "changeset" /\ File \in Files /\ entry[Op] = "executing"
  BY <1>2 DEF BridgeInv, ClientOK
<1> QED
  BY <1>1, <1>2, <1>3 DEF EffectsOf, BridgeInv, DeviceTyped

\* A checkpoint of the current file, after which the client is at pc.
LEMMA CheckpointKeeps ==
    ASSUME BridgeInv, client.pc \in PerFile, NEW state \in FileStates, Checkpoint(Op, File, state),
           UNCHANGED <<ledgerVars, entry, outbox, linkVars, done, faults>>,
           ClientTyped(client'), Op' = Op,
           \/ client'.pc = "record" /\ state # "prepared"
           \/ client'.pc = "file" /\ state # "prepared" /\ File' \in Files
           \/ client'.pc = "prepared" /\ client.pc = "file" /\ state = "prepared" /\ File' = File,
           state \in {"pending", "conflict", "canceled"} => client.pc # "wrote",
           state = "applied" => client.pc = "wrote"
    PROVE  BridgeInv'
<1>1. /\ client.pc \in Permitted /\ Capability[Op] = "changeset" /\ File \in Files
      /\ entry[Op] = "executing"
      /\ Op \in Ops /\ EffectsOf(Op) /\ client.pc \in Executing /\ client.pc \notin Waits
      /\ Known(StartId(Op)) /\ 1 \in Files
      /\ \A i \in Files : files[Op][i] = "prepared" <=>
                            (i = File /\ client.pc \in {"prepared", "commit", "wrote"})
      /\ \A i \in Files : files[Op][i] \in {"pending", "conflict", "canceled"} => done[Op][i] = 0
      /\ \A i \in Files : files[Op][i] = "applied" => done[Op][i] = 1
      /\ \A i \in Files : done[Op][i] \in {0, 1}
  BY AtFile
<1>2. /\ files[Op][File] \in {"pending", "prepared"}
      /\ files' \in [Ops -> [Files -> FileStates]]
      /\ files'[Op][File] = state
      /\ \A j \in Files \ {File} : files'[Op][j] = files[Op][j]
      /\ \A o \in Ops \ {Op} : files'[o] = files[o]
  <2>1. PICK i \in Files : i = File
    BY <1>1
  <2>2. QED
    BY <1>1, <2>1, CheckpointMoves
<1>3. /\ client.pc # "wrote" => done[Op][File] = 0
      /\ client.pc = "wrote" => done[Op][File] = 1
  <2>1. client.pc \in {"prepared", "commit"} => done[Op][File] = 0
    BY <1>1 DEF EffectsOf
  <2>2. client.pc = "wrote" => done[Op][File] = 1
    BY <1>1 DEF EffectsOf, At
  <2>3. client.pc = "file" => done[Op][File] = 0
    BY <1>1, <1>2
  <2>4. QED
    BY <2>1, <2>2, <2>3 DEF PerFile
<1>4. EffectsOf(Op)'
  <2>1. \A i \in Files : done'[Op][i] \in {0, 1}
    BY <1>1
  <2>2. \A i \in Files : /\ files'[Op][i] \in {"pending", "conflict", "canceled"} => done'[Op][i] = 0
                         /\ files'[Op][i] = "applied" => done'[Op][i] = 1
    BY <1>1, <1>2, <1>3
  <2>3. \A i \in Files : files'[Op][i] = "prepared" <=>
                            (i = File' /\ client'.pc \in {"prepared", "commit", "wrote"})
    BY <1>1, <1>2 DEF PerFile
  <2>4. client'.pc \in {"prepared", "commit"} => done'[Op][File'] = 0
    BY <1>3
  <2>5. entry'[Op] = "executing" /\ client'.pc \notin {"starting", "permitted", "wrote", "acted"}
    BY <1>1
  <2>6. QED
    BY <1>1, <2>1, <2>2, <2>3, <2>4, <2>5 DEF EffectsOf, At, Op, File
<1>5. /\ client'.pc \in Permitted /\ ~At("acted")'
      /\ client'.pc \in PerFile => File' \in Files
  BY <1>1 DEF Permitted, Executing, PerFile, At
<1> QED
  BY <1>1, <1>2, <1>4, <1>5, TypesStand, WorkKeeps

\* Steps at a file that end in a checkpoint.
LEMMA FileStepKeeps ==
    ASSUME BridgeInv,
           \/ AuthorizeFile \/ FileWritten
           \/ BeforeCommit /\ ~(Goto("commit") /\ UNCHANGED files)
           \/ WriteTextFile /\ ~(Goto("wrote") /\ UNCHANGED files)
    PROVE  BridgeInv'
<1>1. /\ client.pc \in PerFile
      /\ UNCHANGED <<ledgerVars, entry, outbox, linkVars, done, faults>>
  BY DEF AuthorizeFile, FileWritten, BeforeCommit, WriteTextFile, At, PerFile
<1>2. ASSUME NEW state \in FileStates, Checkpoint(Op, File, state), Goto("record"), state # "prepared",
             state \in {"pending", "conflict", "canceled"} => client.pc # "wrote",
             state = "applied" => client.pc = "wrote"
      PROVE  BridgeInv'
  <2>1. ClientTyped(client') /\ client'.pc = "record" /\ Op' = Op
    BY <1>2, PlaceMoves DEF Permitted, Executing
  <2>2. QED
    BY <1>1, <1>2, <2>1, CheckpointKeeps
<1>3. CASE AuthorizeFile
  <2>1. client.pc = "file"
    BY <1>3 DEF AuthorizeFile, At
  <2>2. CASE Checkpoint(Op, File, "canceled") /\ Goto("record")
    BY <1>2, <2>1, <2>2 DEF FileStates
  <2>3. CASE Checkpoint(Op, File, "prepared") /\ Goto("prepared")
    <3>1. ClientTyped(client') /\ client'.pc = "prepared" /\ Op' = Op /\ File' = File
      BY <2>3, PlaceMoves DEF Permitted, Executing
    <3>2. QED
      BY <1>1, <2>1, <2>3, <3>1, CheckpointKeeps DEF FileStates
  <2>4. QED
    BY <1>3, <2>2, <2>3 DEF AuthorizeFile
<1>4. CASE BeforeCommit /\ ~(Goto("commit") /\ UNCHANGED files)
  <2>1. client.pc = "prepared"
    BY <1>4 DEF BeforeCommit, At
  <2>2. \E state \in {"conflict", "unknown"} : Checkpoint(Op, File, state) /\ Goto("record")
    BY <1>4 DEF BeforeCommit
  <2>3. QED
    BY <1>2, <2>1, <2>2 DEF FileStates
<1>5. CASE WriteTextFile /\ ~(Goto("wrote") /\ UNCHANGED files)
  <2>1. Checkpoint(Op, File, "unknown") /\ Goto("record")
    BY <1>5 DEF WriteTextFile
  <2>2. QED
    BY <1>2, <2>1 DEF FileStates
<1>6. CASE FileWritten
  <2>1. client.pc = "wrote" /\ File \in Files
    BY <1>1, <1>6, AtFile DEF FileWritten, At
  <2>2. CASE Checkpoint(Op, File, "unknown") /\ Goto("record")
    BY <1>2, <2>2 DEF FileStates
  <2>3. CASE /\ Checkpoint(Op, File, "applied")
             /\ client' = IF File = NFiles THEN [client EXCEPT !.pc = "record"]
                          ELSE [client EXCEPT !.pc = "file", !.file = @ + 1]
    <3>1. CASE File = NFiles
      BY <1>2, <2>1, <2>3, <3>1 DEF FileStates, Goto
    <3>2. CASE File # NFiles
      <4>1. File + 1 \in 0..NFiles /\ File + 1 \in Files
        BY <2>1, <3>2, JournalAssumption DEF Files
      <4>2. ClientTyped(client)
        BY ClientMoves
      <4>3. client' = [client EXCEPT !.pc = "file", !.file = client.file + 1]
        BY <2>3, <3>2
      <4>4. ClientTyped(client') /\ client'.pc = "file" /\ Op' = Op /\ File' = File + 1
        BY <4>1, <4>2, <4>3 DEF ClientTyped, PCs, Op, File
      <4>5. QED
        BY <1>1, <2>1, <2>3, <4>1, <4>4, CheckpointKeeps DEF FileStates
    <3>3. QED
      BY <3>1, <3>2
  <2>4. QED
    BY <1>6, <2>2, <2>3 DEF FileWritten
<1> QED
  BY <1>3, <1>4, <1>5, <1>6

\* The rename is authorized, and then done: the file stays prepared.
LEMMA RenameKeeps ==
    ASSUME BridgeInv,
           \/ BeforeCommit /\ Goto("commit") /\ UNCHANGED files
           \/ WriteTextFile /\ Goto("wrote") /\ UNCHANGED files
    PROVE  BridgeInv'
<1>1. /\ client.pc \in {"prepared", "commit"}
      /\ UNCHANGED <<ledgerVars, entry, files, outbox, linkVars, faults>>
  BY DEF BeforeCommit, WriteTextFile, At
<1>2. /\ client.pc \in Permitted /\ Capability[Op] = "changeset" /\ File \in Files
      /\ entry[Op] = "executing"
      /\ Op \in Ops /\ EffectsOf(Op) /\ client.pc \in Executing /\ client.pc \notin Waits
      /\ Known(StartId(Op)) /\ 1 \in Files
      /\ \A i \in Files : files[Op][i] = "prepared" <=> i = File
      /\ \A i \in Files : files[Op][i] \in {"pending", "conflict", "canceled"} => done[Op][i] = 0
      /\ \A i \in Files : files[Op][i] = "applied" => done[Op][i] = 1
      /\ \A i \in Files : done[Op][i] \in {0, 1}
  BY <1>1, AtFile DEF PerFile
<1>3. done[Op][File] = 0
  BY <1>1, <1>2 DEF EffectsOf
<1>4. CASE BeforeCommit /\ Goto("commit")
  <2>1. client.pc = "prepared" /\ UNCHANGED done
    BY <1>4 DEF BeforeCommit, At
  <2>2. /\ ClientTyped(client') /\ client'.pc = "commit" /\ Op' = Op /\ File' = File
    BY <1>4, PlaceMoves DEF Permitted, Executing
  <2>3. EffectsOf(Op)'
    BY <1>1, <1>2, <1>3, <2>1, <2>2 DEF EffectsOf, At, Op, File
  <2>4. client'.pc \in Permitted /\ ~At("acted")'
    BY <2>2 DEF Permitted, Executing, At
  <2>5. QED
    BY <1>1, <1>2, <2>1, <2>2, <2>3, <2>4, TypesStand, WorkKeeps
<1>5. CASE WriteTextFile /\ Goto("wrote")
  <2>1. client.pc = "commit"
    BY <1>5 DEF WriteTextFile, At
  <2>2. /\ ClientTyped(client') /\ client'.pc = "wrote" /\ Op' = Op /\ File' = File
    BY <1>5, PlaceMoves DEF Permitted, Executing
  <2>3. done' = [done EXCEPT ![Op][File] = @ + 1]
    <3>1. ~Goto("record")
      BY <2>2, PlaceMoves DEF Permitted, Executing
    <3>2. QED
      BY <1>5, <3>1 DEF WriteTextFile
  <2>4. /\ done' \in [Ops -> [Files -> Nat]]
        /\ done'[Op][File] = done[Op][File] + 1
        /\ \A j \in Files \ {File} : done'[Op][j] = done[Op][j]
        /\ \A o \in Ops \ {Op} : done'[o] = done[o]
    <3>1. PICK i \in Files : i = File
      BY <1>2
    <3>2. QED
      BY <1>2, <2>3, <3>1, EffectMoves
  <2>5. EffectsOf(Op)'
    <3>1. done'[Op][File] = 1
      BY <1>3, <2>4
    <3>2. \A i \in Files : done'[Op][i] \in {0, 1}
      BY <1>2, <2>4, <3>1
    <3>3. \A i \in Files : /\ files'[Op][i] \in {"pending", "conflict", "canceled"} => done'[Op][i] = 0
                           /\ files'[Op][i] = "applied" => done'[Op][i] = 1
                           /\ files'[Op][i] = "prepared" <=> i = File
      BY <1>1, <1>2, <2>4
    <3>4. QED
      BY <1>1, <1>2, <2>2, <3>1, <3>2, <3>3 DEF EffectsOf, At, Op, File
  <2>6. client'.pc \in Permitted /\ ~At("acted")'
    BY <2>2 DEF Permitted, Executing, At
  <2>7. QED
    BY <1>1, <1>2, <2>2, <2>4, <2>5, <2>6, TypesStand, WorkKeeps
<1> QED
  BY <1>4, <1>5

-----------------------------------------------------------------------------
(* The invariant.                                                          *)

\* Nothing is asked for, journalled or done at first.
LEMMA BridgeStart == Init => BridgeInv
<1> SUFFICES ASSUME Init PROVE BridgeInv
  OBVIOUS
<1>1. /\ LedgerInit /\ JournalInit /\ client = Idle /\ wire = None /\ reply = None /\ late = {}
      /\ done = [o \in Ops |-> [i \in Files |-> 0]]
      /\ faults = [crashes |-> 0, pauses |-> 0]
  BY DEF Init
<1>2. LedgerInv
  BY <1>1, LedgerStart
<1>3. /\ entry = [o \in Ops |-> "absent"] /\ outbox = <<>>
      /\ files = [o \in Ops |-> [i \in Files |-> "pending"]]
  BY <1>1 DEF JournalInit
<1>4. client.pc = "idle" /\ ClientTyped(client)
  <2>1. 0 \in 0..NFiles
    BY JournalAssumption
  <2>2. QED
    BY <1>1, <2>1 DEF Idle, ClientTyped, PCs
<1>5. DeviceTyped
  <2>1. 0 \in 0..MaxCrashes /\ 0 \in 0..MaxPauses
    BY FaultAssumption
  <2>2. faults \in [crashes : 0..MaxCrashes, pauses : 0..MaxPauses]
    BY <1>1, <2>1
  <2>3. QED
    BY <1>1, <1>3, <1>4, <2>2 DEF DeviceTyped, ClientTyped, EntryStates, FileStates
<1>6. \A o \in Ops : ~Active(o)
  BY <1>3 DEF Active
<1>7. ClientOK
  BY <1>4, <1>6 DEF ClientOK, At, Handling, Executing, Permitted, PerFile
<1>8. LinkOK
  BY <1>1 DEF LinkOK
<1>9. Copies = {} /\ receipts = {}
  <2>1. {outbox[i] : i \in 1..Len(outbox)} = {}
    BY <1>3
  <2>2. {x \in late \cup ({wire} \ {None}) : x.kind = "receipt"} = {}
    BY <1>1
  <2>3. QED
    BY <1>1, <2>1, <2>2 DEF Copies, CopiesOf, LedgerInit
<1>10. FactsOK
  BY <1>9 DEF FactsOK, Said
<1>11. \A o \in Ops : Happened(o) = {} /\ StatusOf(o) \notin Terminal
  <2>1. \A o \in Ops : StatusOf(o) = "absent"
    BY <1>1 DEF LedgerInit, StatusOf, Absent, Planned
  <2>2. \A o \in Ops, i \in Files : done[o][i] = 0
    BY <1>1
  <2>3. \A o \in Ops : Happened(o) = {}
    <3> TAKE o \in Ops
    <3>1. \A i \in Files : ~(done[o][i] > 0)
      BY <2>2
    <3>2. QED
      BY <3>1 DEF Happened
  <2>4. QED
    BY <2>1, <2>3 DEF Terminal, KnownOutcomes
<1>12. VerdictOK
  BY <1>11 DEF VerdictOK
<1>13. EffectsOK
  BY <1>1, <1>3, <1>4 DEF EffectsOK, EffectsOf, At, PerFile
<1> QED
  BY <1>2, <1>5, <1>7, <1>8, <1>10, <1>12, <1>13 DEF BridgeInv

\* Every step of the server, the link, the client and the user keeps it.
LEMMA BridgeSteps == BridgeInv /\ [Next]_vars => BridgeInv'
<1> SUFFICES ASSUME BridgeInv, [Next]_vars PROVE BridgeInv'
  OBVIOUS
<1>1. CASE ServerNext
  BY <1>1, ServerNextKeeps
<1>2. CASE ServeCurrent \/ ServeUnheard
  BY <1>2, ServeCurrentKeeps, ServeUnheardKeeps
<1>3. CASE PollOnce \/ ReceiptRefused \/ FlushEnds \/ ClaimAnswered \/ RequestTimesOut \/ ShutDown
  BY <1>3, IdlingKeeps
<1>4. CASE SendReceipt \/ ReceiptAcknowledged \/ Claim \/ Pause \/ Crash
  BY <1>4, SendReceiptKeeps, ReceiptAcknowledgedKeeps, ClaimKeeps, PauseKeeps, CrashKeeps
<1>5. CASE ReconcileUnknown \/ Restart \/ JournalResult \/ RecordChangeset
  BY <1>5, ReconcileUnknownKeeps, RestartKeeps, JournalResultKeeps, RecordChangesetKeeps
<1>6. CASE DeclineDispatch \/ StartDenied \/ NotExecuted
  BY <1>6, UnexecutedKeeps
<1>7. CASE StartAnswered
  BY <1>7, UnexecutedKeeps, StartGrantedKeeps
<1>8. CASE ReceiveDispatch \/ BeginOperation \/ Execute \/ Preflight
  BY <1>8, ReceiveDispatchKeeps, BeginOperationKeeps, ExecuteKeeps, PreflightKeeps
<1>9. CASE AuthorizeFile \/ FileWritten \/ BeforeCommit \/ WriteTextFile
  BY <1>9, FileStepKeeps, RenameKeeps
<1>10. CASE UNCHANGED vars
  <2>1. UNCHANGED <<ledgerVars, entry, files, outbox, client, wire, reply, late, done, faults>>
    BY <1>10 DEF vars, ledgerVars
  <2>2. LedgerInv' /\ UNCHANGED <<op, root, receipts, budget>>
    BY <2>1, LedgerStands
  <2>3. Copies' = Copies
    BY <2>1 DEF Copies, CopiesOf
  <2>4. LedgerInv' /\ FactsOK' /\ VerdictOK'
    BY <2>1, <2>3, QuietKeepsFacts
  <2>5. DeviceTyped'
    BY <2>1 DEF BridgeInv, DeviceTyped
  <2>6. ClientOK' /\ EffectsOK'
    BY <2>1, <2>2 DEF BridgeInv, ClientOK, EffectsOK, EffectsOf, At, Op, File, Active, Known
  <2>7. LinkOK'
    BY <2>1, <2>2 DEF BridgeInv, LinkOK, At, Op, RequestOK, Known
  <2>8. QED
    BY <2>4, <2>5, <2>6, <2>7 DEF BridgeInv
<1> QED
  BY <1>1, <1>2, <1>3, <1>4, <1>5, <1>6, <1>7, <1>8, <1>9, <1>10 DEF Next, ClientNext

\* The ledger, the journals and the link always agree: for any number of operations
\* and files, late requests, crashes and pauses.
THEOREM BridgeInvariance == Spec => []BridgeInv
BY BridgeStart, BridgeSteps, PTL DEF Spec

\* Every variable of the server and the device keeps its type.
THEOREM BridgeTyped == Spec => []TypeOK
<1>1. BridgeInv => TypeOK
  <2>1. LedgerInv => LedgerTypeOK
    BY DEF LedgerInv, BudgetOK, LedgerTypeOK
  <2>2. QED
    BY <2>1 DEF BridgeInv, DeviceTyped, TypeOK
<1> QED
  BY <1>1, BridgeInvariance, PTL

\* No effect happens twice on the user's computer, through repeated dispatches, lost
\* and late requests, crashes between an effect and its journal entry, and restarts.
THEOREM ActsAtMostOnce == Spec => []AtMostOnce
<1>1. BridgeInv => AtMostOnce
  BY DEF BridgeInv, EffectsOK, EffectsOf, AtMostOnce
<1> QED
  BY <1>1, BridgeInvariance, PTL

\* What the ledger says of an operation is what happened, and stays so.
THEOREM ResultsAreTrue == Spec => []TruthfulResult
<1>1. BridgeInv => TruthfulResult
  <2> SUFFICES ASSUME BridgeInv, NEW o \in Ops, op[o].snap.effects # "null"
               PROVE  LET e == op[o].snap.effects
                      IN  /\ e = "none" => Capability[o] \in Isolated \/ Happened(o) = {}
                          /\ e = "applied" => Happened(o) = UnitsOf(o)
                          /\ e = "partial" => Happened(o) \notin {{}, UnitsOf(o)}
    BY DEF TruthfulResult
  <2>1. StatusOf(o) \in Terminal
    BY DEF BridgeInv, LedgerInv, RowOK, StatusOf
  <2>2. TrueOf(o, op[o].snap.effects, Happened(o))
    BY <2>1 DEF BridgeInv, VerdictOK
  <2>3. QED
    BY <2>2 DEF TrueOf
<1> QED
  BY <1>1, BridgeInvariance, PTL

-----------------------------------------------------------------------------
(* An outcome always lands.                                                *)

\* How a step changes the ledger and the effects: not at all, by an effect, by the
\* server's own moves or a dispatch, by a start, or by a fact that a copy tells.
LEMMA LedgerChanges ==
    ASSUME BridgeInv, [Next]_vars
    PROVE  \/ UNCHANGED <<op, receipts, done>>
           \/ UNCHANGED <<op, receipts>> /\ (Execute \/ WriteTextFile)
           \/ /\ UNCHANGED <<receipts, done>>
              /\ \A o \in Ops : \/ ServerMove(op[o], op'[o]) \/ Created(op[o], op'[o])
                                \/ Leased(op[o], op'[o])
           \/ UNCHANGED done /\ \E o \in Ops : StartOperation(o)
           \/ UNCHANGED done /\ \E r \in Copies : r \in Facts /\ RecordReceipt(r)
<1>1. CASE ServerNext
  <2>1. LedgerStep /\ UNCHANGED done
    BY <1>1 DEF ServerNext
  <2>2. QED
    BY <2>1, LedgerStepMoves DEF BridgeInv
<1>2. ASSUME NEW req, NEW ans, Handle(req, ans), UNCHANGED done,
             req \in late \/ (req = wire /\ wire # None)
      PROVE  \/ UNCHANGED <<op, receipts, done>>
             \/ /\ UNCHANGED <<receipts, done>>
                /\ \A o \in Ops : \/ ServerMove(op[o], op'[o]) \/ Created(op[o], op'[o])
                                  \/ Leased(op[o], op'[o])
             \/ UNCHANGED done /\ \E o \in Ops : StartOperation(o)
             \/ UNCHANGED done /\ \E r \in Copies : r \in Facts /\ RecordReceipt(r)
  <2>1. RequestOK(req) /\ (req.kind = "receipt" => req.receipt \in Copies)
    BY <1>2 DEF BridgeInv, LinkOK, Copies, CopiesOf
  <2>2. \/ UNCHANGED ledgerVars \/ \E o \in Ops : Dispatch(o)
        \/ req.kind = "start" /\ StartOperation(req.op)
        \/ req.kind = "receipt" /\ RecordReceipt(req.receipt)
    BY <1>2 DEF Handle
  <2>3. ASSUME NEW o \in Ops, Dispatch(o)
        PROVE  /\ UNCHANGED receipts
               /\ \A p \in Ops : ServerMove(op[p], op'[p]) \/ Leased(op[p], op'[p])
    BY <2>3, DispatchMoves, SameRows DEF BridgeInv
  <2>4. req.kind = "start" => req.op \in Ops
    BY <2>1 DEF RequestOK
  <2>5. req.kind = "receipt" => req.receipt \in Copies /\ req.receipt \in Facts
    BY <2>1 DEF RequestOK
  <2>6. CASE UNCHANGED ledgerVars
    BY <1>2, <2>6 DEF ledgerVars
  <2>7. QED
    BY <1>2, <2>2, <2>3, <2>4, <2>5, <2>6
<1>3. CASE ServeCurrent \/ ServeUnheard
  <2>1. UNCHANGED done
    BY <1>3 DEF ServeCurrent, ServeUnheard
  <2>2. \E req, ans : Handle(req, ans) /\ (req \in late \/ (req = wire /\ wire # None))
    BY <1>3 DEF ServeCurrent, ServeUnheard
  <2>3. QED
    BY <1>2, <2>1, <2>2
<1>4. CASE Execute \/ WriteTextFile
  BY <1>4 DEF Execute, WriteTextFile, ledgerVars
<1>5. CASE UNCHANGED vars
  BY <1>5 DEF vars
<1>6. CASE \/ PollOnce \/ ReconcileUnknown \/ SendReceipt \/ ReceiptAcknowledged \/ ReceiptRefused
           \/ FlushEnds \/ Claim \/ ClaimAnswered \/ RequestTimesOut \/ ReceiveDispatch
           \/ Pause \/ ShutDown \/ Crash \/ Restart
  BY <1>6 DEF PollOnce, ReconcileUnknown, SendReceipt, ReceiptAcknowledged, ReceiptRefused,
     FlushEnds, Claim, ClaimAnswered, RequestTimesOut, ReceiveDispatch, Pause, ShutDown, Crash, Restart,
     ledgerVars
<1>7. CASE \/ DeclineDispatch \/ BeginOperation \/ StartDenied \/ StartAnswered
           \/ NotExecuted \/ JournalResult \/ Preflight \/ AuthorizeFile \/ BeforeCommit
           \/ FileWritten \/ RecordChangeset
  BY <1>7 DEF DeclineDispatch, BeginOperation, StartDenied, StartAnswered, NotExecuted, JournalResult,
     Preflight, AuthorizeFile, BeforeCommit, FileWritten, RecordChangeset, ledgerVars
<1> QED
  BY <1>1, <1>3, <1>4, <1>5, <1>6, <1>7 DEF Next, ClientNext

\* An outcome that a copy tells, and the ledger has not stored, can be applied: an
\* operation that has ended would have been ended by another decisive fact.
LEMMA OutcomeApplies ==
    ASSUME BridgeInv, NEW r \in Copies, r \in Facts, r.sig.type = "outcome", ~Known(r.id),
           op[r.op].lease # "none"
    PROVE  CanAdvance(SnapshotFor(r), r.sig)
<1>1. r.op \in Ops /\ r.sig \in DeviceSignals /\ \E k \in {1, 2} : r.id = FactId(r.op, k)
  BY FactFields
<1>2. SnapshotFor(r) = op[r.op].snap
  BY DEF SnapshotFor, NeedsStopIntent
<1>3. TargetStatus(r.sig) = r.sig.status /\ r.sig.status \in KnownOutcomes
  BY <1>1, DeviceSignalKinds DEF TargetStatus
<1>4. StatusOf(r.op) \notin Terminal
  <2>1. SUFFICES ASSUME StatusOf(r.op) \in Terminal PROVE FALSE
    OBVIOUS
  <2>2. PICK k \in {1, 2}, t \in Decisive : \E s \in receipts : s.id = FactId(r.op, k) /\ s.type = t
    BY <1>1, <2>1 DEF BridgeInv, VerdictOK
  <2>3. PICK l \in {1, 2} : r.id = FactId(r.op, l)
    BY <1>1
  <2>4. Said(Copies, receipts, r.op, k, t) /\ Said(Copies, receipts, r.op, l, "outcome")
    BY <2>2, <2>3 DEF Said
  <2>5. k = l
    <3>1. {t, "outcome"} \subseteq Decisive /\ t \in FactTypes /\ "outcome" \in FactTypes
      BY DEF Decisive, FactTypes
    <3>2. QED
      BY <1>1, <2>4, <3>1 DEF BridgeInv, FactsOK
  <2>6. QED
    BY <2>2, <2>3, <2>5 DEF Known
<1>5. StatusOf(r.op) \in {"dispatched", "running", "cancel_requested", "unknown"}
  BY <1>1, <1>4 DEF BridgeInv, LedgerInv, RowOK, StatusOf
<1>6. KnownOutcomes \subseteq Transitions(StatusOf(r.op))
  BY <1>5 DEF Transitions, Waiting
<1> QED
  BY <1>2, <1>3, <1>6 DEF CanAdvance, StatusOf

\* An outcome the device has journalled is applied whenever it arrives; it is never
\* stored as a conflict, whatever the server did meanwhile.
THEOREM OutcomesLand == Spec => []OutcomeAlwaysLands
<1>1. Init => OutcomeAlwaysLands
  BY DEF Init, LedgerInit, OutcomeAlwaysLands
<1>2. BridgeInv /\ OutcomeAlwaysLands /\ [Next]_vars => OutcomeAlwaysLands'
  <2> SUFFICES ASSUME BridgeInv, OutcomeAlwaysLands, [Next]_vars PROVE OutcomeAlwaysLands'
    OBVIOUS
  <2>1. CASE UNCHANGED receipts
    BY <2>1 DEF OutcomeAlwaysLands
  <2>2. ASSUME NEW o \in Ops, StartOperation(o) PROVE OutcomeAlwaysLands'
    <3> DEFINE s == Stored(StartId(o), "start", "applied")
    <3>1. receipts' = receipts \cup {s} /\ s.type = "start"
      BY <2>2 DEF StartOperation, Stored
    <3> HIDE DEF s
    <3>2. QED
      BY <3>1 DEF OutcomeAlwaysLands
  <2>3. ASSUME NEW r \in Copies, r \in Facts, RecordReceipt(r) PROVE OutcomeAlwaysLands'
    <3> DEFINE s == Stored(r.id, r.sig.type, Disposition(r))
    <3>1. r.op \in Ops /\ r.sig \in DeviceSignals /\ \A o \in Ops : r.id # StartId(o)
      BY <2>3, FactFields
    <3>2. /\ ~Known(r.id) /\ op[r.op].lease # "none" /\ receipts' = receipts \cup {s}
          /\ Disposition(r) = "applied" \/ ~CanAdvance(SnapshotFor(r), r.sig)
      BY <2>3, <3>1, ReceiptMoves DEF BridgeInv
    <3>3. s.type = "outcome" => s.disposition = "applied"
      <4>1. s.type = r.sig.type /\ s.disposition = Disposition(r)
        BY DEF Stored
      <4> HIDE DEF s
      <4>2. QED
        BY <2>3, <3>2, <4>1, OutcomeApplies
    <3> HIDE DEF s
    <3>4. QED
      BY <3>2, <3>3 DEF OutcomeAlwaysLands
  <2>4. QED
    BY <2>1, <2>2, <2>3, LedgerChanges
<1> QED
  BY <1>1, <1>2, BridgeInvariance, PTL DEF Spec

-----------------------------------------------------------------------------
(* The promise is kept.                                                    *)

\* The variables of OperationPromise, as functions of the state.
permitOf  == [o \in Ops |-> Known(StartId(o))]
countOf   == [o \in Ops |-> [i \in UnitsOf(o) |-> done[o][i]]]
verdictOf == [o \in Ops |-> Verdict(o)]

\* The verdict on an operation: open, in doubt, or the effects it ended with.
LEMMA VerdictCases ==
    ASSUME NEW o \in Ops
    PROVE  /\ Verdict(o) = IF StatusOf(o) \in Terminal THEN op[o].snap.effects
                           ELSE IF StatusOf(o) = "unknown" THEN "doubt" ELSE "open"
           /\ BridgeInv => /\ StatusOf(o) \in Terminal <=> Verdict(o) \in Effects
                           /\ StatusOf(o) = "unknown" <=> Verdict(o) = "doubt"
                           /\ Verdict(o) \in Effects \cup {"open", "doubt"}
<1>1. "unknown" \notin Terminal
  BY DEF Terminal, KnownOutcomes
<1>2. Verdict(o) = IF StatusOf(o) \in Terminal THEN op[o].snap.effects
                   ELSE IF StatusOf(o) = "unknown" THEN "doubt" ELSE "open"
  BY <1>1 DEF Verdict
<1>3. ASSUME BridgeInv, StatusOf(o) \in Terminal PROVE op[o].snap.effects \in Effects
  <2>1. TrueOf(o, op[o].snap.effects, Happened(o))
    BY <1>3 DEF BridgeInv, VerdictOK
  <2>2. QED
    BY <2>1 DEF TrueOf, Effects
<1> QED
  BY <1>1, <1>2, <1>3 DEF Effects

\* The same after a step.
LEMMA VerdictCasesNext ==
    ASSUME NEW o \in Ops
    PROVE  /\ Verdict(o)' = IF StatusOf(o)' \in Terminal THEN op'[o].snap.effects
                            ELSE IF StatusOf(o)' = "unknown" THEN "doubt" ELSE "open"
           /\ BridgeInv' => Verdict(o)' \in Effects \cup {"open", "doubt"}
<1>1. "unknown" \notin Terminal
  BY DEF Terminal, KnownOutcomes
<1>2. Verdict(o)' = IF StatusOf(o)' \in Terminal THEN op'[o].snap.effects
                    ELSE IF StatusOf(o)' = "unknown" THEN "doubt" ELSE "open"
  BY <1>1 DEF Verdict
<1>3. ASSUME BridgeInv', StatusOf(o)' \in Terminal PROVE op'[o].snap.effects \in Effects
  <2>1. TrueOf(o, op'[o].snap.effects, Happened(o)')
    BY <1>3 DEF BridgeInv, VerdictOK, TrueOf, UnitsOf
  <2>2. QED
    BY <2>1 DEF TrueOf, Effects
<1> QED
  BY <1>1, <1>2, <1>3 DEF Effects

\* The three parts of the promise's state, when nothing in them changes.
LEMMA PermitsStand ==
    ASSUME \A o \in Ops : Known(StartId(o))' <=> Known(StartId(o))
    PROVE  permitOf' = permitOf
<1>1. \A o \in Ops : Known(StartId(o))' = Known(StartId(o))
  BY Zenon DEF Known
<1>2. permitOf' = [o \in Ops |-> Known(StartId(o))']
  BY Zenon DEF permitOf
<1>3. [o \in Ops |-> Known(StartId(o))'] = [o \in Ops |-> Known(StartId(o))]
  BY <1>1, Zenon
<1> QED
  BY <1>2, <1>3 DEF permitOf

\* The effects counted stand while nothing is done.
LEMMA CountsStand ==
    ASSUME UNCHANGED done
    PROVE  countOf' = countOf
<1>1. \A o : UnitsOf(o)' = UnitsOf(o)
  BY DEF UnitsOf
<1> QED
  BY <1>1, Zenon DEF countOf

\* The verdicts stand while no row changes but in what its verdict does not show.
LEMMA VerdictsStand ==
    ASSUME \A o \in Ops : op'[o] = op[o] \/ Verdict(o)' = Verdict(o)
    PROVE  /\ \A o \in Ops : Verdict(o)' = Verdict(o)
           /\ verdictOf' = verdictOf
<1>1. ASSUME NEW o \in Ops, op'[o] = op[o] PROVE Verdict(o)' = Verdict(o)
  BY <1>1, VerdictCases, VerdictCasesNext DEF StatusOf
<1>2. \A o \in Ops : Verdict(o)' = Verdict(o)
  BY <1>1
<1>3. verdictOf' = [o \in Ops |-> Verdict(o)']
  BY Zenon DEF verdictOf
<1>4. [o \in Ops |-> Verdict(o)'] = [o \in Ops |-> Verdict(o)]
  BY <1>2, Zenon
<1> QED
  BY <1>2, <1>3, <1>4 DEF verdictOf

\* What the ledger may truthfully say is what the promise calls truthful.
LEMMA TruthAgrees ==
    ASSUME BridgeInv, NEW o \in Ops, NEW e, TrueOf(o, e, Happened(o))
    PROVE  e \in Promise!Truthful(o)
<1> DEFINE H == {i \in UnitsOf(o) : done[o][i] > 0}
<1>1. Happened(o) = H
  <2>1. 1 \in Files
    BY JournalAssumption DEF Files
  <2>2. EffectsOf(o)
    BY DEF BridgeInv, EffectsOK
  <2>3. CASE Capability[o] = "changeset"
    BY <2>3 DEF UnitsOf, Happened
  <2>4. CASE Capability[o] # "changeset"
    <3>1. UnitsOf(o) = {1} /\ \A i \in Files \ {1} : done[o][i] = 0
      BY <2>2, <2>4 DEF UnitsOf, EffectsOf
    <3>2. QED
      BY <2>1, <3>1 DEF Happened
  <2>5. QED
    BY <2>3, <2>4
<1>2. Promise!Happened(o) = H
  BY DEF Promise!Happened
<1> HIDE DEF H
<1>3. TrueOf(o, e, H)
  BY <1>1
<1>4. CASE Capability[o] \in Isolated
  BY <1>3, <1>4 DEF TrueOf, Promise!Truthful
<1>5. CASE Capability[o] \notin Isolated
  BY <1>2, <1>3, <1>5 DEF TrueOf, Promise!Truthful, Promise!Final, Effects
<1> QED
  BY <1>4, <1>5

\* A step in which no row ends otherwise than truthfully, and none that ended or is
\* in doubt reopens, tells the user something true, or nothing.
LEMMA MovesTell ==
    ASSUME BridgeInv, BridgeInv', UNCHANGED done,
           \A o \in Ops : Known(StartId(o))' <=> Known(StartId(o)),
           \A o \in Ops : /\ StatusOf(o) \in Terminal => op'[o].snap = op[o].snap
                          /\ StatusOf(o) = "unknown" => StatusOf(o)' \in Terminal \cup {"unknown"}
    PROVE  Promise!Tell
<1>1. permitOf' = permitOf /\ countOf' = countOf
  BY PermitsStand, CountsStand
<1>2. \A o \in Ops : verdictOf[o] = Verdict(o) /\ verdictOf'[o] = Verdict(o)'
  BY DEF verdictOf
<1>3. verdictOf' \in [Ops -> Promise!Final \cup {"open", "doubt"}]
  <2>1. \A o \in Ops : Verdict(o)' \in Effects \cup {"open", "doubt"}
    BY VerdictCasesNext
  <2>2. QED
    BY <2>1 DEF verdictOf, Promise!Final, Effects
<1>4. ASSUME NEW o \in Ops
      PROVE  \/ Verdict(o)' = Verdict(o)
             \/ Verdict(o) = "open" /\ Verdict(o)' = "doubt"
             \/ Verdict(o) \notin Effects /\ Verdict(o)' \in Promise!Truthful(o)
  <2>1. CASE StatusOf(o) \in Terminal
    BY <2>1, VerdictCases, VerdictCasesNext DEF StatusOf
  <2>2. CASE StatusOf(o) \notin Terminal /\ StatusOf(o)' \in Terminal
    <3>1. Verdict(o) \notin Effects
      BY <2>2, VerdictCases
    <3>2. TrueOf(o, op'[o].snap.effects, Happened(o))
      <4>1. TrueOf(o, op'[o].snap.effects, Happened(o)')
        BY <2>2 DEF BridgeInv, VerdictOK, TrueOf, UnitsOf
      <4>2. Happened(o)' = Happened(o)
        BY DEF Happened
      <4>3. QED
        BY <4>1, <4>2
    <3>3. Verdict(o)' = op'[o].snap.effects
      BY <2>2, VerdictCasesNext
    <3>4. QED
      BY <3>1, <3>2, <3>3, TruthAgrees
  <2>3. CASE StatusOf(o) \notin Terminal /\ StatusOf(o)' \notin Terminal
    BY <2>3, VerdictCases, VerdictCasesNext
  <2>4. QED
    BY <2>1, <2>2, <2>3
<1>5. Promise!Final = Effects
  BY DEF Promise!Final, Effects
<1> QED
  BY <1>1, <1>2, <1>3, <1>4, <1>5 DEF Promise!Tell, permitOf, countOf, verdictOf

\* A recorded start is the one permission of its operation.
LEMMA StartPermits ==
    ASSUME BridgeInv, BridgeInv', UNCHANGED done, NEW o \in Ops, StartOperation(o)
    PROVE  Promise!Permit(o)
<1> DEFINE s == Stored(StartId(o), "start", "applied")
<1>1. /\ ~Known(StartId(o)) /\ receipts' = receipts \cup {s}
      /\ Begun(op[o], op'[o]) /\ \A p \in Ops \ {o} : op'[p] = op[p]
  BY StartMoves DEF BridgeInv
<1>2. s.id = StartId(o)
  BY DEF Stored
<1> HIDE DEF s
<1>3. Known(StartId(o))' /\ \A p \in Ops \ {o} : Known(StartId(p))' <=> Known(StartId(p))
  BY <1>1, <1>2 DEF Known, StartId
<1>4. Verdict(o) = "open" /\ Verdict(o)' = "open"
  <2>1. StatusOf(o) = "dispatched" /\ StatusOf(o)' = "running"
    BY <1>1 DEF Begun, StatusOf
  <2>2. QED
    BY <2>1, VerdictCases, VerdictCasesNext DEF Terminal, KnownOutcomes
<1>5. verdictOf' = verdictOf /\ countOf' = countOf
  BY <1>1, <1>4, VerdictsStand, CountsStand
<1>6. verdictOf[o] = "open"
  BY <1>4 DEF verdictOf
<1>7. ~permitOf[o] /\ permitOf' = [permitOf EXCEPT ![o] = TRUE]
  <2>1. permitOf' = [p \in Ops |-> Known(StartId(p))']
    BY Zenon DEF permitOf
  <2>2. [permitOf EXCEPT ![o] = TRUE] = [p \in Ops |-> IF p = o THEN TRUE ELSE Known(StartId(p))]
    BY Zenon DEF permitOf
  <2>3. \A p \in Ops : Known(StartId(p))' = IF p = o THEN TRUE ELSE Known(StartId(p))
    <3> TAKE p \in Ops
    <3>1. CASE p = o
      BY <1>3, <3>1, Zenon DEF Known
    <3>2. CASE p # o
      BY <1>3, <3>2, Zenon DEF Known
    <3>3. QED
      BY <3>1, <3>2
  <2>4. ~permitOf[o]
    BY <1>1 DEF permitOf
  <2>5. [p \in Ops |-> Known(StartId(p))'] = [p \in Ops |-> IF p = o THEN TRUE ELSE Known(StartId(p))]
    BY <2>3, Zenon
  <2>6. QED
    BY <2>1, <2>2, <2>4, <2>5
<1> QED
  BY <1>5, <1>6, <1>7 DEF Promise!Permit, permitOf, countOf, verdictOf

\* An effect happens with a permission, without a verdict, and for the first time.
LEMMA EffectActs ==
    ASSUME BridgeInv, UNCHANGED <<op, receipts>>, client.pc \in Permitted,
           NEW i \in UnitsOf(Op), i \in Files, done[Op][i] = 0,
           done' = [done EXCEPT ![Op][i] = @ + 1]
    PROVE  \E o \in Ops : \E u \in UnitsOf(o) : Promise!Act(o, u)
<1>1. /\ Op \in Ops /\ client.pc \in Executing /\ Known(StartId(Op))
  BY PermittedKnows
<1>2. PICK o \in Ops : o = Op
  BY <1>1
<1>3. entry[o] \notin Concluded
  BY <1>1, <1>2 DEF BridgeInv, ClientOK, Concluded
<1>4. StatusOf(o) \notin Terminal
  BY <1>1, <1>2, <1>3, EndedIsConcluded
<1>5. Verdict(o) \notin Promise!Final
  BY <1>4, VerdictCases DEF Promise!Final
<1>6. verdictOf[o] \notin Promise!Final /\ permitOf[o] /\ countOf[o][i] = 0
  BY <1>1, <1>2, <1>5 DEF verdictOf, permitOf, countOf
<1>7. verdictOf' = verdictOf /\ permitOf' = permitOf
  <2>1. \A p \in Ops : op'[p] = op[p] /\ (Known(StartId(p))' <=> Known(StartId(p)))
    BY DEF Known
  <2>2. QED
    BY <2>1, VerdictsStand, PermitsStand
<1>8. countOf' = [countOf EXCEPT ![o][i] = 1]
  <2>1. /\ done'[o][i] = 1
        /\ \A j \in Files \ {i} : done'[o][j] = done[o][j]
        /\ \A p \in Ops \ {o} : done'[p] = done[p]
    <3>1. /\ done'[Op][i] = done[Op][i] + 1
          /\ \A j \in Files \ {i} : done'[Op][j] = done[Op][j]
          /\ \A p \in Ops \ {Op} : done'[p] = done[p]
      BY <1>1, EffectMoves
    <3>2. QED
      BY <1>2, <3>1
  <2>2. \A p \in Ops : UnitsOf(p) \subseteq Files
    BY JournalAssumption DEF UnitsOf, Files
  <2> DEFINE g == [countOf[o] EXCEPT ![i] = 1]
  <2>3. \A p \in Ops : countOf[p] = [j \in UnitsOf(p) |-> done[p][j]] /\ countOf'[p] = [j \in UnitsOf(p) |-> done'[p][j]]
    BY DEF countOf, UnitsOf
  <2>4. countOf'[o] = g
    <3>1. \A j \in UnitsOf(o) : done'[o][j] = IF j = i THEN 1 ELSE done[o][j]
      BY <2>1, <2>2
    <3>2. countOf'[o] = [j \in UnitsOf(o) |-> IF j = i THEN 1 ELSE done[o][j]]
      <4>1. countOf'[o] = [j \in UnitsOf(o) |-> done'[o][j]]
        BY <2>3
      <4>2. [j \in UnitsOf(o) |-> done'[o][j]]
              = [j \in UnitsOf(o) |-> IF j = i THEN 1 ELSE done[o][j]]
        BY <3>1, Zenon
      <4>3. QED
        BY <4>1, <4>2
    <3>3. g = [j \in UnitsOf(o) |-> IF j = i THEN 1 ELSE done[o][j]]
      BY <2>3
    <3>4. QED
      BY <3>2, <3>3
  <2>5. \A p \in Ops \ {o} : countOf'[p] = countOf[p]
    <3> TAKE p \in Ops \ {o}
    <3>1. [j \in UnitsOf(p) |-> done'[p][j]] = [j \in UnitsOf(p) |-> done[p][j]]
      <4>1. done'[p] = done[p]
        BY <2>1
      <4>2. QED
        BY <4>1
    <3>2. QED
      BY <2>3, <3>1
  <2>6. countOf' = [p \in Ops |-> countOf'[p]] /\ countOf = [p \in Ops |-> countOf[p]]
    BY DEF countOf, UnitsOf
  <2> HIDE DEF g
  <2>7. countOf' = [countOf EXCEPT ![o] = g]
    BY <2>4, <2>5, <2>6
  <2>8. QED
    BY <2>7 DEF g
<1>9. Promise!Act(o, i)
  BY <1>6, <1>7, <1>8 DEF Promise!Act, permitOf, countOf, verdictOf
<1> QED
  BY <1>2, <1>9

\* Every step of the system is a step of the promise, or none.
LEMMA StepsKeepPromise ==
    ASSUME BridgeInv, BridgeInv', [Next]_vars
    PROVE  [Promise!Next]_(Promise!vars)
<1>1. CASE UNCHANGED <<op, receipts, done>>
  <2>1. \A p \in Ops : op'[p] = op[p] /\ (Known(StartId(p))' <=> Known(StartId(p)))
    BY <1>1 DEF Known
  <2>2. verdictOf' = verdictOf /\ permitOf' = permitOf /\ countOf' = countOf
    BY <1>1, <2>1, VerdictsStand, PermitsStand, CountsStand
  <2>3. QED
    BY <2>2 DEF Promise!vars, permitOf, countOf, verdictOf
<1>2. CASE UNCHANGED <<op, receipts>> /\ (Execute \/ WriteTextFile) /\ ~UNCHANGED done
  <2>1. client.pc \in Permitted
    BY <1>2 DEF Execute, WriteTextFile, At, Permitted, Executing
  <2>2. PICK i : /\ i \in UnitsOf(Op) /\ i \in Files /\ done[Op][i] = 0
                 /\ done' = [done EXCEPT ![Op][i] = @ + 1]
    <3>1. CASE Execute
      <4>1. /\ client.pc = "permitted" /\ Capability[Op] # "changeset"
            /\ done' = [done EXCEPT ![Op][1] = @ + 1]
        BY <3>1 DEF Execute, At
      <4>2. Op \in Ops /\ EffectsOf(Op) /\ 1 \in Files
        BY <2>1, PermittedKnows
      <4>3. 1 \in UnitsOf(Op) /\ done[Op][1] = 0
        BY <4>1, <4>2 DEF UnitsOf, EffectsOf
      <4>4. QED
        BY <4>1, <4>2, <4>3
    <3>2. CASE WriteTextFile
      <4>1. client.pc = "commit" /\ done' = [done EXCEPT ![Op][File] = @ + 1]
        BY <1>2, <3>2 DEF WriteTextFile, At
      <4>2. Op \in Ops /\ EffectsOf(Op) /\ File \in Files /\ Capability[Op] = "changeset"
        BY <4>1, AtFile DEF PerFile
      <4>3. File \in UnitsOf(Op) /\ done[Op][File] = 0
        BY <4>1, <4>2 DEF UnitsOf, EffectsOf
      <4>4. QED
        BY <4>1, <4>2, <4>3
    <3>3. QED
      BY <1>2, <3>1, <3>2
  <2>3. \E o \in Ops : \E u \in UnitsOf(o) : Promise!Act(o, u)
    BY <1>2, <2>1, <2>2, EffectActs
  <2>4. QED
    BY <2>3 DEF Promise!Next
<1>3. CASE /\ UNCHANGED <<receipts, done>>
           /\ \A o \in Ops : \/ ServerMove(op[o], op'[o]) \/ Created(op[o], op'[o])
                             \/ Leased(op[o], op'[o])
  <2>1. \A o \in Ops : Known(StartId(o))' <=> Known(StartId(o))
    BY <1>3 DEF Known
  <2>2. \A o \in Ops : /\ StatusOf(o) \in Terminal => op'[o].snap = op[o].snap
                       /\ StatusOf(o) = "unknown" => StatusOf(o)' \in Terminal \cup {"unknown"}
    BY <1>3 DEF ServerMove, Created, Leased, StatusOf, Terminal, KnownOutcomes, Waiting
  <2>3. Promise!Tell
    BY <1>3, <2>1, <2>2, MovesTell
  <2>4. QED
    BY <2>3 DEF Promise!Next
<1>4. ASSUME NEW o \in Ops, StartOperation(o), UNCHANGED done
      PROVE  [Promise!Next]_(Promise!vars)
  BY <1>4, StartPermits DEF Promise!Next
<1>5. ASSUME NEW r \in Copies, r \in Facts, RecordReceipt(r), UNCHANGED done
      PROVE  [Promise!Next]_(Promise!vars)
  <2> DEFINE s == Stored(r.id, r.sig.type, Disposition(r))
  <2>1. r.op \in Ops /\ r.sig \in DeviceSignals /\ \A o \in Ops : r.id # StartId(o)
    BY <1>5, FactFields
  <2>2. /\ receipts' = receipts \cup {s}
        /\ Told(op[r.op], op'[r.op], r.sig) \/ UNCHANGED op
        /\ \A p \in Ops \ {r.op} : op'[p] = op[p]
    BY <1>5, <2>1, ReceiptMoves DEF BridgeInv
  <2>3. s.id = r.id
    BY DEF Stored
  <2> HIDE DEF s
  <2>4. \A o \in Ops : Known(StartId(o))' <=> Known(StartId(o))
    BY <2>1, <2>2, <2>3 DEF Known
  <2>5. \A o \in Ops : /\ StatusOf(o) \in Terminal => op'[o].snap = op[o].snap
                       /\ StatusOf(o) = "unknown" => StatusOf(o)' \in Terminal \cup {"unknown"}
    BY <2>2 DEF Told, StatusOf
  <2>6. Promise!Tell
    BY <1>5, <2>4, <2>5, MovesTell
  <2>7. QED
    BY <2>6 DEF Promise!Next
<1>6. CASE UNCHANGED <<op, receipts>> /\ UNCHANGED done
  BY <1>1, <1>6
<1> QED
  BY <1>1, <1>2, <1>3, <1>4, <1>5, <1>6, LedgerChanges

\* The ledger, the journal and the client together implement OperationPromise.
THEOREM PromiseIsKept == Spec => KeepsThePromise
<1>1. Init => Promise!Init
  <2> SUFFICES ASSUME Init PROVE Promise!Init
    OBVIOUS
  <2>1. BridgeInv /\ receipts = {} /\ done = [o \in Ops |-> [i \in Files |-> 0]]
    BY BridgeStart DEF Init, LedgerInit
  <2>2. \A o \in Ops : Verdict(o) = "open"
    <3>1. \A o \in Ops : StatusOf(o) = "absent"
      BY DEF Init, LedgerInit, StatusOf, Absent, Planned
    <3>2. QED
      BY <3>1, VerdictCases DEF Terminal, KnownOutcomes
  <2>3. \A o \in Ops : ~Known(StartId(o))
    BY <2>1 DEF Known
  <2>4. \A o \in Ops : UnitsOf(o) \subseteq Files
    BY JournalAssumption DEF UnitsOf, Files
  <2>5. [o \in Ops |-> Known(StartId(o))] = [o \in Ops |-> FALSE]
    <3>1. \A o \in Ops : Known(StartId(o)) = FALSE
      BY <2>3, Zenon DEF Known
    <3>2. QED
      BY <3>1, Zenon
  <2>6. [o \in Ops |-> Verdict(o)] = [o \in Ops |-> "open"]
    BY <2>2, Zenon
  <2>7. [o \in Ops |-> [i \in UnitsOf(o) |-> done[o][i]]]
          = [o \in Ops |-> [u \in [p \in Ops |-> UnitsOf(p)][o] |-> 0]]
    <3>1. \A o \in Ops : [p \in Ops |-> UnitsOf(p)][o] = UnitsOf(o)
      OBVIOUS
    <3>2. \A o \in Ops : \A i \in UnitsOf(o) : done[o][i] = 0
      BY <2>1, <2>4
    <3>3. \A o \in Ops : [i \in UnitsOf(o) |-> done[o][i]]
                           = [u \in [p \in Ops |-> UnitsOf(p)][o] |-> 0]
      BY <3>1, <3>2
    <3>4. QED
      BY <3>3, Zenon
  <2>8. QED
    BY <2>5, <2>6, <2>7 DEF Promise!Init
<1>2. BridgeInv /\ BridgeInv' /\ [Next]_vars => [Promise!Next]_(Promise!vars)
  BY StepsKeepPromise
<1> QED
  BY <1>1, <1>2, BridgeInvariance, PTL DEF Spec, KeepsThePromise, Promise!Spec
=============================================================================
