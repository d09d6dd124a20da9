------------------------- MODULE AdminRouterProofs -------------------------
(***************************************************************************)
(* Proofs about AdminRouter: the orphan sweep deletes no body that a       *)
(* binding names, that a bound volume's map lists, or that an open flush   *)
(* could yet commit, whatever requests, refusals, faults, lapses and       *)
(* merges come between (SweepSpares).                                      *)
(*                                                                         *)
(* The invariant says of the sweep's one request on the way what it stands *)
(* on (Duty), that the request asks what the sweep thinks it asked (Asks)  *)
(* and that the answer still says something true when it is taken (Hears). *)
(* The router's handlers are shown to be moves of three kinds: for a       *)
(* client, of the raw plane, of the sweep.  Each kind keeps the invariant, *)
(* and so does each step of a plane.                                       *)
(***************************************************************************)
EXTENDS AdminRouter, TLAPS, FiniteSetTheorems, SequenceTheorems, NaturalsInduction

\* A sequence, whatever its elements.
IsSeq(x) == \E S : x \in Seq(S)

\* A sequence of a set, some sequence.
LEMMA SeqIs == ASSUME NEW S, NEW x \in Seq(S) PROVE IsSeq(x) /\ Len(x) \in Nat
  BY LenProperties DEF IsSeq

\* A sequence has a length, and is empty exactly when that is zero.
LEMMA IsSeqLen == ASSUME NEW x, IsSeq(x) PROVE Len(x) \in Nat /\ (x = <<>> <=> Len(x) = 0)
<1>1. PICK S : x \in Seq(S)
  BY DEF IsSeq
<1>2. QED
  BY <1>1, LenProperties, EmptySeq

\* Append, of a sequence of anything.
LEMMA SeqAppend ==
    ASSUME NEW x, IsSeq(x), NEW e
    PROVE  /\ IsSeq(Append(x, e)) /\ Len(Append(x, e)) = Len(x) + 1
           /\ \A i \in 1..Len(x) : Append(x, e)[i] = x[i]
           /\ Append(x, e)[Len(x) + 1] = e
<1>1. PICK S : x \in Seq(S)
  BY DEF IsSeq
<1>2. x \in Seq(S \cup {e})
  BY <1>1, SeqDef, LenProperties
<1>3. Append(x, e) \in Seq(S \cup {e})
  BY <1>2, AppendProperties
<1>4. /\ Len(Append(x, e)) = Len(x) + 1 /\ Len(x) \in Nat
      /\ \A i \in 1..Len(x) : Append(x, e)[i] = x[i]
      /\ Append(x, e)[Len(x) + 1] = e
  BY <1>2, AppendProperties, LenProperties
<1>5. IsSeq(Append(x, e))
  BY <1>3 DEF IsSeq
<1>6. QED
  BY <1>4, <1>5

\* Tail and Head, of a sequence of anything.
LEMMA SeqTail ==
    ASSUME NEW x, IsSeq(x), x # <<>>
    PROVE  /\ IsSeq(Tail(x)) /\ Len(Tail(x)) = Len(x) - 1 /\ Len(x) \in Nat \ {0}
           /\ \A i \in 1..(Len(x) - 1) : Tail(x)[i] = x[i + 1]
           /\ Head(x) = x[1]
<1>1. PICK S : x \in Seq(S)
  BY DEF IsSeq
<1>2. Tail(x) \in Seq(S) /\ Head(x) = x[1] /\ Len(Tail(x)) = Len(x) - 1
      /\ \A i \in 1..Len(Tail(x)) : Tail(x)[i] = x[i + 1]
  BY <1>1, HeadTailProperties
<1>3. QED
  BY <1>1, <1>2, LenProperties, EmptySeq, SeqIs

\* unenqueue_tail takes back what was just enqueued.
LEMMA SeqUnappend ==
    ASSUME NEW x, IsSeq(x), NEW e
    PROVE  UnenqueueTail(Append(x, e)) = x
<1>1. PICK S : x \in Seq(S)
  BY DEF IsSeq
<1>2. x \in Seq(S \cup {e}) /\ Len(x) \in Nat
  BY <1>1, SeqDef, LenProperties
<1>3. /\ Append(x, e) \in Seq(S \cup {e}) /\ Len(Append(x, e)) = Len(x) + 1
      /\ \A i \in 1..Len(x) : Append(x, e)[i] = x[i]
  BY <1>2, AppendProperties
<1> DEFINE y == SubSeq(Append(x, e), 1, Len(x))
<1>4. y \in Seq(S \cup {e}) /\ Len(y) = Len(x) /\ \A i \in 1..Len(x) : y[i] = x[i]
  <2>1. /\ 1 \in 1..(Len(Append(x, e)) + 1) /\ Len(x) \in (1 - 1)..Len(Append(x, e))
    BY <1>2, <1>3
  <2>2. /\ y \in Seq(S \cup {e}) /\ Len(y) = Len(x) - 1 + 1
        /\ \A i \in 1..(Len(x) - 1 + 1) : y[i] = Append(x, e)[1 + i - 1]
    BY <1>2, <1>3, <2>1, SubSeqProperties
  <2>3. QED
    BY <1>2, <1>3, <2>2
<1>5. y = x
  BY <1>2, <1>4, SeqEqual
<1>6. QED
  BY <1>2, <1>3, <1>5 DEF UnenqueueTail

\* A set of numbers has a least element, which is what Least chooses.
LEMMA LeastNat ==
    ASSUME NEW S \in SUBSET Nat, S # {}
    PROVE  Least(S) \in S /\ \A y \in S : Least(S) <= y
<1>1. PICK x \in S : \A y \in S : ~(<<y, x>> \in OpToRel(<, Nat))
  BY NatLessThanWellFounded, WFMin
<1>2. ASSUME NEW y \in S PROVE x <= y
  <2>1. ~(y < x)
    BY <1>1 DEF OpToRel
  <2>2. QED
    BY <2>1
<1>3. QED
  BY <1>2 DEF Least

\* A finite set of numbers has an enumeration in order: number i is the element
\* with i elements up to it.
LEMMA OrderExists ==
    ASSUME NEW S \in SUBSET Nat, IsFiniteSet(S)
    PROVE  \E f \in [1..Cardinality(S) -> S] :
              \A i, j \in 1..Cardinality(S) : i < j => f[i] < f[j]
<1> DEFINE n == Cardinality(S)
           upto(e) == {x \in S : x <= e}
           rank == [e \in S |-> Cardinality(upto(e))]
<1>1. n \in Nat
  BY FS_CardinalityType
<1>2. \A e \in S : IsFiniteSet(upto(e)) /\ Cardinality(upto(e)) \in Nat /\ Cardinality(upto(e)) <= n
  BY FS_Subset, FS_CardinalityType
<1>3. \A e \in S : Cardinality(upto(e)) # 0
  <2>1. \A e \in S : e \in upto(e)
    OBVIOUS
  <2>2. QED
    BY <1>2, <2>1, FS_EmptySet
<1>4. \A d, e \in S : d < e => Cardinality(upto(d)) < Cardinality(upto(e))
  <2>1. ASSUME NEW d \in S, NEW e \in S, d < e PROVE Cardinality(upto(d)) < Cardinality(upto(e))
    <3>1. upto(d) \subseteq upto(e) /\ e \in upto(e) /\ e \notin upto(d)
      <4>1. d \in Nat /\ e \in Nat
        BY <2>1
      <4>2. \A x \in S : x <= d => x <= e
        BY <2>1, <4>1
      <4>3. e <= e /\ ~(e <= d)
        BY <2>1, <4>1
      <4>4. QED
        BY <2>1, <4>2, <4>3
    <3>2. upto(d) # upto(e)
      BY <3>1
    <3> HIDE DEF upto
    <3>3. QED
      BY <1>2, <3>1, <3>2, FS_Subset
  <2>2. QED
    BY <2>1
<1>5. rank \in [S -> 1..n]
  BY <1>1, <1>2, <1>3
<1>6. \A d, e \in S : d < e => rank[d] < rank[e]
  BY <1>4
<1> HIDE DEF rank, upto
<1>7. rank \in Injection(S, 1..n)
  <2>1. ASSUME NEW d \in S, NEW e \in S, rank[d] = rank[e] PROVE d = e
    BY <1>1, <1>5, <1>6, <2>1
  <2>2. QED
    BY <1>5, <2>1 DEF Injection, IsInjective
<1>8. IsFiniteSet(1..n) /\ Cardinality(1..n) = n
  BY <1>1, FS_Interval
<1>9. rank \in Surjection(S, 1..n)
  BY <1>7, <1>8, FS_Injection
<1> DEFINE f == [i \in 1..n |-> CHOOSE e \in S : rank[e] = i]
<1>10. \A i \in 1..n : f[i] \in S /\ rank[f[i]] = i
  BY <1>9 DEF Surjection
<1>11. \A i, j \in 1..n : i < j => f[i] < f[j]
  <2>1. ASSUME NEW i \in 1..n, NEW j \in 1..n, i < j, ~(f[i] < f[j]) PROVE FALSE
    <3> HIDE DEF f
    <3>1. f[i] \in Nat /\ f[j] \in Nat
      BY <1>10, <2>1
    <3>2. f[j] < f[i] \/ f[j] = f[i]
      BY <2>1, <3>1
    <3>3. rank[f[j]] < rank[f[i]] \/ rank[f[j]] = rank[f[i]]
      BY <1>6, <1>10, <2>1, <3>2
    <3>4. QED
      BY <1>10, <2>1, <3>3
  <2>2. QED
    BY <2>1
<1>12. f \in [1..n -> S]
  BY <1>10
<1> HIDE DEF f
<1>13. QED
  BY <1>11, <1>12

\* InOrder lists a finite set of numbers, all of it and nothing else.
LEMMA InOrderLists ==
    ASSUME NEW S \in SUBSET Nat, IsFiniteSet(S)
    PROVE  /\ InOrder(S) \in Seq(S) /\ Len(InOrder(S)) = Cardinality(S)
           /\ \A x \in S : \E i \in 1..Len(InOrder(S)) : InOrder(S)[i] = x
<1> DEFINE n == Cardinality(S)
           f == InOrder(S)
<1>1. n \in Nat
  BY FS_CardinalityType
<1>2. f \in [1..n -> S] /\ \A i, j \in 1..n : i < j => f[i] < f[j]
  BY OrderExists DEF InOrder
<1> HIDE DEF f
<1>3. f \in Seq(S) /\ Len(f) = n
  BY <1>1, <1>2, SeqDef
<1>4. f \in Injection(1..n, S)
  <2>1. ASSUME NEW i \in 1..n, NEW j \in 1..n, f[i] = f[j] PROVE i = j
    <3>1. f[i] \in Nat /\ f[j] \in Nat /\ i \in Nat /\ j \in Nat
      <4>1. f[i] \in S /\ f[j] \in S
        BY <1>2, <2>1
      <4>2. f[i] \in Nat /\ f[j] \in Nat
        BY <4>1
      <4>3. QED
        BY <1>1, <2>1, <4>2
    <3>2. ~(i < j) /\ ~(j < i)
      BY <1>2, <2>1, <3>1
    <3>3. QED
      BY <3>1, <3>2
  <2>2. QED
    BY <1>2, <2>1 DEF Injection, IsInjective
<1>5. f \in Surjection(1..n, S)
  <2>1. IsFiniteSet(1..n) /\ Cardinality(1..n) = n
    BY <1>1, FS_Interval
  <2>2. QED
    BY <1>4, <2>1, FS_Injection
<1>6. \A x \in S : \E i \in 1..n : f[i] = x
  BY <1>5 DEF Surjection
<1>7. QED
  BY <1>3, <1>6 DEF f

-----------------------------------------------------------------------------
(* Shapes: a record with its fields, whatever they hold.                     *)

IsRouter(s) ==
    s = [nsPend |-> s.nsPend, nsTx |-> s.nsTx, objPend |-> s.objPend, objTx |-> s.objTx,
         bodyPend |-> s.bodyPend, bodyTx |-> s.bodyTx, put |-> s.put, spf |-> s.spf,
         gc |-> s.gc, raw |-> s.raw, owed |-> s.owed]
IsGc(g) ==
    g = [phase |-> g.phase, asked |-> g.asked, at |-> g.at, objAt |-> g.objAt,
         queue |-> g.queue, wrapped |-> g.wrapped, reserved |-> g.reserved,
         check |-> g.check, view |-> g.view, next |-> g.next, roots |-> g.roots,
         leaves |-> g.leaves]
IsRaw(r) == r = [stage |-> r.stage, op |-> r.op, cid |-> r.cid, dig |-> r.dig,
                 status |-> r.status]
SlotField == {"op", "stage", "cid", "key", "dig", "rev", "described", "attempts", "mode",
              "expect", "held"}
IsSlot(p) == p = [x \in SlotField |-> p[x]]
IsBound(b) == b = [rev |-> b.rev, obj |-> b.obj, vol |-> b.vol, held |-> b.held]

-----------------------------------------------------------------------------
(* Entries of the pending tables.                                            *)

Composed == {"put_file", "delete_file", "retain"}
RawOp == {"delete_body", "put_keyed"}
GcNs == {"gc_reserve", "gc_check", "gc_roots", "gc_release"}
GcBody == {"gc_scan", "gc_root", "gc_leaf", "gc_delete"}
GcObj == {"gc_obj_scan", "gc_obj_remove"}

\* An entry is the sweep's exactly if no client waits behind it, and an entry of
\* a composed write names a slot.
NsEntry(e) ==
    /\ e.op \in Composed \cup GcNs \cup {"get_file", "stat", "range", "raw", "bind", "begin",
                                         "commit", "lookup", "lease", "list"}
    /\ e.cid = 0 <=> e.op \in GcNs
    /\ e.op \in Composed => e.i \in 1..PutFiles
BodyEntry(e) ==
    /\ e.cid = 0 <=> e.op \in GcBody
    /\ e.op \in Composed => e.i \in 1..PutFiles
ObjEntry(e) ==
    /\ e.op \in Composed \cup GcObj
    /\ e.cid = 0 <=> e.op \in GcObj
    /\ e.op \in Composed => e.i \in 1..PutFiles

Puts(put) ==
    /\ put = [i \in 1..PutFiles |-> put[i]]
    /\ \A i \in 1..PutFiles : /\ IsSlot(put[i])
                              /\ put[i].op = "free" \/ (put[i].op \in Composed /\ put[i].cid # 0)

Gc(g) ==
    /\ IsGc(g)
    /\ g.phase \in {"body", "object"}
    /\ g.queue \in Seq(Digest)
    /\ IsSeq(g.roots) /\ IsSeq(g.leaves)
    /\ g.check \in Nat /\ g.next \in Nat

-----------------------------------------------------------------------------
(* What the sweep has proved of its candidate so far.                        *)

\* No bind can name d, no flush can begin.
Frozen(n, d) == d \in n.reserved /\ n.flush = "none"
Clear(n, d, m) == \A k \in Key : k <= m => n.bind[k].obj # d
\* No page of the map under root r lists d.
Unlisted(r, d) == d \notin Child[r] /\ (r \in Deep => \A e \in Child[r] : d \notin Child[e])
Proven(n, d) == Frozen(n, d) /\ Clear(n, d, NKeys)
                /\ \A k \in Key : n.bind[k].vol => Unlisted(n.bind[k].obj, d)

Among(x, seq) == \E i \in 1..Len(seq) : seq[i] = x

\* The walk: each volume's map is known not to list the candidate, or its root is
\* still to be read, or its key is on a page still to come.
Ahead(g, k) == g.next # 0 /\ k > g.next
Walking(g, n, d) ==
    /\ g.phase = "body"
    /\ Frozen(n, d) /\ Clear(n, d, NKeys)
    /\ \A k \in Key : n.bind[k].vol => \/ Unlisted(n.bind[k].obj, d)
                                       \/ Among(n.bind[k].obj, g.roots)
                                       \/ Ahead(g, k)

\* What each request of the sweep stands on.
Duty(s, n, op) ==
    LET g == s.gc
        d == Candidate(s)
    IN  /\ s.raw.stage = "idle"
        /\ IF op \in {"gc_scan", "gc_obj_scan"} THEN g.asked ELSE g.queue # <<>>
        /\ op = "gc_check" => /\ d \in n.reserved /\ Clear(n, d, g.check)
                              /\ g.check # 0 => n.flush = "none"
        /\ op = "gc_roots" => /\ g.phase = "body" /\ Frozen(n, d) /\ Clear(n, d, NKeys)
                              /\ \A k \in Key : n.bind[k].vol =>
                                    Unlisted(n.bind[k].obj, d) \/ k > g.next
        /\ op \in {"gc_root", "gc_leaf"} => Walking(g, n, d) /\ g.roots # <<>>
        /\ op = "gc_leaf" => /\ g.leaves # <<>> /\ d \notin Child[Head(g.roots)]
                             /\ \A e \in Child[Head(g.roots)] :
                                   d \notin Child[e] \/ Among(e, g.leaves)
        /\ op = "gc_obj_remove" /\ g.phase = "body" => Proven(n, d)
        /\ op = "gc_delete" => Proven(n, d)

\* The request behind an entry of the sweep.
Asks(s, op, q) ==
    LET g == s.gc
        d == Candidate(s)
    IN  /\ op = "gc_reserve" => q.op = "reserve" /\ q.dig = d
        /\ op = "gc_check" => q.op = "referenced" /\ q.dig = d /\ q.at = g.check
        /\ op = "gc_roots" => q.op = "roots" /\ q.at = g.next
        /\ op = "gc_release" => q.op = "release"
        /\ op \in {"gc_scan", "gc_obj_scan"} => q.op = "scan"
        /\ op = "gc_root" => q.op = "get" /\ q.dig = Head(g.roots)
        /\ op = "gc_leaf" => q.op = "get" /\ q.dig = Head(g.leaves)
        /\ op = "gc_delete" => q.op = "delete" /\ q.dig = d
        /\ op = "gc_obj_remove" => q.op = "remove"

\* What the answer to it says, still true when it is taken.
Hears(s, n, op, a) ==
    LET g == s.gc
        d == Candidate(s)
    IN  /\ op = "gc_reserve" => (a.yes => d \in n.reserved)
        /\ op = "gc_check" => /\ ~a.yes => n.flush = "none" /\ Clear(n, d, PageEnd(g.check))
                              /\ ~a.yes => a.next = Cursor(g.check)
        /\ op = "gc_roots" => /\ a.next = Cursor(g.next) /\ IsSeq(a.roots)
                              /\ \A k \in Scanned(g.next) :
                                    n.bind[k].vol => Among(n.bind[k].obj, a.roots)
        /\ op \in {"gc_scan", "gc_obj_scan"} => a.page \in Seq(Digest)
        /\ op = "gc_root" => (a.v = "ok" => a.dig = Head(g.roots))
        /\ op = "gc_leaf" => (a.v = "ok" => a.dig = Head(g.leaves))

-----------------------------------------------------------------------------
(* The invariant, of a router s, a namespace n and the answers a.            *)

\* A router with its tables and queues.
Tables(s) ==
    /\ IsRouter(s) /\ Puts(s.put) /\ Gc(s.gc) /\ IsRaw(s.raw)
    /\ IsSeq(s.nsPend) /\ IsSeq(s.nsTx) /\ IsSeq(s.objPend) /\ IsSeq(s.objTx)
    /\ IsSeq(s.bodyTx) /\ IsFiniteSet(s.bodyPend)
Answers(a) == a = [ns |-> a.ns, body |-> a.body, obj |-> a.obj] /\ IsSeq(a.ns) /\ IsSeq(a.obj)
Names(n) ==
    /\ n = [bind |-> n.bind, reserved |-> n.reserved, flush |-> n.flush, view |-> n.view]
    /\ n.bind = [k \in Key |-> n.bind[k]] /\ \A k \in Key : IsBound(n.bind[k])

\* The namespace and the index answer in order, so the entries are those of the
\* answers on the way and then those of the requests queued.
InOrderAnswers(s, a) ==
    /\ Len(s.nsPend) = Len(a.ns) + Len(s.nsTx)
    /\ Len(s.objPend) = Len(a.obj) + Len(s.objTx)
    /\ \A j \in 1..Len(s.nsPend) : NsEntry(s.nsPend[j])
    /\ \A j \in 1..Len(s.objPend) : ObjEntry(s.objPend[j])
    /\ \A j \in 1..Len(s.nsTx) :
          s.nsTx[j].op = "release" => s.nsPend[Len(a.ns) + j].op \in {"gc_release", "raw"}

\* The body plane's answers are told apart by their ids.
ById(s, a) ==
    /\ \A p, q \in s.bodyPend : p.id = q.id => p = q
    /\ \A p \in s.bodyPend : BodyEntry(p.e)
    /\ \A i \in 1..Len(s.bodyTx) :
          /\ \E p \in s.bodyPend : p.id = s.bodyTx[i].id /\ (p.e.cid = 0 <=> s.bodyTx[i].cid = 0)
          /\ \A j \in 1..Len(s.bodyTx) : s.bodyTx[i].id = s.bodyTx[j].id => i = j
          /\ \A r \in a.body : r.id # s.bodyTx[i].id
    /\ \A r \in a.body : /\ \E p \in s.bodyPend : p.id = r.id
                         /\ \A t \in a.body : t.id = r.id => t = r

\* The raw plane's one request is where its stage says.
RawOne(s) ==
    /\ s.raw.stage # "idle" => s.raw.cid # 0 /\ s.raw.op \in RawOp
    /\ \A i \in 1..Len(s.nsPend) :
          s.nsPend[i].op = "raw" =>
             /\ s.raw.stage \in {"reserve", "check", "release"}
             /\ \A j \in 1..Len(s.nsPend) : s.nsPend[j].op = "raw" => j = i
    /\ \A p \in s.bodyPend :
          p.e.op \in RawOp => /\ s.raw.stage = "body"
                              /\ \A q \in s.bodyPend : q.e.op \in RawOp => q = p

\* The sweep's one request has its duty, and the answer to it what it hears.
NsOne(s, n, a) ==
    \A j \in 1..Len(s.nsPend) :
       s.nsPend[j].cid = 0 =>
          /\ \A i \in 1..Len(s.nsPend) : s.nsPend[i].cid = 0 => i = j
          /\ \A p \in s.bodyPend : p.e.cid # 0
          /\ \A i \in 1..Len(s.objPend) : s.objPend[i].cid # 0
          /\ Duty(s, n, s.nsPend[j].op)
          /\ IF j <= Len(a.ns) THEN Hears(s, n, s.nsPend[j].op, a.ns[j])
             ELSE Asks(s, s.nsPend[j].op, s.nsTx[j - Len(a.ns)])
BodyOne(s, n, a) ==
    \A p \in s.bodyPend :
       p.e.cid = 0 =>
          /\ \A q \in s.bodyPend : q.e.cid = 0 => q = p
          /\ \A i \in 1..Len(s.objPend) : s.objPend[i].cid # 0
          /\ Duty(s, n, p.e.op)
          /\ \A i \in 1..Len(s.bodyTx) : s.bodyTx[i].id = p.id => Asks(s, p.e.op, s.bodyTx[i])
          /\ \A r \in a.body : r.id = p.id => Hears(s, n, p.e.op, r.a)
ObjOne(s, n, a) ==
    \A j \in 1..Len(s.objPend) :
       s.objPend[j].cid = 0 =>
          /\ \A i \in 1..Len(s.objPend) : s.objPend[i].cid = 0 => i = j
          /\ Duty(s, n, s.objPend[j].op)
          /\ IF j <= Len(a.obj) THEN Hears(s, n, s.objPend[j].op, a.obj[j])
             ELSE Asks(s, s.objPend[j].op, s.objTx[j - Len(a.obj)])

Sweeps(s, n, a) == NsOne(s, n, a) /\ BodyOne(s, n, a) /\ ObjOne(s, n, a)

Core(s, n, a) == /\ Tables(s) /\ Answers(a) /\ Names(n) /\ InOrderAnswers(s, a) /\ ById(s, a) /\ RawOne(s)
                 /\ Sweeps(s, n, a)

\* What clients will ask.
IsUser(u) == u = [at |-> u.at, asking |-> u.asking, pf |-> u.pf]
Asking ==
    /\ cfg \in Config
    /\ user = [c \in Client |-> user[c]]
    /\ \A c \in Client : IsUser(user[c]) /\ user[c].at \in Nat \ {0}

IInv == Core(ar, ns, ans) /\ Asking

-----------------------------------------------------------------------------
(* Moves of the router.                                                      *)

\* What the moves of this module are about is the same in s and t.
SameNs(s, t) == t.nsPend = s.nsPend /\ t.nsTx = s.nsTx
SameBody(s, t) == t.bodyPend = s.bodyPend /\ t.bodyTx = s.bodyTx
SameObj(s, t) == t.objPend = s.objPend /\ t.objTx = s.objTx
SentNs(s, t, e, q) == t.nsPend = Append(s.nsPend, e) /\ t.nsTx = Append(s.nsTx, q)
SentObj(s, t, e, q) == t.objPend = Append(s.objPend, e) /\ t.objTx = Append(s.objTx, q)
SentBody(s, t, e, q) == /\ t.bodyPend = s.bodyPend \cup {[id |-> q.id, e |-> e]}
                        /\ t.bodyTx = Append(s.bodyTx, q)
                        /\ q.id \notin {p.id : p \in s.bodyPend}

\* A move that sends nothing.
Still(s, t) == /\ Tables(t) /\ t.gc = s.gc /\ t.raw = s.raw
               /\ SameNs(s, t) /\ SameBody(s, t) /\ SameObj(s, t)

\* A move made for a client, outside the raw plane: it sends at most one request
\* to a plane, and that is no release and no request of the sweep.
ClientNs(e, q) == NsEntry(e) /\ e.cid # 0 /\ e.op # "raw" /\ q.op # "release"
ClientBody(e, q) == BodyEntry(e) /\ e.cid # 0 /\ e.op \notin RawOp /\ q.cid # 0
ClientObj(e) == ObjEntry(e) /\ e.cid # 0
Moves(s, t) ==
    /\ Tables(t) /\ t.gc = s.gc /\ t.raw = s.raw
    /\ SameNs(s, t) \/ \E e, q : SentNs(s, t, e, q) /\ ClientNs(e, q)
    /\ SameBody(s, t) \/ \E e, q : SentBody(s, t, e, q) /\ ClientBody(e, q)
    /\ SameObj(s, t) \/ \E e, q : SentObj(s, t, e, q) /\ ClientObj(e)

\* A fresh id is not in use.
LEMMA FreshIdNew ==
    ASSUME NEW s, IsFiniteSet(s.bodyPend)
    PROVE  FreshId(s) \notin {p.id : p \in s.bodyPend}
<1> DEFINE used == {p.id : p \in s.bodyPend}
           f == [p \in s.bodyPend |-> p.id]
<1>1. IsFiniteSet(used) /\ Cardinality(used) \in Nat
  <2>1. f \in Surjection(s.bodyPend, used)
    BY DEF Surjection
  <2>2. QED
    BY <2>1, FS_Surjection, FS_CardinalityType
<1> HIDE DEF used
<1> DEFINE m == Cardinality(used) + 1
<1>2. \E n \in 1..m : n \notin used
  <2>1. SUFFICES ASSUME 1..m \subseteq used PROVE FALSE
    OBVIOUS
  <2>2. m \in Nat /\ m > Cardinality(used)
    BY <1>1
  <2>3. Cardinality(1..m) = m
    BY <2>2, FS_Interval
  <2>4. Cardinality(1..m) <= Cardinality(used)
    BY <1>1, <2>1, FS_Subset
  <2>5. QED
    BY <1>1, <2>2, <2>3, <2>4
<1>3. \E n \in 1..m : n \notin used /\ \A k \in 1..(n - 1) : k \in used
  <2> DEFINE S == {n \in 1..m : n \notin used}
             x == Least(S)
  <2>1. S \subseteq Nat /\ S # {} /\ m \in Nat
    BY <1>1, <1>2
  <2>2. x \in S /\ \A y \in S : x <= y
    BY <2>1, LeastNat
  <2> HIDE DEF x
  <2>3. ASSUME NEW k \in 1..(x - 1), k \notin used PROVE FALSE
    <3>1. k \in 1..m /\ k < x /\ k \in Nat /\ x \in Nat
      BY <2>1, <2>2, <2>3
    <3>2. k \in S
      BY <2>3, <3>1
    <3>3. QED
      BY <2>2, <3>1, <3>2
  <2>4. QED
    BY <2>2, <2>3
<1>4. FreshId(s) \notin used
  BY <1>3 DEF FreshId, used
<1>5. QED
  BY <1>4 DEF used

\* forward_ns: the entry and the request, or nothing.
LEMMA ForwardsNs ==
    ASSUME NEW s, Tables(s), NEW e, NEW q
    PROVE  LET f == ForwardNs(s, e, q)
           IN  /\ f.ok \in BOOLEAN
               /\ ~f.ok => f.s = s
               /\ f.ok => /\ Tables(f.s) /\ SentNs(s, f.s, e, q) /\ SameBody(s, f.s)
                          /\ SameObj(s, f.s) /\ f.s.gc = s.gc /\ f.s.raw = s.raw
                          /\ f.s.put = s.put /\ f.s.owed = s.owed
<1> DEFINE t == [s EXCEPT !.nsPend = Append(@, e)]
           u == [t EXCEPT !.nsTx = Append(@, q)]
           b == [t EXCEPT !.nsPend = UnenqueueTail(@)]
           f == ForwardNs(s, e, q)
<1>1. IsRouter(s)
  BY DEF Tables
<1>2. /\ IsRouter(t) /\ t.nsPend = Append(s.nsPend, e) /\ t.nsTx = s.nsTx
      /\ SameBody(s, t) /\ SameObj(s, t) /\ t.gc = s.gc /\ t.raw = s.raw /\ t.put = s.put
      /\ t.spf = s.spf /\ t.owed = s.owed
  BY <1>1 DEF IsRouter, SameBody, SameObj
<1> HIDE DEF t
<1>3. IsRouter(u) /\ SentNs(s, u, e, q) /\ SameBody(s, u) /\ SameObj(s, u) /\ u.gc = s.gc
      /\ u.raw = s.raw /\ u.put = s.put /\ u.owed = s.owed
  <2>0. IsRouter(t)
    BY <1>2
  <2>1. /\ IsRouter(u) /\ u.nsTx = Append(t.nsTx, q) /\ u.nsPend = t.nsPend
        /\ SameBody(t, u) /\ SameObj(t, u) /\ u.gc = t.gc /\ u.raw = t.raw /\ u.put = t.put
        /\ u.owed = t.owed
    BY <2>0 DEF IsRouter, SameBody, SameObj
  <2>2. QED
    BY <1>2, <2>1 DEF SameBody, SameObj, SentNs
<1>4. b = s
  <2>1. UnenqueueTail(Append(s.nsPend, e)) = s.nsPend
    BY SeqUnappend DEF Tables
  <2>2. QED
    BY <1>1, <1>2, <2>1 DEF IsRouter, SameBody, SameObj
<1>5. \/ f = Refused(s) \/ f = Refused(b) \/ f = [ok |-> TRUE, s |-> u]
  BY DEF ForwardNs, t
<1> HIDE DEF u, b, f
<1>6. Tables(u)
  BY <1>3, SeqAppend DEF Tables, SentNs, SameBody, SameObj
<1>7. CASE f = [ok |-> TRUE, s |-> u]
  BY <1>3, <1>6, <1>7 DEF f
<1>8. CASE f = Refused(s)
  BY <1>8 DEF f, Refused
<1>9. QED
  BY <1>4, <1>5, <1>7, <1>8 DEF f

\* forward_object, likewise.
LEMMA ForwardsObj ==
    ASSUME NEW s, Tables(s), NEW e, NEW q
    PROVE  LET f == ForwardObj(s, e, q)
           IN  /\ f.ok \in BOOLEAN
               /\ ~f.ok => f.s = s
               /\ f.ok => /\ Tables(f.s) /\ SentObj(s, f.s, e, q) /\ SameBody(s, f.s)
                          /\ SameNs(s, f.s) /\ f.s.gc = s.gc /\ f.s.raw = s.raw
                          /\ f.s.put = s.put /\ f.s.owed = s.owed
<1> DEFINE t == [s EXCEPT !.objPend = Append(@, e)]
           u == [t EXCEPT !.objTx = Append(@, q)]
           b == [t EXCEPT !.objPend = UnenqueueTail(@)]
           f == ForwardObj(s, e, q)
<1>1. IsRouter(s)
  BY DEF Tables
<1>2. /\ IsRouter(t) /\ t.objPend = Append(s.objPend, e) /\ t.objTx = s.objTx
      /\ SameBody(s, t) /\ SameNs(s, t) /\ t.gc = s.gc /\ t.raw = s.raw /\ t.put = s.put
      /\ t.spf = s.spf /\ t.owed = s.owed
  BY <1>1 DEF IsRouter, SameBody, SameNs
<1> HIDE DEF t
<1>3. IsRouter(u) /\ SentObj(s, u, e, q) /\ SameBody(s, u) /\ SameNs(s, u) /\ u.gc = s.gc
      /\ u.raw = s.raw /\ u.put = s.put /\ u.owed = s.owed
  <2>0. IsRouter(t)
    BY <1>2
  <2>1. /\ IsRouter(u) /\ u.objTx = Append(t.objTx, q) /\ u.objPend = t.objPend
        /\ SameBody(t, u) /\ SameNs(t, u) /\ u.gc = t.gc /\ u.raw = t.raw /\ u.put = t.put
        /\ u.owed = t.owed
    BY <2>0 DEF IsRouter, SameBody, SameNs
  <2>2. QED
    BY <1>2, <2>1 DEF SameBody, SameNs, SentObj
<1>4. b = s
  <2>1. UnenqueueTail(Append(s.objPend, e)) = s.objPend
    BY SeqUnappend DEF Tables
  <2>2. QED
    BY <1>1, <1>2, <2>1 DEF IsRouter, SameBody, SameNs
<1>5. \/ f = Refused(s) \/ f = Refused(b) \/ f = [ok |-> TRUE, s |-> u]
  BY DEF ForwardObj, t
<1> HIDE DEF u, b, f
<1>6. Tables(u)
  BY <1>3, SeqAppend DEF Tables, SentObj, SameBody, SameNs
<1>7. CASE f = [ok |-> TRUE, s |-> u]
  BY <1>3, <1>6, <1>7 DEF f
<1>8. CASE f = Refused(s)
  BY <1>8 DEF f, Refused
<1>9. QED
  BY <1>4, <1>5, <1>7, <1>8 DEF f

\* forward_body: under an id no other request has.
LEMMA ForwardsBody ==
    ASSUME NEW s, Tables(s), NEW e, NEW q, "id" \in DOMAIN q, q = [x \in DOMAIN q |-> q[x]]
    PROVE  LET f == ForwardBody(s, e, q)
           IN  /\ f.ok \in BOOLEAN
               /\ ~f.ok => f.s = s
               /\ f.ok => /\ Tables(f.s) /\ SentBody(s, f.s, e, [q EXCEPT !.id = FreshId(s)])
                          /\ SameNs(s, f.s) /\ SameObj(s, f.s)
                          /\ f.s.gc = s.gc /\ f.s.raw = s.raw /\ f.s.put = s.put
                          /\ f.s.owed = s.owed
<1> DEFINE r == [q EXCEPT !.id = FreshId(s)]
           u == [s EXCEPT !.bodyPend = @ \cup {[id |-> FreshId(s), e |-> e]},
                          !.bodyTx = Append(@, r)]
           f == ForwardBody(s, e, q)
<1>1. IsRouter(s)
  BY DEF Tables
<1>2. r.id = FreshId(s)
  OBVIOUS
<1>3. f = Refused(s) \/ f = [ok |-> TRUE, s |-> u]
  BY DEF ForwardBody
<1> HIDE DEF r
<1>4. /\ IsRouter(u) /\ u.bodyPend = s.bodyPend \cup {[id |-> r.id, e |-> e]}
      /\ u.bodyTx = Append(s.bodyTx, r)
      /\ SameNs(s, u) /\ SameObj(s, u) /\ u.gc = s.gc /\ u.raw = s.raw /\ u.put = s.put
      /\ u.owed = s.owed
  <2> DEFINE v == [s EXCEPT !.bodyPend = @ \cup {[id |-> FreshId(s), e |-> e]}]
  <2>1. /\ IsRouter(v) /\ v.bodyPend = s.bodyPend \cup {[id |-> r.id, e |-> e]}
        /\ v.bodyTx = s.bodyTx
        /\ SameNs(s, v) /\ SameObj(s, v) /\ v.gc = s.gc /\ v.raw = s.raw /\ v.put = s.put
        /\ v.owed = s.owed
    BY <1>1, <1>2 DEF IsRouter, SameNs, SameObj
  <2>2. u = [v EXCEPT !.bodyTx = Append(@, r)]
    BY <1>1 DEF IsRouter
  <2> HIDE DEF v, u
  <2>3. /\ IsRouter(u) /\ u.bodyPend = v.bodyPend /\ u.bodyTx = Append(v.bodyTx, r)
        /\ SameNs(v, u) /\ SameObj(v, u) /\ u.gc = v.gc /\ u.raw = v.raw /\ u.put = v.put
        /\ u.owed = v.owed
    BY <2>1, <2>2 DEF IsRouter, SameNs, SameObj
  <2>4. QED
    BY <2>1, <2>3 DEF SameNs, SameObj
<1> HIDE DEF u, f
<1>5. SentBody(s, u, e, r)
  BY <1>2, <1>4, FreshIdNew DEF SentBody, Tables
<1>6. IsFiniteSet(u.bodyPend)
  BY <1>4, FS_AddElement DEF Tables
<1>7. Tables(u)
  BY <1>4, <1>6, SeqAppend DEF Tables, SameNs, SameObj
<1>8. CASE f = [ok |-> TRUE, s |-> u]
  BY <1>4, <1>5, <1>7, <1>8 DEF f, r
<1>9. CASE f = Refused(s)
  BY <1>9 DEF f, Refused
<1>10. QED
  BY <1>3, <1>8, <1>9

\* Moves put together.
LEMMA StillMoves == ASSUME NEW s, NEW t, Still(s, t) PROVE Moves(s, t)
  BY DEF Still, Moves

\* Nothing sent and then a move for a client is one move.
LEMMA StillThen ==
    ASSUME NEW s, NEW t, NEW u, Still(s, t), Moves(t, u)
    PROVE  Moves(s, u)
<1>1. /\ t.gc = s.gc /\ t.raw = s.raw /\ SameNs(s, t) /\ SameBody(s, t) /\ SameObj(s, t)
  BY DEF Still
<1>2. SameNs(s, u) \/ \E e, q : SentNs(s, u, e, q) /\ ClientNs(e, q)
  BY <1>1 DEF Moves, SameNs, SentNs
<1>3. SameBody(s, u) \/ \E e, q : SentBody(s, u, e, q) /\ ClientBody(e, q)
  BY <1>1 DEF Moves, SameBody, SentBody
<1>4. SameObj(s, u) \/ \E e, q : SentObj(s, u, e, q) /\ ClientObj(e)
  BY <1>1 DEF Moves, SameObj, SentObj
<1>5. QED
  BY <1>1, <1>2, <1>3, <1>4 DEF Moves

\* A move for a client and then nothing sent is one move.
LEMMA ThenStill ==
    ASSUME NEW s, NEW t, NEW u, Moves(s, t), Still(t, u)
    PROVE  Moves(s, u)
<1>1. /\ u.gc = t.gc /\ u.raw = t.raw /\ SameNs(t, u) /\ SameBody(t, u) /\ SameObj(t, u)
      /\ Tables(u)
  BY DEF Still
<1>2. SameNs(s, u) \/ \E e, q : SentNs(s, u, e, q) /\ ClientNs(e, q)
  BY <1>1 DEF Moves, SameNs, SentNs
<1>3. SameBody(s, u) \/ \E e, q : SentBody(s, u, e, q) /\ ClientBody(e, q)
  BY <1>1 DEF Moves, SameBody, SentBody
<1>4. SameObj(s, u) \/ \E e, q : SentObj(s, u, e, q) /\ ClientObj(e)
  BY <1>1 DEF Moves, SameObj, SentObj
<1>5. QED
  BY <1>1, <1>2, <1>3, <1>4 DEF Moves

\* Nothing sent, twice.
LEMMA StillStill ==
    ASSUME NEW s, NEW t, NEW u, Still(s, t), Still(t, u)
    PROVE  Still(s, u)
  BY DEF Still, SameNs, SameBody, SameObj

\* An answer owed.
LEMMA ReplyStill ==
    ASSUME NEW s, Tables(s), NEW c, NEW op, NEW status, NEW x
    PROVE  /\ Still(s, Reply(s, c, op, status, x))
           /\ Reply(s, c, op, status, x).put = s.put
           /\ Reply(s, c, op, status, x).owed = Answer(c, op, status, x)
<1> DEFINE t == Reply(s, c, op, status, x)
<1>1. IsRouter(s)
  BY DEF Tables
<1>2. /\ IsRouter(t) /\ t.gc = s.gc /\ t.raw = s.raw /\ t.put = s.put
      /\ t.owed = Answer(c, op, status, x)
      /\ SameNs(s, t) /\ SameBody(s, t) /\ SameObj(s, t)
  BY <1>1 DEF Reply, IsRouter, SameNs, SameBody, SameObj
<1> HIDE DEF t
<1>3. QED
  BY <1>2 DEF Still, Tables, SameNs, SameBody, SameObj, t

\* A PutFile slot written.
GoodSlot(p) == IsSlot(p) /\ (p.op = "free" \/ (p.op \in Composed /\ p.cid # 0))
Live(s, i) == i \in 1..PutFiles /\ s.put[i].op \in Composed /\ s.put[i].cid # 0

\* Slot i holds p and nothing else of what clients wait for has changed; slot i
\* still works for the same client's operation.
Slotted(s, t, i, p) ==
    t.owed = s.owed /\ t.put[i] = p /\ \A j \in 1..PutFiles : j # i => t.put[j] = s.put[j]
Kept(s, t, i) == \E p : Slotted(s, t, i, p) /\ p.op = s.put[i].op /\ p.cid = s.put[i].cid

\* Writing a slot of the PutFile table sends nothing.
LEMMA SlotStill ==
    ASSUME NEW s, Tables(s), NEW i \in 1..PutFiles, NEW p, GoodSlot(p)
    PROVE  LET t == [s EXCEPT !.put[i] = p]
           IN  Still(s, t) /\ t.put[i] = p /\ Slotted(s, t, i, p)
<1> DEFINE t == [s EXCEPT !.put[i] = p]
<1>1. IsRouter(s) /\ Puts(s.put)
  BY DEF Tables
<1>2. /\ IsRouter(t) /\ t.gc = s.gc /\ t.raw = s.raw
      /\ SameNs(s, t) /\ SameBody(s, t) /\ SameObj(s, t)
      /\ t.put = [s.put EXCEPT ![i] = p] /\ t.owed = s.owed
  BY <1>1 DEF IsRouter, SameNs, SameBody, SameObj
<1> HIDE DEF t
<1>3. t.put = [j \in 1..PutFiles |-> IF j = i THEN p ELSE s.put[j]]
  BY <1>1, <1>2 DEF Puts
<1>4. Puts(t.put) /\ t.put[i] = p
  BY <1>1, <1>3 DEF Puts, GoodSlot
<1>5. Slotted(s, t, i, p)
  BY <1>2, <1>3 DEF Slotted
<1>6. QED
  BY <1>2, <1>4, <1>5 DEF Still, Tables, SameNs, SameBody, SameObj, t

\* A slot in use keeps its operation and its client while its fields change.
LEMMA SlotKept ==
    ASSUME NEW s, Tables(s), NEW i, Live(s, i), NEW y, GoodSlot(y),
           y.op = s.put[i].op, y.cid = s.put[i].cid
    PROVE  LET t == [s EXCEPT !.put[i] = y]
           IN  Still(s, t) /\ Tables(t) /\ Live(t, i) /\ t.put[i] = y
               /\ Kept(s, t, i)
  BY SlotStill DEF Live, Still, Kept

\* The stage of a composed write is set.
LEMMA StageStill ==
    ASSUME NEW s, Tables(s), NEW i, Live(s, i), NEW x
    PROVE  LET t == [s EXCEPT !.put[i].stage = x]
           IN  Still(s, t) /\ Tables(t) /\ Live(t, i) /\ t.put[i].op = s.put[i].op
               /\ Kept(s, t, i) /\ t.put[i].stage = x
<1> DEFINE p == s.put[i]
           y == [p EXCEPT !.stage = x]
<1>1. IsSlot(p) /\ i \in 1..PutFiles /\ p.op \in Composed /\ p.cid # 0
  BY DEF Tables, Puts, Live
<1>2. GoodSlot(y) /\ y.op = p.op /\ y.cid = p.cid /\ y.stage = x
  BY <1>1 DEF IsSlot, GoodSlot
<1> HIDE DEF y
<1>3. LET t == [s EXCEPT !.put[i] = y]
      IN  Still(s, t) /\ Tables(t) /\ Live(t, i) /\ t.put[i].op = p.op
          /\ Kept(s, t, i) /\ t.put[i].stage = x
  BY <1>2, SlotKept
<1>4. QED
  BY <1>3 DEF y

\* The revision a composed write read is set.
LEMMA RevStill ==
    ASSUME NEW s, Tables(s), NEW i, Live(s, i), NEW x
    PROVE  LET t == [s EXCEPT !.put[i].rev = x]
           IN  Still(s, t) /\ Tables(t) /\ Live(t, i) /\ t.put[i].op = s.put[i].op
               /\ Kept(s, t, i)
<1> DEFINE p == s.put[i]
           y == [p EXCEPT !.rev = x]
<1>1. IsSlot(p) /\ i \in 1..PutFiles /\ p.op \in Composed /\ p.cid # 0
  BY DEF Tables, Puts, Live
<1>2. GoodSlot(y) /\ y.op = p.op /\ y.cid = p.cid
  BY <1>1 DEF IsSlot, GoodSlot
<1> HIDE DEF y
<1>3. LET t == [s EXCEPT !.put[i] = y]
      IN  Still(s, t) /\ Tables(t) /\ Live(t, i) /\ t.put[i].op = p.op
          /\ Kept(s, t, i)
  BY <1>2, SlotKept
<1>4. QED
  BY <1>3 DEF y

\* The attempts of a composed write are counted.
LEMMA AttemptsStill ==
    ASSUME NEW s, Tables(s), NEW i, Live(s, i), NEW x
    PROVE  LET t == [s EXCEPT !.put[i].attempts = x]
           IN  Still(s, t) /\ Tables(t) /\ Live(t, i) /\ t.put[i].op = s.put[i].op
               /\ Kept(s, t, i)
<1> DEFINE p == s.put[i]
           y == [p EXCEPT !.attempts = x]
<1>1. IsSlot(p) /\ i \in 1..PutFiles /\ p.op \in Composed /\ p.cid # 0
  BY DEF Tables, Puts, Live
<1>2. GoodSlot(y) /\ y.op = p.op /\ y.cid = p.cid
  BY <1>1 DEF IsSlot, GoodSlot
<1> HIDE DEF y
<1>3. LET t == [s EXCEPT !.put[i] = y]
      IN  Still(s, t) /\ Tables(t) /\ Live(t, i) /\ t.put[i].op = p.op
          /\ Kept(s, t, i)
  BY <1>2, SlotKept
<1>4. QED
  BY <1>3 DEF y

\* A composed write notes that its descriptor is put.
LEMMA DescribedStill ==
    ASSUME NEW s, Tables(s), NEW i, Live(s, i), NEW x
    PROVE  LET t == [s EXCEPT !.put[i].described = x]
           IN  Still(s, t) /\ Tables(t) /\ Live(t, i) /\ t.put[i].op = s.put[i].op
               /\ Kept(s, t, i)
<1> DEFINE p == s.put[i]
           y == [p EXCEPT !.described = x]
<1>1. IsSlot(p) /\ i \in 1..PutFiles /\ p.op \in Composed /\ p.cid # 0
  BY DEF Tables, Puts, Live
<1>2. GoodSlot(y) /\ y.op = p.op /\ y.cid = p.cid
  BY <1>1 DEF IsSlot, GoodSlot
<1> HIDE DEF y
<1>3. LET t == [s EXCEPT !.put[i] = y]
      IN  Still(s, t) /\ Tables(t) /\ Live(t, i) /\ t.put[i].op = p.op
          /\ Kept(s, t, i)
  BY <1>2, SlotKept
<1>4. QED
  BY <1>3 DEF y

\* A composed write notes the digest of its body.
LEMMA DigStill ==
    ASSUME NEW s, Tables(s), NEW i, Live(s, i), NEW x
    PROVE  LET t == [s EXCEPT !.put[i].dig = x]
           IN  Still(s, t) /\ Tables(t) /\ Live(t, i) /\ t.put[i].op = s.put[i].op
               /\ Kept(s, t, i)
<1> DEFINE p == s.put[i]
           y == [p EXCEPT !.dig = x]
<1>1. IsSlot(p) /\ i \in 1..PutFiles /\ p.op \in Composed /\ p.cid # 0
  BY DEF Tables, Puts, Live
<1>2. GoodSlot(y) /\ y.op = p.op /\ y.cid = p.cid
  BY <1>1 DEF IsSlot, GoodSlot
<1> HIDE DEF y
<1>3. LET t == [s EXCEPT !.put[i] = y]
      IN  Still(s, t) /\ Tables(t) /\ Live(t, i) /\ t.put[i].op = p.op
          /\ Kept(s, t, i)
  BY <1>2, SlotKept
<1>4. QED
  BY <1>3 DEF y

\* A stream's slot written, or a field of it.
LEMMA StreamsStill ==
    ASSUME NEW s, Tables(s), NEW y
    PROVE  LET t == [s EXCEPT !.spf = y] IN Still(s, t) /\ Tables(t) /\ t.put = s.put /\ t.owed = s.owed
<1> DEFINE t == [s EXCEPT !.spf = y]
<1>1. IsRouter(s)
  BY DEF Tables
<1>2. /\ IsRouter(t) /\ t.gc = s.gc /\ t.raw = s.raw /\ t.put = s.put /\ t.owed = s.owed
      /\ SameNs(s, t) /\ SameBody(s, t) /\ SameObj(s, t)
  BY <1>1 DEF IsRouter, SameNs, SameBody, SameObj
<1> HIDE DEF t
<1>3. QED
  BY <1>2 DEF Still, Tables, SameNs, SameBody, SameObj, t

\* The slot of a streamed write is written.
LEMMA StreamStill ==
    ASSUME NEW s, Tables(s), NEW i, NEW x
    PROVE  LET t == [s EXCEPT !.spf[i] = x] IN Still(s, t) /\ Tables(t) /\ t.put = s.put /\ t.owed = s.owed
  BY StreamsStill

\* A streamed write notes its session at the body plane.
LEMMA WidStill ==
    ASSUME NEW s, Tables(s), NEW i, NEW x
    PROVE  LET t == [s EXCEPT !.spf[i].wid = x] IN Still(s, t) /\ Tables(t) /\ t.put = s.put /\ t.owed = s.owed
  BY StreamsStill

\* composed_finish.
LEMMA FinishStill ==
    ASSUME NEW s, Tables(s), NEW i \in 1..PutFiles, NEW status
    PROVE  Still(s, ComposedFinish(s, i, status))
<1> DEFINE t == [s EXCEPT !.put[i] = FreeSlot]
<1>1. GoodSlot(FreeSlot)
  BY DEF GoodSlot, IsSlot, SlotField, FreeSlot
<1>2. Still(s, t)
  BY <1>1, SlotStill
<1>3. Tables(t)
  BY <1>2 DEF Still
<1> HIDE DEF t
<1>4. \A c, op, x : Still(t, Reply(t, c, op, status, x))
  BY <1>3, ReplyStill
<1>5. \A c, op, x : Still(s, Reply(t, c, op, status, x))
  BY <1>2, <1>4, StillStill
<1>6. QED
  BY <1>5 DEF ComposedFinish, t

\* A composed write goes on with a request, or ends.
LEMMA GoesOnNs ==
    ASSUME NEW s, Tables(s), NEW i \in 1..PutFiles, NEW e, NEW q, ClientNs(e, q), NEW status
    PROVE  Moves(s, OrFinish(ForwardNs(s, e, q), i, status))
<1> DEFINE f == ForwardNs(s, e, q)
<1>1. /\ ~f.ok => f.s = s
      /\ f.ok => /\ Tables(f.s) /\ SentNs(s, f.s, e, q) /\ SameBody(s, f.s)
                 /\ SameObj(s, f.s) /\ f.s.gc = s.gc /\ f.s.raw = s.raw
  BY ForwardsNs
<1> HIDE DEF f
<1>2. CASE f.ok
  <2>1. Moves(s, f.s)
    BY <1>1, <1>2 DEF Moves
  <2>2. QED
    BY <1>2, <2>1 DEF OrFinish, f
<1>3. CASE ~f.ok
  <2>1. Moves(s, ComposedFinish(f.s, i, status))
    <3>1. f.s = s
      BY <1>1, <1>3
    <3>2. Still(s, ComposedFinish(s, i, status))
      BY FinishStill
    <3>3. QED
      BY <3>1, <3>2, StillMoves
  <2>2. QED
    BY <1>3, <2>1 DEF OrFinish, f
<1>4. QED
  BY <1>2, <1>3

\* The same, with a request to the object index.
LEMMA GoesOnObj ==
    ASSUME NEW s, Tables(s), NEW i \in 1..PutFiles, NEW e, NEW q, ClientObj(e), NEW status
    PROVE  Moves(s, OrFinish(ForwardObj(s, e, q), i, status))
<1> DEFINE f == ForwardObj(s, e, q)
<1>1. /\ ~f.ok => f.s = s
      /\ f.ok => /\ Tables(f.s) /\ SentObj(s, f.s, e, q) /\ SameBody(s, f.s)
                 /\ SameNs(s, f.s) /\ f.s.gc = s.gc /\ f.s.raw = s.raw
  BY ForwardsObj
<1> HIDE DEF f
<1>2. CASE f.ok
  <2>1. Moves(s, f.s)
    BY <1>1, <1>2 DEF Moves
  <2>2. QED
    BY <1>2, <2>1 DEF OrFinish, f
<1>3. CASE ~f.ok
  <2>1. Moves(s, ComposedFinish(f.s, i, status))
    <3>1. f.s = s
      BY <1>1, <1>3
    <3>2. Still(s, ComposedFinish(s, i, status))
      BY FinishStill
    <3>3. QED
      BY <3>1, <3>2, StillMoves
  <2>2. QED
    BY <1>3, <2>1 DEF OrFinish, f
<1>4. QED
  BY <1>2, <1>3

\* An entry for a slot in use.
LEMMA SlotEntryGood ==
    ASSUME NEW s, NEW i, Live(s, i)
    PROVE  /\ NsEntry(SlotEntry(s, i)) /\ ObjEntry(SlotEntry(s, i))
           /\ SlotEntry(s, i).cid # 0 /\ SlotEntry(s, i).op # "raw"
  BY DEF Live, SlotEntry, Entry, NsEntry, ObjEntry, Composed, GcNs, GcObj

\* composed_lookup is a move for a client.
LEMMA LookupMoves ==
    ASSUME NEW s, Tables(s), NEW i, Live(s, i)
    PROVE  Moves(s, ComposedLookup(s, i))
<1> DEFINE t == Staged(s, i, "lookup")
           q == [NsReq("lookup", s.put[i].cid) EXCEPT !.key = s.put[i].key]
<1>1. Still(s, t) /\ Tables(t)
  BY StageStill DEF Staged
<1>2. q.op # "release"
  BY DEF NsReq
<1>3. ClientNs(SlotEntry(s, i), q)
  BY <1>2, SlotEntryGood DEF ClientNs
<1> HIDE DEF t, q
<1>4. Moves(t, OrFinish(ForwardNs(t, SlotEntry(s, i), q), i, "busy"))
  BY <1>1, <1>3, GoesOnNs DEF Live
<1>5. QED
  BY <1>1, <1>4, StillThen DEF ComposedLookup, t, q

\* composed_bind, composed_unbind and composed_retain are moves for a client.
LEMMA WriteMoves ==
    ASSUME NEW s, Tables(s), NEW i, Live(s, i), NEW op \in {"bind", "unbind", "retain"}
    PROVE  Moves(s, ComposedWrite(s, i, op))
<1> DEFINE t == Staged(s, i, op)
           p == s.put[i]
           q == [NsReq(op, p.cid) EXCEPT !.key = p.key, !.dig = p.dig, !.cond = TRUE,
                                         !.rev = p.rev + 1, !.held = p.held]
<1>1. Still(s, t) /\ Tables(t)
  BY StageStill DEF Staged
<1>2. q.op # "release"
  BY DEF NsReq
<1>3. ClientNs(SlotEntry(s, i), q)
  BY <1>2, SlotEntryGood DEF ClientNs
<1> HIDE DEF t, q
<1>4. Moves(t, OrFinish(ForwardNs(t, SlotEntry(s, i), q), i, "busy"))
  BY <1>1, <1>3, GoesOnNs DEF Live
<1>5. QED
  BY <1>1, <1>4, StillThen DEF ComposedWrite, t, q

\* The descriptor stage of a composed write is a move for a client.
LEMMA ObjectMoves ==
    ASSUME NEW s, Tables(s), NEW i, Live(s, i)
    PROVE  Moves(s, ObjectStage(s, i))
<1> DEFINE t == Staged(s, i, "object")
<1>1. Still(s, t) /\ Tables(t)
  BY StageStill DEF Staged
<1>2. ClientObj(SlotEntry(s, i))
  BY SlotEntryGood DEF ClientObj
<1> HIDE DEF t
<1>3. \A q : Moves(t, OrFinish(ForwardObj(t, SlotEntry(s, i), q), i, "busy"))
  BY <1>1, <1>2, GoesOnObj DEF Live
<1>4. QED
  BY <1>1, <1>3, StillThen DEF ObjectStage, t

-----------------------------------------------------------------------------
(* Composed operations.                                                      *)

\* Deciding a composed write against the binding it read is a move for its client.
LEMMA DecideMoves ==
    ASSUME NEW s, Tables(s), NEW i, Live(s, i), NEW a
    PROVE  Moves(s, ComposedDecide(s, i, a))
<1> DEFINE t == [s EXCEPT !.put[i].rev = a.rev]
<1>1. \A status : Moves(s, ComposedFinish(s, i, status))
  BY FinishStill, StillMoves DEF Live
<1>2. Still(s, t) /\ Tables(t) /\ Live(t, i)
  BY RevStill
<1>3. s.put[i].op \in {"put_file", "delete_file", "retain"}
  BY DEF Live, Composed
<1> HIDE DEF t
<1>4. Moves(t, ComposedRetain(t, i)) /\ Moves(t, ComposedUnbind(t, i))
      /\ Moves(t, ComposedBind(t, i)) /\ Moves(t, ObjectStage(t, i))
  BY <1>2, WriteMoves, ObjectMoves DEF ComposedRetain, ComposedUnbind, ComposedBind
<1>5. Moves(s, ComposedRetain(t, i)) /\ Moves(s, ComposedUnbind(t, i))
      /\ Moves(s, ComposedBind(t, i)) /\ Moves(s, ObjectStage(t, i))
  BY <1>2, <1>4, StillThen
<1>6. QED
  BY <1>1, <1>3, <1>5 DEF ComposedDecide, t

\* The slot an answer finds is in use.
LEMMA HeldLive ==
    ASSUME NEW s, Tables(s), NEW e, e.i \in 1..PutFiles, HoldsSlot(s, e)
    PROVE  Live(s, e.i)
  BY DEF HoldsSlot, Tables, Puts, Live

\* The namespace's answer to a composed write leads to a move for its client.
LEMMA NsAnswerMoves ==
    ASSUME NEW s, Tables(s), NEW e, e.i \in 1..PutFiles, NEW a
    PROVE  Moves(s, ComposedNsAnswer(s, e, a))
<1> DEFINE i == e.i
           t == [s EXCEPT !.put[i].attempts = @ + 1]
<1>1. CASE ~HoldsSlot(s, e)
  <2>1. Still(s, s)
    BY DEF Still, SameNs, SameBody, SameObj
  <2>2. QED
    BY <1>1, <2>1, StillMoves DEF ComposedNsAnswer
<1>2. CASE HoldsSlot(s, e)
  <2>1. Live(s, i)
    BY <1>2, HeldLive
  <2>2. Moves(s, ComposedDecide(s, i, a)) /\ \A status : Moves(s, ComposedFinish(s, i, status))
    BY <2>1, DecideMoves, FinishStill, StillMoves DEF Live
  <2>3. Still(s, t) /\ Tables(t) /\ Live(t, i)
    BY <2>1, AttemptsStill
  <2> HIDE DEF t
  <2>4. Moves(t, ComposedLookup(t, i)) /\ \A status : Moves(t, ComposedFinish(t, i, status))
    BY <2>3, LookupMoves, FinishStill, StillMoves DEF Live
  <2>5. Moves(s, ComposedLookup(t, i)) /\ \A status : Moves(s, ComposedFinish(t, i, status))
    BY <2>3, <2>4, StillThen
  <2>6. QED
    BY <1>2, <2>2, <2>5 DEF ComposedNsAnswer, t
<1>3. QED
  BY <1>1, <1>2

\* The index's answer to a put leads to a move for its client.
LEMMA ObjectAnswerMoves ==
    ASSUME NEW s, Tables(s), NEW e, e.i \in 1..PutFiles, NEW a
    PROVE  Moves(s, PutFileObjectAnswer(s, e, a))
<1> DEFINE t == [s EXCEPT !.put[e.i].described = TRUE]
<1>1. CASE ~HoldsSlot(s, e)
  <2>1. Still(s, s)
    BY DEF Still, SameNs, SameBody, SameObj
  <2>2. QED
    BY <1>1, <2>1, StillMoves DEF PutFileObjectAnswer
<1>2. CASE HoldsSlot(s, e)
  <2>1. Live(s, e.i)
    BY <1>2, HeldLive
  <2>2. \A status : Moves(s, ComposedFinish(s, e.i, status))
    BY FinishStill, StillMoves
  <2>3. Still(s, t) /\ Tables(t) /\ Live(t, e.i)
    BY <2>1, DescribedStill
  <2> HIDE DEF t
  <2>4. Moves(t, ComposedBind(t, e.i))
    BY <2>3, WriteMoves DEF ComposedBind
  <2>5. Moves(s, ComposedBind(t, e.i))
    BY <2>3, <2>4, StillThen
  <2>6. QED
    BY <1>2, <2>2, <2>5 DEF PutFileObjectAnswer, t
<1>3. QED
  BY <1>1, <1>2

\* The body plane's answer to a put leads to a move for its client.
LEMMA BodyAnswerMoves ==
    ASSUME NEW s, Tables(s), NEW e, e.i \in 1..PutFiles, NEW a
    PROVE  Moves(s, PutFileBodyAnswer(s, e, a))
<1> DEFINE t == [s EXCEPT !.put[e.i].dig = a.dig]
<1>1. CASE ~HoldsSlot(s, e)
  <2>1. Still(s, s)
    BY DEF Still, SameNs, SameBody, SameObj
  <2>2. QED
    BY <1>1, <2>1, StillMoves DEF PutFileBodyAnswer
<1>2. CASE HoldsSlot(s, e)
  <2>1. Live(s, e.i)
    BY <1>2, HeldLive
  <2>2. \A status : Moves(s, ComposedFinish(s, e.i, status))
    BY FinishStill, StillMoves
  <2>3. Still(s, t) /\ Tables(t) /\ Live(t, e.i)
    BY <2>1, DigStill
  <2> HIDE DEF t
  <2>4. Moves(t, ComposedLookup(t, e.i))
    BY <2>3, LookupMoves
  <2>5. Moves(s, ComposedLookup(t, e.i))
    BY <2>3, <2>4, StillThen
  <2>6. QED
    BY <1>2, <2>2, <2>5 DEF PutFileBodyAnswer, t
<1>3. QED
  BY <1>1, <1>2

-----------------------------------------------------------------------------
(* Requests to the body plane.                                               *)

\* A client's request to the body plane, where it was taken.
LEMMA BodySent ==
    ASSUME NEW s, Tables(s), NEW e, NEW q, "id" \in DOMAIN q, q = [x \in DOMAIN q |-> q[x]],
           "cid" \in DOMAIN q, ClientBody(e, q)
    PROVE  LET f == ForwardBody(s, e, q)
           IN  /\ f.ok => Moves(s, f.s)
               /\ ~f.ok => f.s = s
<1> DEFINE f == ForwardBody(s, e, q)
           r == [q EXCEPT !.id = FreshId(s)]
<1>1. /\ ~f.ok => f.s = s
      /\ f.ok => /\ Tables(f.s) /\ SentBody(s, f.s, e, r)
                 /\ SameNs(s, f.s) /\ SameObj(s, f.s)
                 /\ f.s.gc = s.gc /\ f.s.raw = s.raw
  BY ForwardsBody
<1>2. ClientBody(e, r)
  BY DEF ClientBody
<1> HIDE DEF f, r
<1>3. f.ok => Moves(s, f.s)
  BY <1>1, <1>2 DEF Moves
<1>4. QED
  BY <1>1, <1>3 DEF f

\* A request the router makes for a client, which is a record with an id.
LEMMA BodyReqSent ==
    ASSUME NEW s, Tables(s), NEW e, BodyEntry(e), e.cid # 0, e.op \notin RawOp,
           NEW op, NEW c, c # 0, NEW d, NEW w
    PROVE  /\ LET f == ForwardBody(s, e, BodyReq(op, c, d))
              IN  (f.ok => Moves(s, f.s)) /\ (~f.ok => f.s = s)
           /\ LET f == ForwardBody(s, e, [BodyReq(op, c, d) EXCEPT !.wid = w])
              IN  (f.ok => Moves(s, f.s)) /\ (~f.ok => f.s = s)
<1>1. ASSUME NEW q, "id" \in DOMAIN q, q = [x \in DOMAIN q |-> q[x]], "cid" \in DOMAIN q, q.cid = c
      PROVE  LET f == ForwardBody(s, e, q)
             IN  (f.ok => Moves(s, f.s)) /\ (~f.ok => f.s = s)
  BY <1>1, BodySent DEF ClientBody
<1> DEFINE q == BodyReq(op, c, d)
           v == [BodyReq(op, c, d) EXCEPT !.wid = w]
<1>2. /\ "id" \in DOMAIN q /\ q = [x \in DOMAIN q |-> q[x]] /\ "cid" \in DOMAIN q /\ q.cid = c
      /\ "id" \in DOMAIN v /\ v = [x \in DOMAIN v |-> v[x]] /\ "cid" \in DOMAIN v /\ v.cid = c
  BY DEF BodyReq
<1> HIDE DEF q, v
<1>3. LET f == ForwardBody(s, e, q) IN (f.ok => Moves(s, f.s)) /\ (~f.ok => f.s = s)
  BY <1>1, <1>2
<1>4. LET f == ForwardBody(s, e, v) IN (f.ok => Moves(s, f.s)) /\ (~f.ok => f.s = s)
  BY <1>1, <1>2
<1>5. QED
  BY <1>3, <1>4 DEF q, v

\* A free PutFile slot.
LEMMA FreePut ==
    ASSUME NEW s, FreePuts(s) # {}
    PROVE  Least(FreePuts(s)) \in 1..PutFiles
<1>1. FreePuts(s) \subseteq Nat
  BY RouterAssumption DEF FreePuts
<1>2. QED
  BY <1>1, LeastNat DEF FreePuts

\* A slot taken for a client.
LEMMA SlotTaken ==
    ASSUME NEW s, Tables(s), NEW i \in 1..PutFiles, NEW c, c # 0, NEW q, q.op \in Composed, NEW stage
    PROVE  LET t == [s EXCEPT !.put[i] = Slot(c, q, stage)]
           IN  Still(s, t) /\ Tables(t) /\ Live(t, i)
<1> DEFINE p == Slot(c, q, stage)
<1>1. p.op = q.op /\ p.cid = c
  BY DEF Slot, FreeSlot
<1>2. IsSlot(p)
  BY DEF Slot, FreeSlot, IsSlot, SlotField
<1> HIDE DEF p
<1>3. GoodSlot(p)
  BY <1>1, <1>2 DEF GoodSlot
<1>4. QED
  BY <1>1, <1>3, SlotStill DEF Still, Live, p

\* PUT_FILE, DELETE_FILE and RETAIN are taken with a move for the client.
LEMMA PutFileMoves ==
    ASSUME NEW s, Tables(s), NEW c, c # 0, NEW q, q.op \in Composed
    PROVE  /\ Moves(s, HandlePutFile(s, c, q))
           /\ Moves(s, HandleDeleteFile(s, c, q))
           /\ Moves(s, HandleRetain(s, c, q))
<1> DEFINE i == Least(FreePuts(s))
<1>1. \A op, status, x : Moves(s, Reply(s, c, op, status, x))
  BY ReplyStill, StillMoves
<1>2. ASSUME FreePuts(s) # {}
      PROVE  Moves(s, ComposedLookup([s EXCEPT !.put[i] = Slot(c, q, "lookup")], i))
  <2> DEFINE t == [s EXCEPT !.put[i] = Slot(c, q, "lookup")]
  <2>1. i \in 1..PutFiles
    BY <1>2, FreePut
  <2>2. Still(s, t) /\ Tables(t) /\ Live(t, i)
    BY <2>1, SlotTaken
  <2> HIDE DEF t
  <2>3. Moves(s, ComposedLookup(t, i))
    BY <2>2, LookupMoves, StillThen
  <2>4. QED
    BY <2>3 DEF t
<1>3. ASSUME FreePuts(s) # {}
      PROVE  LET f == ForwardBody([s EXCEPT !.put[i] = Slot(c, q, "body")],
                                  Entry(c, "put_file", i, None), BodyReq("put", c, q.dig))
             IN  f.ok => Moves(s, f.s)
  <2> DEFINE t == [s EXCEPT !.put[i] = Slot(c, q, "body")]
             e == Entry(c, "put_file", i, None)
             f == ForwardBody(t, e, BodyReq("put", c, q.dig))
  <2>1. i \in 1..PutFiles
    BY <1>3, FreePut
  <2>2. Still(s, t) /\ Tables(t)
    BY <2>1, SlotTaken
  <2>3. BodyEntry(e) /\ e.cid # 0 /\ e.op \notin RawOp
    BY <2>1 DEF BodyEntry, Entry, GcBody, RawOp, Composed
  <2> HIDE DEF t, e
  <2>4. f.ok => Moves(t, f.s)
    BY <2>2, <2>3, BodyReqSent
  <2> HIDE DEF f
  <2>5. f.ok => Moves(s, f.s)
    BY <2>2, <2>4, StillThen
  <2>6. QED
    BY <2>5 DEF t, e, f
<1> HIDE DEF i
<1>4. Moves(s, HandlePutFile(s, c, q))
  BY <1>1, <1>3 DEF HandlePutFile, i
<1>5. Moves(s, HandleDeleteFile(s, c, q))
  BY <1>1, <1>2 DEF HandleDeleteFile, i
<1>6. Moves(s, HandleRetain(s, c, q))
  BY <1>1, <1>2 DEF HandleRetain, i
<1>7. QED
  BY <1>4, <1>5, <1>6

-----------------------------------------------------------------------------
(* Streamed writes.                                                          *)

\* Freeing a stream's slot sends nothing.
LEMMA FreeSpfStill ==
    ASSUME NEW s, Tables(s), NEW i
    PROVE  Still(s, FreeSpf(s, i)) /\ Tables(FreeSpf(s, i)) /\ FreeSpf(s, i).put = s.put
           /\ FreeSpf(s, i).owed = s.owed
  BY StreamStill DEF FreeSpf

\* An answer owed after a stream's slot was freed.
LEMMA FreeSpfReply ==
    ASSUME NEW s, Tables(s), NEW i, NEW c, NEW op, NEW status, NEW x
    PROVE  /\ Moves(s, Reply(s, c, op, status, x))
           /\ Moves(s, Reply(FreeSpf(s, i), c, op, status, x))
           /\ Moves(s, FreeSpf(Reply(s, c, op, status, x), i))
<1> DEFINE t == FreeSpf(s, i)
           u == Reply(s, c, op, status, x)
<1>1. Still(s, t) /\ Tables(t) /\ Still(s, u) /\ Tables(u)
  BY FreeSpfStill, ReplyStill DEF Still
<1> HIDE DEF t, u
<1>2. Still(t, Reply(t, c, op, status, x)) /\ Still(u, FreeSpf(u, i))
  BY <1>1, FreeSpfStill, ReplyStill
<1>3. Still(s, Reply(t, c, op, status, x)) /\ Still(s, FreeSpf(u, i))
  BY <1>1, <1>2, StillStill
<1>4. QED
  BY <1>1, <1>3, StillMoves DEF t, u

\* A client's entry that names no PutFile slot.
LEMMA PlainEntry ==
    ASSUME NEW c, c # 0, NEW op, op \notin Composed \cup GcBody \cup RawOp, NEW i, NEW x
    PROVE  LET e == Entry(c, op, i, x)
           IN  BodyEntry(e) /\ e.cid # 0 /\ e.op \notin RawOp
  BY DEF Entry, BodyEntry

\* PUT_FILE_OPEN is taken with a move for the client.
LEMMA OpenMoves ==
    ASSUME NEW s, Tables(s), NEW c, c # 0, NEW q, q.op = "put_open"
    PROVE  Moves(s, HandlePutFileOpen(s, c, q))
<1> DEFINE i == Least(FreeSpfs(s))
           x == [open |-> TRUE, wid |-> None, key |-> q.key, dig |-> q.dig, mode |-> q.mode,
                 expect |-> q.expect, held |-> q.held]
           t == [s EXCEPT !.spf[i] = x]
           e == Entry(c, q.op, i, None)
           f == ForwardBody(t, e, BodyReq("wopen", c, q.dig))
<1>1. \A st, y : /\ Moves(s, Reply(s, c, q.op, st, y))
                 /\ Moves(s, Reply(FreeSpf(s, i), c, q.op, st, y))
  BY FreeSpfReply
<1>2. Still(s, t) /\ Tables(t)
  <2> HIDE DEF x, i
  <2>1. QED
    BY StreamStill
<1>3. BodyEntry(e) /\ e.cid # 0 /\ e.op \notin RawOp
  <2>1. q.op \notin Composed \cup GcBody \cup RawOp
    BY DEF Composed, GcBody, RawOp
  <2> HIDE DEF i
  <2>2. QED
    BY <2>1, PlainEntry
<1> HIDE DEF t, e, i
<1>4. f.ok => Moves(t, f.s)
  BY <1>2, <1>3, BodyReqSent
<1> HIDE DEF f
<1>5. f.ok => Moves(s, f.s)
  BY <1>2, <1>4, StillThen
<1>6. HandlePutFileOpen(s, c, q) =
         IF FreeSpfs(s) = {} THEN Reply(s, c, q.op, "busy", None)
         ELSE IF f.ok THEN f.s ELSE Reply(FreeSpf(s, i), c, q.op, "busy", None)
  BY DEF HandlePutFileOpen, f, t, e, i
<1>7. QED
  BY <1>1, <1>5, <1>6

\* PUT_FILE_CHUNK and PUT_FILE_COMMIT are taken with a move for the client.
LEMMA ChunkMoves ==
    ASSUME NEW s, Tables(s), NEW c, c # 0, NEW q, q.op \in {"put_chunk", "put_commit"}, NEW i
    PROVE  /\ Moves(s, HandlePutFileChunk(s, c, q, i))
           /\ Moves(s, HandlePutFileCommit(s, c, q, i))
<1> DEFINE e == Entry(c, q.op, i, None)
           w == s.spf[i].wid
           f == ForwardBody(s, e, [BodyReq("wappend", c, None) EXCEPT !.wid = w])
           g == ForwardBody(s, e, [BodyReq("wcommit", c, None) EXCEPT !.wid = w])
<1>1. \A op, st, y : /\ Moves(s, Reply(s, c, op, st, y))
                     /\ Moves(s, Reply(FreeSpf(s, i), c, op, st, y))
  BY FreeSpfReply
<1>2. BodyEntry(e) /\ e.cid # 0 /\ e.op \notin RawOp
  <2>1. q.op \notin Composed \cup GcBody \cup RawOp
    BY DEF Composed, GcBody, RawOp
  <2>2. QED
    BY <2>1, PlainEntry
<1> HIDE DEF e, w
<1>3. f.ok => Moves(s, f.s)
  BY <1>2, BodyReqSent
<1>3a. g.ok => Moves(s, g.s)
  BY <1>2, BodyReqSent
<1> HIDE DEF f, g
<1>4. HandlePutFileChunk(s, c, q, i) =
         IF s.spf[i].wid # None /\ f.ok THEN f.s ELSE Reply(s, c, q.op, "nak", None)
  BY DEF HandlePutFileChunk, f, e, w
<1>5. HandlePutFileCommit(s, c, q, i) =
         CASE s.spf[i].wid = None -> Reply(s, c, "put_file", "nak", None)
           [] s.spf[i].wid # None /\ ~g.ok -> Reply(FreeSpf(s, i), c, "put_file", "nak", None)
           [] OTHER -> g.s
  BY DEF HandlePutFileCommit, g, e, w
<1>6. QED
  BY <1>1, <1>3, <1>3a, <1>4, <1>5

\* The body plane's answers to a streamed write lead to moves for its client.
LEMMA SpfAnswerMoves ==
    ASSUME NEW s, Tables(s), NEW e, e.cid # 0, NEW a
    PROVE  /\ Moves(s, SpfOpenAnswer(s, e, a))
           /\ Moves(s, SpfChunkAnswer(s, e, a))
           /\ Moves(s, SpfCommitAnswer(s, e, a))
<1>1. \A op, st, y : /\ Moves(s, Reply(s, e.cid, op, st, y))
                     /\ Moves(s, Reply(FreeSpf(s, e.i), e.cid, op, st, y))
                     /\ Moves(s, FreeSpf(Reply(s, e.cid, op, st, y), e.i))
  BY FreeSpfReply
<1>2. Moves(s, SpfOpenAnswer(s, e, a))
  <2> DEFINE t == [s EXCEPT !.spf[e.i].wid = a.wid]
  <2>1. Still(s, t) /\ Tables(t)
    BY WidStill
  <2> HIDE DEF t
  <2>2. Moves(s, Reply(t, e.cid, e.op, "ok", e.i))
    BY <2>1, ReplyStill, StillStill, StillMoves
  <2>3. QED
    BY <1>1, <2>2 DEF SpfOpenAnswer, t
<1>3. Moves(s, SpfChunkAnswer(s, e, a))
  BY <1>1 DEF SpfChunkAnswer
<1>4. Moves(s, SpfCommitAnswer(s, e, a))
  <2> DEFINE t == FreeSpf(s, e.i)
             i == Least(FreePuts(s))
             p == [FreeSlot EXCEPT !.op = "put_file", !.cid = e.cid, !.dig = a.dig,
                                   !.key = s.spf[e.i].key, !.mode = s.spf[e.i].mode,
                                   !.expect = s.spf[e.i].expect, !.held = s.spf[e.i].held]
             u == [t EXCEPT !.put[i] = p]
  <2>1. Still(s, t) /\ Tables(t)
    BY FreeSpfStill
  <2>2. p.op = "put_file" /\ p.cid = e.cid
    BY DEF FreeSlot
  <2>3. IsSlot(p)
    BY DEF FreeSlot, IsSlot, SlotField
  <2> HIDE DEF t, p
  <2>4. GoodSlot(p)
    BY <2>2, <2>3 DEF GoodSlot, Composed
  <2>5. ASSUME FreePuts(s) # {} PROVE Moves(s, ComposedLookup(u, i))
    <3>1. i \in 1..PutFiles
      BY <2>5, FreePut
    <3> HIDE DEF i
    <3>2. Still(t, u) /\ u.put[i] = p
      BY <2>1, <2>4, <3>1, SlotStill
    <3> HIDE DEF u
    <3>3. Still(s, u) /\ Tables(u) /\ Live(u, i)
      BY <2>1, <2>2, <3>1, <3>2, StillStill DEF Live, Composed, Still
    <3>4. QED
      BY <3>3, LookupMoves, StillThen
  <2> HIDE DEF u, i
  <2>6. SpfCommitAnswer(s, e, a) =
          CASE a.v # "ok" \/ a.dig # s.spf[e.i].dig -> Reply(t, e.cid, "put_file", "nak", None)
            [] a.v = "ok" /\ a.dig = s.spf[e.i].dig /\ FreePuts(s) = {} ->
                  Reply(t, e.cid, "put_file", "busy", None)
            [] OTHER -> ComposedLookup(u, i)
    BY DEF SpfCommitAnswer, u, t, i, p
  <2>7. \A st : Moves(s, Reply(t, e.cid, "put_file", st, None))
    BY <1>1 DEF t
  <2>8. QED
    BY <2>5, <2>6, <2>7
<1>5. QED
  BY <1>2, <1>3, <1>4

-----------------------------------------------------------------------------
(* Operations of one or two requests, and every move made for a client.      *)

\* Owing an answer is a move for a client.
LEMMA ReplyMoves ==
    ASSUME NEW s, Tables(s), NEW c, NEW op, NEW status, NEW x
    PROVE  Moves(s, Reply(s, c, op, status, x))
  BY ReplyStill, StillMoves

\* A request to the namespace, or the refusal it could not be sent with.
LEMMA NsOrReply ==
    ASSUME NEW s, Tables(s), NEW e, NEW r, ClientNs(e, r), NEW c, NEW q, NEW status
    PROVE  Moves(s, OrReply(ForwardNs(s, e, r), c, q, status))
<1> DEFINE f == ForwardNs(s, e, r)
<1>1. /\ ~f.ok => f.s = s
      /\ f.ok => /\ Tables(f.s) /\ SentNs(s, f.s, e, r) /\ SameBody(s, f.s)
                 /\ SameObj(s, f.s) /\ f.s.gc = s.gc /\ f.s.raw = s.raw
  BY ForwardsNs
<1> HIDE DEF f
<1>2. f.ok => Moves(s, f.s)
  BY <1>1 DEF Moves
<1>3. ~f.ok => Moves(s, Reply(f.s, c, q.op, status, None))
  BY <1>1, ReplyMoves
<1>4. QED
  BY <1>2, <1>3 DEF OrReply, f

\* A client's entry that names no slot, at the namespace.
LEMMA PlainNs ==
    ASSUME NEW c, c # 0, NEW x, NEW r, r.op # "release",
           NEW op \in {"get_file", "stat", "range", "bind", "begin", "commit", "lookup",
                       "lease", "list"}
    PROVE  ClientNs(Entry(c, op, 0, x), r)
  BY DEF Entry, ClientNs, NsEntry, Composed, GcNs

\* A request to the body plane, or the refusal it could not be sent with.
LEMMA BodyOrReply ==
    ASSUME NEW s, Tables(s), NEW c, c # 0, NEW q, q.op \in {"put_body", "get_body"},
           NEW op, NEW d, NEW status
    PROVE  Moves(s, OrReply(ForwardBody(s, Entry(c, q.op, 0, None), BodyReq(op, c, d)),
                            c, q, status))
<1> DEFINE e == Entry(c, q.op, 0, None)
           f == ForwardBody(s, e, BodyReq(op, c, d))
<1>1. BodyEntry(e) /\ e.cid # 0 /\ e.op \notin RawOp
  <2>1. q.op \notin Composed \cup GcBody \cup RawOp
    BY DEF Composed, GcBody, RawOp
  <2>2. QED
    BY <2>1, PlainEntry
<1> HIDE DEF e
<1>2. (f.ok => Moves(s, f.s)) /\ (~f.ok => f.s = s)
  BY <1>1, BodyReqSent
<1> HIDE DEF f
<1>3. ~f.ok => Moves(s, Reply(f.s, c, q.op, status, None))
  BY <1>2, ReplyMoves
<1>4. QED
  BY <1>2, <1>3 DEF OrReply, f, e

\* The lookup behind a read through a path leads to a move for the client.
LEMMA LookupAnswerMoves ==
    ASSUME NEW s, Tables(s), NEW e, e.cid # 0, e.op \in {"get_file", "stat", "range"}, NEW a
    PROVE  /\ Moves(s, GetFileLookupAnswer(s, e, a))
           /\ Moves(s, PathReadLookupAnswer(s, e, a))
<1> DEFINE g == Entry(e.cid, e.op, 0, None)
           f == ForwardBody(s, g, BodyReq("get", e.cid, a.obj))
<1>1. BodyEntry(g) /\ g.cid # 0 /\ g.op \notin RawOp
  <2>1. e.op \notin Composed \cup GcBody \cup RawOp
    BY DEF Composed, GcBody, RawOp
  <2>2. QED
    BY <2>1, PlainEntry
<1> HIDE DEF g
<1>2. f.ok => Moves(s, f.s)
  BY <1>1, BodyReqSent
<1> HIDE DEF f
<1>3. \A st : Moves(s, Reply(s, e.cid, e.op, st, None))
  BY ReplyMoves
<1>4. GetFileLookupAnswer(s, e, a) =
        CASE ResolveRead(e, a) # "ok" -> Reply(s, e.cid, e.op, ResolveRead(e, a), None)
          [] ResolveRead(e, a) = "ok" /\ ~f.ok -> Reply(s, e.cid, e.op, "busy", None)
          [] OTHER -> f.s
  BY DEF GetFileLookupAnswer, f, g
<1>5. PathReadLookupAnswer(s, e, a) =
        CASE ResolveRead(e, a) # "ok" -> Reply(s, e.cid, e.op, ResolveRead(e, a), None)
          [] ResolveRead(e, a) = "ok" /\ ~f.ok -> Reply(s, e.cid, e.op, "nak", None)
          [] OTHER -> f.s
  BY DEF PathReadLookupAnswer, f, g
<1>6. QED
  BY <1>2, <1>3, <1>4, <1>5

\* The operations of one request to the namespace are moves for a client.
LEMMA SimpleMoves ==
    ASSUME NEW s, Tables(s), NEW c, c # 0, NEW q
    PROVE  /\ q.op = "bind" => Moves(s, HandleBind(s, c, q))
           /\ q.op = "lease" => Moves(s, HandleLease(s, c, q))
           /\ q.op \in {"begin", "commit"} => Moves(s, HandleVolume(s, c, q))
           /\ q.op = "lookup" => Moves(s, HandleLookup(s, c, q))
           /\ q.op = "list" => Moves(s, HandleListFiles(s, c, q))
           /\ q.op = "get_file" => Moves(s, HandleGetFile(s, c, q))
           /\ q.op \in {"stat", "range"} => Moves(s, HandlePathRead(s, c, q))
<1>1. ASSUME NEW x, NEW r, r.op # "release",
             q.op \in {"get_file", "stat", "range", "bind", "begin", "commit", "lookup",
                       "lease", "list"}
      PROVE  Moves(s, OrReply(ForwardNs(s, Entry(c, q.op, 0, x), r), c, q, "busy"))
  <2>1. ClientNs(Entry(c, q.op, 0, x), r)
    BY <1>1, PlainNs
  <2>2. QED
    BY <2>1, NsOrReply
<1>2. ASSUME q.op = "bind" PROVE Moves(s, HandleBind(s, c, q))
  <2>1. [NsReq("bind", c) EXCEPT !.key = q.key, !.dig = q.dig, !.rev = q.rev].op # "release"
    BY DEF NsReq
  <2>2. QED
    BY <1>1, <1>2, <2>1 DEF HandleBind
<1>3. ASSUME q.op = "lease" PROVE Moves(s, HandleLease(s, c, q))
  <2>1. NsReq("lease", c).op # "release"
    BY DEF NsReq
  <2>2. QED
    BY <1>1, <1>3, <2>1 DEF HandleLease
<1>4. ASSUME q.op \in {"begin", "commit"} PROVE Moves(s, HandleVolume(s, c, q))
  <2>1. [NsReq(q.op, c) EXCEPT !.key = q.key, !.dig = q.dig, !.rev = q.rev].op # "release"
    BY <1>4 DEF NsReq
  <2>2. QED
    BY <1>1, <1>4, <2>1 DEF HandleVolume
<1>5. [NsReq("lookup", c) EXCEPT !.key = q.key].op # "release" /\ NsReq("list", c).op # "release"
  BY DEF NsReq
<1>6. ASSUME q.op = "lookup" PROVE Moves(s, HandleLookup(s, c, q))
  BY <1>1, <1>5, <1>6 DEF HandleLookup
<1>7. ASSUME q.op = "list" PROVE Moves(s, HandleListFiles(s, c, q))
  BY <1>1, <1>5, <1>7 DEF HandleListFiles
<1>8. ASSUME q.op = "get_file" PROVE Moves(s, HandleGetFile(s, c, q))
  BY <1>1, <1>5, <1>8 DEF HandleGetFile
<1>9. ASSUME q.op \in {"stat", "range"} PROVE Moves(s, HandlePathRead(s, c, q))
  BY <1>1, <1>5, <1>9 DEF HandlePathRead
<1>10. QED
  BY <1>2, <1>3, <1>4, <1>6, <1>7, <1>8, <1>9

\* A client's request outside the raw plane.
LEMMA HandleMoves ==
    ASSUME NEW s, Tables(s), NEW c, c # 0, NEW q, q.op \in AskOp \ RawOp, NEW i
    PROVE  Moves(s, Handle(s, c, q, i))
<1>1. CASE q.op \in Composed
  BY <1>1, PutFileMoves DEF Handle, Composed
<1>2. CASE q.op \in {"put_body", "get_body"}
  <2>1. Moves(s, HandlePutBody(s, c, q)) /\ Moves(s, HandleGetBody(s, c, q))
    BY <1>2, BodyOrReply DEF HandlePutBody, HandleGetBody
  <2>2. QED
    BY <1>2, <2>1 DEF Handle
<1>3. CASE q.op = "put_open"
  BY <1>3, OpenMoves DEF Handle
<1>4. CASE q.op \in {"put_chunk", "put_commit"}
  <2>1. /\ Moves(s, HandlePutFileChunk(s, c, q, i)) /\ Moves(s, HandlePutFileCommit(s, c, q, i))
    BY <1>4, ChunkMoves
  <2>2. QED
    BY <1>4, <2>1 DEF Handle
<1>5. CASE q.op \in {"bind", "lease", "begin", "commit", "lookup", "list", "get_file", "stat",
                     "range"}
  <2>1. /\ q.op = "bind" => Moves(s, HandleBind(s, c, q))
        /\ q.op = "lease" => Moves(s, HandleLease(s, c, q))
        /\ q.op \in {"begin", "commit"} => Moves(s, HandleVolume(s, c, q))
        /\ q.op = "lookup" => Moves(s, HandleLookup(s, c, q))
        /\ q.op = "list" => Moves(s, HandleListFiles(s, c, q))
        /\ q.op = "get_file" => Moves(s, HandleGetFile(s, c, q))
        /\ q.op \in {"stat", "range"} => Moves(s, HandlePathRead(s, c, q))
    BY SimpleMoves
  <2>2. QED
    BY <1>5, <2>1 DEF Handle
<1>6. QED
  BY <1>1, <1>2, <1>3, <1>4, <1>5 DEF AskOp, RawOp, Composed

\* An answer for a client outside the raw plane.
LEMMA HandleNsMoves ==
    ASSUME NEW s, Tables(s), NEW e, NsEntry(e), e.cid # 0, e.op # "raw", NEW a
    PROVE  Moves(s, HandleNs(s, e, a))
<1>1. CASE e.op \in Composed
  <2>1. Moves(s, ComposedNsAnswer(s, e, a))
    BY <1>1, NsAnswerMoves DEF NsEntry
  <2>2. QED
    BY <1>1, <2>1 DEF HandleNs, Composed
<1>2. CASE e.op \in {"get_file", "stat", "range"}
  <2>1. Moves(s, GetFileLookupAnswer(s, e, a)) /\ Moves(s, PathReadLookupAnswer(s, e, a))
    BY <1>2, LookupAnswerMoves
  <2>2. QED
    BY <1>2, <2>1 DEF HandleNs
<1>3. CASE e.op \in {"bind", "begin", "commit", "lookup", "lease", "list"}
  <2>1. \A st, x : Moves(s, Reply(s, e.cid, e.op, st, x))
    BY ReplyMoves
  <2>2. QED
    BY <1>3, <2>1 DEF HandleNs
<1>4. QED
  BY <1>1, <1>2, <1>3 DEF NsEntry

\* The same, of the body plane's answers.
LEMMA HandleBodyMoves ==
    ASSUME NEW s, Tables(s), NEW e, BodyEntry(e), e.cid # 0, e.op \notin RawOp, NEW a
    PROVE  Moves(s, HandleBody(s, e, a))
<1>1. CASE e.op = "put_file"
  <2>1. Moves(s, PutFileBodyAnswer(s, e, a))
    BY <1>1, BodyAnswerMoves DEF BodyEntry, Composed
  <2>2. QED
    BY <1>1, <2>1 DEF HandleBody
<1>2. CASE e.op \in {"put_open", "put_chunk", "put_commit"}
  <2>1. /\ Moves(s, SpfOpenAnswer(s, e, a)) /\ Moves(s, SpfChunkAnswer(s, e, a))
        /\ Moves(s, SpfCommitAnswer(s, e, a))
    BY SpfAnswerMoves
  <2>2. QED
    BY <1>2, <2>1 DEF HandleBody
<1>3. CASE e.op \notin {"put_file", "put_open", "put_chunk", "put_commit"}
  <2>1. \A st, x : Moves(s, Reply(s, e.cid, e.op, st, x))
    BY ReplyMoves
  <2>2. e.op \notin {"delete_body", "put_keyed", "gc_scan", "gc_root", "gc_leaf", "gc_delete"}
    BY DEF BodyEntry, GcBody, RawOp
  <2>3. HandleBody(s, e, a) = Reply(s, e.cid, e.op, BodyStatus(a.v), a.dig)
    BY <1>3, <2>2 DEF HandleBody
  <2>4. QED
    BY <2>1, <2>3
<1>4. QED
  BY <1>1, <1>2, <1>3

\* The same, of the index's answers.
LEMMA HandleObjMoves ==
    ASSUME NEW s, Tables(s), NEW e, ObjEntry(e), e.cid # 0, NEW a
    PROVE  Moves(s, HandleObj(s, e, a))
<1>1. Moves(s, PutFileObjectAnswer(s, e, a))
  BY ObjectAnswerMoves DEF ObjEntry
<1>2. QED
  BY <1>1 DEF HandleObj, ObjEntry, GcObj

-----------------------------------------------------------------------------
(* What a move that sends keeps.                                             *)

\* Duties read the sweep's record and whether the raw plane is idle.
LEMMA DutySame ==
    ASSUME NEW s, NEW t, t.gc = s.gc, t.raw = s.raw, NEW n, NEW op, NEW x
    PROVE  /\ Duty(t, n, op) <=> Duty(s, n, op)
           /\ Asks(t, op, x) <=> Asks(s, op, x)
           /\ Hears(t, n, op, x) <=> Hears(s, n, op, x)
  BY DEF Duty, Asks, Hears, Candidate

\* A move that sends at most one request to each plane.
AddsNs(s, t) == \/ SameNs(s, t)
                \/ \E e, q : /\ SentNs(s, t, e, q) /\ NsEntry(e)
                             /\ q.op = "release" => e.op \in {"gc_release", "raw"}
AddsBody(s, t) == \/ SameBody(s, t)
                  \/ \E e, q : SentBody(s, t, e, q) /\ BodyEntry(e) /\ (e.cid = 0 <=> q.cid = 0)
AddsObj(s, t) == SameObj(s, t) \/ \E e, q : SentObj(s, t, e, q) /\ ObjEntry(e)

\* A queue answered in order: u the entries, v the requests, h the answers.
InStep(u, v, h) == IsSeq(u) /\ IsSeq(v) /\ IsSeq(h) /\ Len(u) = Len(h) + Len(v)
\* After entry e and request q.
OneMore(u, v, h, e, q, w, x) ==
    /\ InStep(w, x, h)
    /\ \A j \in 1..Len(w) : \/ j \in 1..Len(u) /\ w[j] = u[j]
                            \/ j = Len(u) + 1 /\ w[j] = e
    /\ \A j \in 1..Len(x) : \/ /\ j \in 1..Len(v) /\ x[j] = v[j]
                               /\ Len(h) + j \in 1..Len(u) /\ w[Len(h) + j] = u[Len(h) + j]
                            \/ j = Len(v) + 1 /\ x[j] = q /\ w[Len(h) + j] = e

\* An entry and its request, appended, stay in step with the answers.
LEMMA InStepSent ==
    ASSUME NEW u, NEW v, NEW h, InStep(u, v, h), NEW e, NEW q, NEW w, NEW x,
           w = Append(u, e), x = Append(v, q)
    PROVE  OneMore(u, v, h, e, q, w, x)
<1>1. Len(u) \in Nat /\ Len(v) \in Nat /\ Len(h) \in Nat /\ Len(u) = Len(h) + Len(v)
  BY IsSeqLen DEF InStep
<1>2. /\ IsSeq(w) /\ Len(w) = Len(u) + 1 /\ \A i \in 1..Len(u) : w[i] = u[i]
      /\ w[Len(u) + 1] = e
  BY SeqAppend DEF InStep
<1>3. /\ IsSeq(x) /\ Len(x) = Len(v) + 1 /\ \A i \in 1..Len(v) : x[i] = v[i]
      /\ x[Len(v) + 1] = q
  BY SeqAppend DEF InStep
<1>4. Len(w) = Len(h) + Len(x)
  <2>1. Len(w) = Len(u) + 1 /\ Len(x) = Len(v) + 1
    BY <1>2, <1>3
  <2>2. QED
    BY <1>1, <2>1
<1>5. \A j \in 1..Len(w) : j \in 1..Len(u) \/ j = Len(u) + 1
  BY <1>1, <1>2
<1>6. \A j \in 1..Len(x) : \/ j \in 1..Len(v) /\ Len(h) + j \in 1..Len(u)
                           \/ j = Len(v) + 1 /\ Len(h) + j = Len(u) + 1
  <2>1. Len(x) = Len(v) + 1
    BY <1>3
  <2>2. QED
    BY <1>1, <2>1
<1>7. QED
  BY <1>2, <1>3, <1>4, <1>5, <1>6 DEF InStep, OneMore

\* The planes that answer in order still do.
LEMMA AddsNsInOrder ==
    ASSUME NEW s, NEW t, NEW a, Tables(s), Answers(a), InOrderAnswers(s, a), AddsNs(s, t)
    PROVE  /\ Len(t.nsPend) = Len(a.ns) + Len(t.nsTx)
           /\ \A j \in 1..Len(t.nsPend) : NsEntry(t.nsPend[j])
           /\ \A j \in 1..Len(t.nsTx) :
                 t.nsTx[j].op = "release" => t.nsPend[Len(a.ns) + j].op \in {"gc_release", "raw"}
<1>1. InStep(s.nsPend, s.nsTx, a.ns)
  BY DEF InStep, Tables, Answers, InOrderAnswers
<1>2. CASE SameNs(s, t)
  BY <1>2 DEF SameNs, InOrderAnswers
<1>3. ASSUME NEW e, NEW q, SentNs(s, t, e, q), NsEntry(e),
             q.op = "release" => e.op \in {"gc_release", "raw"}
      PROVE  /\ Len(t.nsPend) = Len(a.ns) + Len(t.nsTx)
             /\ \A j \in 1..Len(t.nsPend) : NsEntry(t.nsPend[j])
             /\ \A j \in 1..Len(t.nsTx) :
                   t.nsTx[j].op = "release" =>
                      t.nsPend[Len(a.ns) + j].op \in {"gc_release", "raw"}
  <2> DEFINE u == s.nsPend
             v == s.nsTx
             w == t.nsPend
             x == t.nsTx
             h == a.ns
  <2>1. w = Append(u, e) /\ x = Append(v, q)
    BY <1>3 DEF SentNs
  <2>2. /\ \A j \in 1..Len(u) : NsEntry(u[j])
        /\ \A j \in 1..Len(v) : v[j].op = "release" => u[Len(h) + j].op \in {"gc_release", "raw"}
    BY DEF InOrderAnswers
  <2> HIDE DEF u, v, w, x, h
  <2>3. InStep(u, v, h)
    BY <1>1 DEF u, v, h
  <2>4. OneMore(u, v, h, e, q, w, x)
    BY <2>1, <2>3, InStepSent
  <2>5. Len(w) = Len(h) + Len(x)
    BY <2>4 DEF InStep, OneMore
  <2>6. \A j \in 1..Len(w) : NsEntry(w[j])
    BY <1>3, <2>2, <2>4 DEF OneMore
  <2>7. \A j \in 1..Len(x) : x[j].op = "release" => w[Len(h) + j].op \in {"gc_release", "raw"}
    BY <1>3, <2>2, <2>4 DEF OneMore
  <2>8. QED
    BY <2>5, <2>6, <2>7 DEF w, x, h
<1>4. QED
  BY <1>2, <1>3 DEF AddsNs

\* The same, of the object index.
LEMMA AddsObjInOrder ==
    ASSUME NEW s, NEW t, NEW a, Tables(s), Answers(a), InOrderAnswers(s, a), AddsObj(s, t)
    PROVE  /\ Len(t.objPend) = Len(a.obj) + Len(t.objTx)
           /\ \A j \in 1..Len(t.objPend) : ObjEntry(t.objPend[j])
<1>1. InStep(s.objPend, s.objTx, a.obj)
  BY DEF InStep, Tables, Answers, InOrderAnswers
<1>2. CASE SameObj(s, t)
  BY <1>2 DEF SameObj, InOrderAnswers
<1>3. ASSUME NEW e, NEW q, SentObj(s, t, e, q), ObjEntry(e)
      PROVE  /\ Len(t.objPend) = Len(a.obj) + Len(t.objTx)
             /\ \A j \in 1..Len(t.objPend) : ObjEntry(t.objPend[j])
  <2> DEFINE u == s.objPend
             v == s.objTx
             w == t.objPend
             x == t.objTx
             h == a.obj
  <2>1. w = Append(u, e) /\ x = Append(v, q)
    BY <1>3 DEF SentObj
  <2>2. \A j \in 1..Len(u) : ObjEntry(u[j])
    BY DEF InOrderAnswers
  <2> HIDE DEF u, v, w, x, h
  <2>3. InStep(u, v, h)
    BY <1>1 DEF u, v, h
  <2>4. OneMore(u, v, h, e, q, w, x)
    BY <2>1, <2>3, InStepSent
  <2>5. Len(w) = Len(h) + Len(x)
    BY <2>4 DEF InStep, OneMore
  <2>6. \A j \in 1..Len(w) : ObjEntry(w[j])
    BY <1>3, <2>2, <2>4 DEF OneMore
  <2>8. QED
    BY <2>5, <2>6 DEF w, x, h
<1>4. QED
  BY <1>2, <1>3 DEF AddsObj

\* Both together.
LEMMA AddsInOrder ==
    ASSUME NEW s, NEW t, NEW a, Tables(s), Answers(a), InOrderAnswers(s, a),
           AddsNs(s, t), AddsObj(s, t)
    PROVE  InOrderAnswers(t, a)
  BY AddsNsInOrder, AddsObjInOrder DEF InOrderAnswers

\* The body plane's answers are still told apart by their ids.
LEMMA AddsById ==
    ASSUME NEW s, NEW t, NEW a, Tables(s), AddsBody(s, t), ById(s, a)
    PROVE  /\ ById(t, a)
           /\ \A p \in s.bodyPend : \A i \in 1..Len(t.bodyTx) :
                 t.bodyTx[i].id = p.id => i \in 1..Len(s.bodyTx) /\ t.bodyTx[i] = s.bodyTx[i]
<1>1. IsSeq(s.bodyTx) /\ Len(s.bodyTx) \in Nat
  BY IsSeqLen DEF Tables
<1>2. CASE SameBody(s, t)
  BY <1>1, <1>2 DEF SameBody, ById
<1>3. ASSUME NEW e, NEW q, SentBody(s, t, e, q), BodyEntry(e), e.cid = 0 <=> q.cid = 0
      PROVE  /\ ById(t, a)
             /\ \A p \in s.bodyPend : \A i \in 1..Len(t.bodyTx) :
                   t.bodyTx[i].id = p.id => i \in 1..Len(s.bodyTx) /\ t.bodyTx[i] = s.bodyTx[i]
  <2> DEFINE m == Len(s.bodyTx)
             new == [id |-> q.id, e |-> e]
  <2>1. /\ Len(t.bodyTx) = m + 1 /\ t.bodyTx[m + 1] = q
        /\ \A j \in 1..m : t.bodyTx[j] = s.bodyTx[j]
    BY <1>1, <1>3, SeqAppend DEF SentBody
  <2>2. /\ t.bodyPend = s.bodyPend \cup {new} /\ new.id = q.id /\ new.e = e
        /\ \A p \in s.bodyPend : p.id # q.id
    BY <1>3 DEF SentBody
  <2> HIDE DEF m, new
  <2>4. m \in Nat /\ \A j \in 1..Len(t.bodyTx) : j \in 1..m \/ j = m + 1
    BY <1>1, <2>1 DEF m
  <2>5. /\ \A p, r \in t.bodyPend : p.id = r.id => p = r
        /\ \A p \in t.bodyPend : BodyEntry(p.e)
    BY <1>3, <2>2 DEF ById
  <2>6. /\ \A i \in 1..m : s.bodyTx[i].id # q.id
        /\ \A r \in a.body : r.id # q.id
    BY <2>2 DEF ById, m
  <2>7. ASSUME NEW i \in 1..Len(t.bodyTx)
        PROVE  /\ \E p \in t.bodyPend : p.id = t.bodyTx[i].id /\ (p.e.cid = 0 <=> t.bodyTx[i].cid = 0)
               /\ \A r \in a.body : r.id # t.bodyTx[i].id
    <3>1. CASE i = m + 1
      BY <1>3, <2>1, <2>2, <2>6, <3>1
    <3>2. CASE i \in 1..m
      BY <2>1, <2>2, <3>2 DEF ById, m
    <3>3. QED
      BY <2>4, <3>1, <3>2
  <2>8. \A i, j \in 1..Len(t.bodyTx) : t.bodyTx[i].id = t.bodyTx[j].id => i = j
    <3>1. \A i, j \in 1..m : s.bodyTx[i].id = s.bodyTx[j].id => i = j
      BY DEF ById, m
    <3>2. QED
      BY <2>1, <2>4, <2>6, <3>1
  <2>9. \A r \in a.body : /\ \E p \in t.bodyPend : p.id = r.id
                          /\ \A u \in a.body : u.id = r.id => u = r
    BY <2>2 DEF ById
  <2>10. ById(t, a)
    BY <2>5, <2>7, <2>8, <2>9 DEF ById
  <2>11. \A p \in s.bodyPend : \A i \in 1..Len(t.bodyTx) :
            t.bodyTx[i].id = p.id => i \in 1..m /\ t.bodyTx[i] = s.bodyTx[i]
    BY <2>1, <2>2, <2>4
  <2>12. QED
    BY <2>10, <2>11 DEF m
<1>4. QED
  BY <1>2, <1>3 DEF AddsBody

\* Every entry of w is an old one with its old request, or the new one with its own.
Entries(u, v, h, e, q, w, x) ==
    \A j \in 1..Len(w) :
       \/ /\ j \in 1..Len(u) /\ w[j] = u[j]
          /\ ~(j <= Len(h)) => x[j - Len(h)] = v[j - Len(h)]
       \/ j = Len(u) + 1 /\ w[j] = e /\ ~(j <= Len(h)) /\ x[j - Len(h)] = q

\* An appended entry has the appended request, and the others keep theirs.
LEMMA OneMoreEntries ==
    ASSUME NEW u, NEW v, NEW h, InStep(u, v, h), NEW e, NEW q, NEW w, NEW x,
           w = Append(u, e), x = Append(v, q)
    PROVE  Entries(u, v, h, e, q, w, x)
<1>1. Len(u) \in Nat /\ Len(v) \in Nat /\ Len(h) \in Nat /\ Len(u) = Len(h) + Len(v)
  BY IsSeqLen DEF InStep
<1>2. /\ IsSeq(w) /\ Len(w) = Len(u) + 1 /\ \A i \in 1..Len(u) : w[i] = u[i]
      /\ w[Len(u) + 1] = e
  BY SeqAppend DEF InStep
<1>3. /\ \A i \in 1..Len(v) : x[i] = v[i]
      /\ x[Len(v) + 1] = q
  BY SeqAppend DEF InStep
<1>4. \A j \in 1..Len(w) :
         \/ j \in 1..Len(u) /\ (~(j <= Len(h)) => j - Len(h) \in 1..Len(v))
         \/ j = Len(u) + 1 /\ ~(j <= Len(h)) /\ j - Len(h) = Len(v) + 1
  <2>1. Len(w) = Len(u) + 1
    BY <1>2
  <2>2. QED
    BY <1>1, <2>1
<1>5. QED
  BY <1>2, <1>3, <1>4 DEF Entries

\* An entry of a table after a move: an old one, with the request it had, or the new one.
NsKept(s, t, a, j) == /\ j \in 1..Len(s.nsPend) /\ t.nsPend[j] = s.nsPend[j]
                      /\ ~(j <= Len(a.ns)) => t.nsTx[j - Len(a.ns)] = s.nsTx[j - Len(a.ns)]
ObjKept(s, t, a, j) == /\ j \in 1..Len(s.objPend) /\ t.objPend[j] = s.objPend[j]
                       /\ ~(j <= Len(a.obj)) => t.objTx[j - Len(a.obj)] = s.objTx[j - Len(a.obj)]
NsNew(s, t, a, e, q, j) == /\ j = Len(s.nsPend) + 1 /\ t.nsPend[j] = e
                           /\ ~(j <= Len(a.ns)) /\ t.nsTx[j - Len(a.ns)] = q
ObjNew(s, t, a, e, q, j) == /\ j = Len(s.objPend) + 1 /\ t.objPend[j] = e
                            /\ ~(j <= Len(a.obj)) /\ t.objTx[j - Len(a.obj)] = q

\* After a request to the namespace every entry is an old one or the new one.
LEMMA SentNsEntries ==
    ASSUME NEW s, NEW t, NEW a, Tables(s), Answers(a), InOrderAnswers(s, a),
           NEW e, NEW q, SentNs(s, t, e, q)
    PROVE  \A j \in 1..Len(t.nsPend) : NsKept(s, t, a, j) \/ NsNew(s, t, a, e, q, j)
<1> DEFINE u == s.nsPend
           v == s.nsTx
           w == t.nsPend
           x == t.nsTx
           h == a.ns
<1>1. InStep(u, v, h) /\ w = Append(u, e) /\ x = Append(v, q)
  BY DEF InStep, Tables, Answers, InOrderAnswers, SentNs
<1> HIDE DEF u, v, w, x, h
<1>2. Entries(u, v, h, e, q, w, x)
  BY <1>1, OneMoreEntries
<1>3. QED
  BY <1>2, Zenon DEF Entries, NsKept, NsNew, u, v, w, x, h

\* After a request to the index every entry is an old one or the new one.
LEMMA SentObjEntries ==
    ASSUME NEW s, NEW t, NEW a, Tables(s), Answers(a), InOrderAnswers(s, a),
           NEW e, NEW q, SentObj(s, t, e, q)
    PROVE  \A j \in 1..Len(t.objPend) : ObjKept(s, t, a, j) \/ ObjNew(s, t, a, e, q, j)
<1> DEFINE u == s.objPend
           v == s.objTx
           w == t.objPend
           x == t.objTx
           h == a.obj
<1>1. InStep(u, v, h) /\ w = Append(u, e) /\ x = Append(v, q)
  BY DEF InStep, Tables, Answers, InOrderAnswers, SentObj
<1> HIDE DEF u, v, w, x, h
<1>2. Entries(u, v, h, e, q, w, x)
  BY <1>1, OneMoreEntries
<1>3. QED
  BY <1>2, Zenon DEF Entries, ObjKept, ObjNew, u, v, w, x, h

\* A move made for a client.
LEMMA MovesCore ==
    ASSUME NEW s, NEW t, NEW n, NEW a, Core(s, n, a), Moves(s, t)
    PROVE  Core(t, n, a)
<1>1. /\ Tables(s) /\ Answers(a) /\ Names(n) /\ InOrderAnswers(s, a) /\ ById(s, a) /\ RawOne(s)
      /\ NsOne(s, n, a) /\ BodyOne(s, n, a) /\ ObjOne(s, n, a)
  BY DEF Core, Sweeps
<1>2. /\ Tables(t) /\ t.gc = s.gc /\ t.raw = s.raw
      /\ SameNs(s, t) \/ \E e, q : SentNs(s, t, e, q) /\ ClientNs(e, q)
      /\ SameBody(s, t) \/ \E e, q : SentBody(s, t, e, q) /\ ClientBody(e, q)
      /\ SameObj(s, t) \/ \E e, q : SentObj(s, t, e, q) /\ ClientObj(e)
  BY DEF Moves
<1>3. AddsNs(s, t) /\ AddsBody(s, t) /\ AddsObj(s, t)
  BY <1>2 DEF AddsNs, AddsBody, AddsObj, ClientNs, ClientBody, ClientObj
<1>4. /\ InOrderAnswers(t, a) /\ ById(t, a)
      /\ \A p \in s.bodyPend : \A i \in 1..Len(t.bodyTx) :
            t.bodyTx[i].id = p.id => i \in 1..Len(s.bodyTx) /\ t.bodyTx[i] = s.bodyTx[i]
  BY <1>1, <1>3, AddsInOrder, AddsById
<1>5. \A j \in 1..Len(t.nsPend) : t.nsPend[j].cid = 0 \/ t.nsPend[j].op = "raw" => NsKept(s, t, a, j)
  <2>1. CASE SameNs(s, t)
    BY <2>1 DEF SameNs, NsKept
  <2>2. ASSUME NEW e, NEW q, SentNs(s, t, e, q), ClientNs(e, q),
               NEW j \in 1..Len(t.nsPend), t.nsPend[j].cid = 0 \/ t.nsPend[j].op = "raw"
        PROVE  NsKept(s, t, a, j)
    <3>1. NsKept(s, t, a, j) \/ NsNew(s, t, a, e, q, j)
      BY <1>1, <2>2, SentNsEntries
    <3>2. QED
      BY <2>2, <3>1 DEF NsNew, ClientNs
  <2>3. QED
    BY <1>2, <2>1, <2>2
<1>6. \A j \in 1..Len(t.objPend) : t.objPend[j].cid = 0 => ObjKept(s, t, a, j)
  <2>1. CASE SameObj(s, t)
    BY <2>1 DEF SameObj, ObjKept
  <2>2. ASSUME NEW e, NEW q, SentObj(s, t, e, q), ClientObj(e),
               NEW j \in 1..Len(t.objPend), t.objPend[j].cid = 0
        PROVE  ObjKept(s, t, a, j)
    <3>1. ObjKept(s, t, a, j) \/ ObjNew(s, t, a, e, q, j)
      BY <1>1, <2>2, SentObjEntries
    <3>2. QED
      BY <2>2, <3>1 DEF ObjNew, ClientObj
  <2>3. QED
    BY <1>2, <2>1, <2>2
<1>7. \A p \in t.bodyPend : p.e.cid = 0 \/ p.e.op \in RawOp => p \in s.bodyPend
  BY <1>2 DEF SameBody, SentBody, ClientBody
<1>8. RawOne(t)
  BY <1>1, <1>2, <1>5, <1>7 DEF RawOne, NsKept
<1>9. NsOne(t, n, a)
  <2> SUFFICES ASSUME NEW j \in 1..Len(t.nsPend), t.nsPend[j].cid = 0
      PROVE  /\ \A i \in 1..Len(t.nsPend) : t.nsPend[i].cid = 0 => i = j
             /\ \A p \in t.bodyPend : p.e.cid # 0
             /\ \A i \in 1..Len(t.objPend) : t.objPend[i].cid # 0
             /\ Duty(t, n, t.nsPend[j].op)
             /\ IF j <= Len(a.ns) THEN Hears(t, n, t.nsPend[j].op, a.ns[j])
                ELSE Asks(t, t.nsPend[j].op, t.nsTx[j - Len(a.ns)])
    BY DEF NsOne
  <2>1. NsKept(s, t, a, j)
    BY <1>5
  <2>2. j \in 1..Len(s.nsPend) /\ t.nsPend[j] = s.nsPend[j]
    BY <2>1 DEF NsKept
  <2>3. /\ \A i \in 1..Len(s.nsPend) : s.nsPend[i].cid = 0 => i = j
        /\ \A p \in s.bodyPend : p.e.cid # 0
        /\ \A i \in 1..Len(s.objPend) : s.objPend[i].cid # 0
        /\ Duty(s, n, s.nsPend[j].op)
        /\ IF j <= Len(a.ns) THEN Hears(s, n, s.nsPend[j].op, a.ns[j])
           ELSE Asks(s, s.nsPend[j].op, s.nsTx[j - Len(a.ns)])
    BY <1>1, <2>2 DEF NsOne
  <2>4. \A i \in 1..Len(t.nsPend) : t.nsPend[i].cid = 0 => i = j
    BY <1>5, <2>3 DEF NsKept
  <2>5. \A i \in 1..Len(t.objPend) : t.objPend[i].cid # 0
    BY <1>6, <2>3 DEF ObjKept
  <2>6. Duty(t, n, t.nsPend[j].op)
    BY <1>2, <2>2, <2>3, DutySame
  <2>7. IF j <= Len(a.ns) THEN Hears(t, n, t.nsPend[j].op, a.ns[j])
        ELSE Asks(t, t.nsPend[j].op, t.nsTx[j - Len(a.ns)])
    BY <1>2, <2>1, <2>2, <2>3, DutySame DEF NsKept
  <2>8. QED
    BY <1>7, <2>3, <2>4, <2>5, <2>6, <2>7
<1>10. BodyOne(t, n, a)
  <2> SUFFICES ASSUME NEW p \in t.bodyPend, p.e.cid = 0
      PROVE  /\ \A q \in t.bodyPend : q.e.cid = 0 => q = p
             /\ \A i \in 1..Len(t.objPend) : t.objPend[i].cid # 0
             /\ Duty(t, n, p.e.op)
             /\ \A i \in 1..Len(t.bodyTx) : t.bodyTx[i].id = p.id => Asks(t, p.e.op, t.bodyTx[i])
             /\ \A r \in a.body : r.id = p.id => Hears(t, n, p.e.op, r.a)
    BY DEF BodyOne
  <2>1. p \in s.bodyPend
    BY <1>7
  <2>2. /\ \A q \in s.bodyPend : q.e.cid = 0 => q = p
        /\ \A i \in 1..Len(s.objPend) : s.objPend[i].cid # 0
        /\ Duty(s, n, p.e.op)
        /\ \A i \in 1..Len(s.bodyTx) : s.bodyTx[i].id = p.id => Asks(s, p.e.op, s.bodyTx[i])
        /\ \A r \in a.body : r.id = p.id => Hears(s, n, p.e.op, r.a)
    BY <1>1, <2>1 DEF BodyOne
  <2>3. \A i \in 1..Len(t.objPend) : t.objPend[i].cid # 0
    BY <1>6, <2>2 DEF ObjKept
  <2>4. Duty(t, n, p.e.op) /\ \A r \in a.body : r.id = p.id => Hears(t, n, p.e.op, r.a)
    BY <1>2, <2>2, DutySame
  <2>5. \A i \in 1..Len(t.bodyTx) : t.bodyTx[i].id = p.id => Asks(t, p.e.op, t.bodyTx[i])
    BY <1>2, <1>4, <2>1, <2>2, DutySame
  <2>6. QED
    BY <1>7, <2>2, <2>3, <2>4, <2>5
<1>11. ObjOne(t, n, a)
  <2> SUFFICES ASSUME NEW j \in 1..Len(t.objPend), t.objPend[j].cid = 0
      PROVE  /\ \A i \in 1..Len(t.objPend) : t.objPend[i].cid = 0 => i = j
             /\ Duty(t, n, t.objPend[j].op)
             /\ IF j <= Len(a.obj) THEN Hears(t, n, t.objPend[j].op, a.obj[j])
                ELSE Asks(t, t.objPend[j].op, t.objTx[j - Len(a.obj)])
    BY DEF ObjOne
  <2>1. ObjKept(s, t, a, j)
    BY <1>6
  <2>2. j \in 1..Len(s.objPend) /\ t.objPend[j] = s.objPend[j]
    BY <2>1 DEF ObjKept
  <2>3. /\ \A i \in 1..Len(s.objPend) : s.objPend[i].cid = 0 => i = j
        /\ Duty(s, n, s.objPend[j].op)
        /\ IF j <= Len(a.obj) THEN Hears(s, n, s.objPend[j].op, a.obj[j])
           ELSE Asks(s, s.objPend[j].op, s.objTx[j - Len(a.obj)])
    BY <1>1, <2>2 DEF ObjOne
  <2>4. \A i \in 1..Len(t.objPend) : t.objPend[i].cid = 0 => i = j
    BY <1>6, <2>3 DEF ObjKept
  <2>6. Duty(t, n, t.objPend[j].op)
    BY <1>2, <2>2, <2>3, DutySame
  <2>7. IF j <= Len(a.obj) THEN Hears(t, n, t.objPend[j].op, a.obj[j])
        ELSE Asks(t, t.objPend[j].op, t.objTx[j - Len(a.obj)])
    BY <1>2, <2>1, <2>2, <2>3, DutySame DEF ObjKept
  <2>8. QED
    BY <2>4, <2>6, <2>7
<1>12. QED
  BY <1>1, <1>2, <1>4, <1>8, <1>9, <1>10, <1>11 DEF Core, Sweeps

-----------------------------------------------------------------------------
(* Moves of the sweep and of the raw plane.                                  *)

\* No request of the sweep, and none of the raw plane, is on the way.
Quiet(s) == /\ \A j \in 1..Len(s.nsPend) : s.nsPend[j].cid # 0
            /\ \A p \in s.bodyPend : p.e.cid # 0
            /\ \A j \in 1..Len(s.objPend) : s.objPend[j].cid # 0
NoRaw(s) == /\ \A j \in 1..Len(s.nsPend) : s.nsPend[j].op # "raw"
            /\ \A p \in s.bodyPend : p.e.op \notin RawOp

\* With no request of the sweep out there is nothing to keep of its proof.
LEMMA QuietSweeps == ASSUME NEW s, NEW n, NEW a, Quiet(s) PROVE Sweeps(s, n, a)
  BY DEF Quiet, Sweeps, NsOne, BodyOne, ObjOne

\* A move of the sweep: nothing is sent, or one request with its duty.
GcSendsNs(s, t, n) ==
    \E op, q : /\ op \in GcNs /\ SentNs(s, t, Sweeper(op), q)
               /\ q.op = "release" => op = "gc_release"
               /\ Duty(t, n, op) /\ Asks(t, op, q)
GcSendsBody(s, t, n) ==
    \E op, q : /\ op \in GcBody /\ SentBody(s, t, Sweeper(op), q) /\ q.cid = 0
               /\ Duty(t, n, op) /\ Asks(t, op, q)
GcSendsObj(s, t, n) ==
    \E op, q : /\ op \in GcObj /\ SentObj(s, t, Sweeper(op), q)
               /\ Duty(t, n, op) /\ Asks(t, op, q)
GcMoves(s, t, n) ==
    /\ Tables(t) /\ t.raw = s.raw /\ t.put = s.put /\ t.owed = s.owed
    /\ \/ SameNs(s, t) /\ SameBody(s, t) /\ SameObj(s, t)
       \/ GcSendsNs(s, t, n) /\ SameBody(s, t) /\ SameObj(s, t)
       \/ SameNs(s, t) /\ GcSendsBody(s, t, n) /\ SameObj(s, t)
       \/ SameNs(s, t) /\ SameBody(s, t) /\ GcSendsObj(s, t, n)

\* The sweep's entries are good ones, and no client's.
LEMMA SweeperEntries ==
    ASSUME NEW op
    PROVE  /\ Sweeper(op).cid = 0 /\ Sweeper(op).op = op
           /\ op \in GcNs => NsEntry(Sweeper(op)) /\ op # "raw"
           /\ op \in GcBody => BodyEntry(Sweeper(op)) /\ op \notin RawOp
           /\ op \in GcObj => ObjEntry(Sweeper(op))
  BY DEF Sweeper, Entry, NsEntry, BodyEntry, ObjEntry, GcNs, GcBody, GcObj, Composed, RawOp

\* The common part: what is sent leaves the tables in order.
LEMMA GcMovesAdds ==
    ASSUME NEW s, NEW t, NEW n, GcMoves(s, t, n)
    PROVE  AddsNs(s, t) /\ AddsBody(s, t) /\ AddsObj(s, t)
<1>1. ASSUME GcSendsNs(s, t, n) PROVE AddsNs(s, t)
  <2>1. PICK op, q : op \in GcNs /\ SentNs(s, t, Sweeper(op), q) /\ (q.op = "release" => op = "gc_release")
    BY <1>1 DEF GcSendsNs
  <2>2. NsEntry(Sweeper(op)) /\ Sweeper(op).op = op
    BY <2>1, SweeperEntries
  <2>3. QED
    BY <2>1, <2>2 DEF AddsNs
<1>2. ASSUME GcSendsBody(s, t, n) PROVE AddsBody(s, t)
  <2>1. PICK op, q : op \in GcBody /\ SentBody(s, t, Sweeper(op), q) /\ q.cid = 0
    BY <1>2 DEF GcSendsBody
  <2>2. BodyEntry(Sweeper(op)) /\ Sweeper(op).cid = 0
    BY <2>1, SweeperEntries
  <2>3. QED
    BY <2>1, <2>2 DEF AddsBody
<1>3. ASSUME GcSendsObj(s, t, n) PROVE AddsObj(s, t)
  <2>1. PICK op, q : op \in GcObj /\ SentObj(s, t, Sweeper(op), q)
    BY <1>3 DEF GcSendsObj
  <2>2. ObjEntry(Sweeper(op))
    BY <2>1, SweeperEntries
  <2>3. QED
    BY <2>1, <2>2 DEF AddsObj
<1>4. QED
  BY <1>1, <1>2, <1>3 DEF GcMoves, AddsNs, AddsBody, AddsObj

\* A move of the sweep, made while it has no request out, keeps the invariant.
LEMMA GcMovesCore ==
    ASSUME NEW s, NEW t, NEW n, NEW a, Core(s, n, a), Quiet(s), GcMoves(s, t, n)
    PROVE  Core(t, n, a)
<1>1. /\ Tables(s) /\ Answers(a) /\ Names(n) /\ InOrderAnswers(s, a) /\ ById(s, a) /\ RawOne(s)
  BY DEF Core
<1>2. AddsNs(s, t) /\ AddsBody(s, t) /\ AddsObj(s, t)
  BY GcMovesAdds
<1>3. /\ InOrderAnswers(t, a) /\ ById(t, a)
      /\ \A p \in s.bodyPend : \A i \in 1..Len(t.bodyTx) :
            t.bodyTx[i].id = p.id => i \in 1..Len(s.bodyTx) /\ t.bodyTx[i] = s.bodyTx[i]
  BY <1>1, <1>2, AddsInOrder, AddsById
<1>4. Tables(t) /\ t.raw = s.raw
  BY DEF GcMoves
<1>5. ASSUME SameNs(s, t), SameBody(s, t) PROVE RawOne(t)
  BY <1>1, <1>4, <1>5 DEF RawOne, SameNs, SameBody
<1>6. ASSUME SameNs(s, t), SameBody(s, t), SameObj(s, t) PROVE RawOne(t) /\ Sweeps(t, n, a)
  <2>1. Quiet(t)
    BY <1>6 DEF Quiet, SameNs, SameBody, SameObj
  <2>2. QED
    BY <1>5, <1>6, <2>1, QuietSweeps
<1>7. ASSUME GcSendsNs(s, t, n), SameBody(s, t), SameObj(s, t) PROVE RawOne(t) /\ Sweeps(t, n, a)
  <2>1. PICK op, q : /\ op \in GcNs /\ SentNs(s, t, Sweeper(op), q)
                     /\ Duty(t, n, op) /\ Asks(t, op, q)
    BY <1>7 DEF GcSendsNs
  <2>2. Sweeper(op).cid = 0 /\ Sweeper(op).op = op /\ op # "raw"
    BY <2>1, SweeperEntries
  <2>3. \A j \in 1..Len(t.nsPend) : NsKept(s, t, a, j) \/ NsNew(s, t, a, Sweeper(op), q, j)
    BY <1>1, <2>1, SentNsEntries
  <2>4. RawOne(t)
    <3>1. \A j \in 1..Len(t.nsPend) : t.nsPend[j].op = "raw" =>
             j \in 1..Len(s.nsPend) /\ s.nsPend[j].op = "raw"
      BY <2>2, <2>3 DEF NsKept, NsNew
    <3>2. QED
      BY <1>1, <1>4, <1>7, <3>1 DEF RawOne, SameBody
  <2>5. /\ \A p \in t.bodyPend : p.e.cid # 0
        /\ \A i \in 1..Len(t.objPend) : t.objPend[i].cid # 0
    BY <1>7 DEF Quiet, SameBody, SameObj
  <2>6. BodyOne(t, n, a) /\ ObjOne(t, n, a)
    BY <2>5 DEF BodyOne, ObjOne
  <2>7. \A j \in 1..Len(t.nsPend) : t.nsPend[j].cid = 0 => NsNew(s, t, a, Sweeper(op), q, j)
    BY <2>3 DEF Quiet, NsKept
  <2>8. ASSUME NEW j \in 1..Len(t.nsPend), t.nsPend[j].cid = 0
        PROVE  /\ \A i \in 1..Len(t.nsPend) : t.nsPend[i].cid = 0 => i = j
               /\ Duty(t, n, t.nsPend[j].op)
               /\ ~(j <= Len(a.ns)) /\ Asks(t, t.nsPend[j].op, t.nsTx[j - Len(a.ns)])
    BY <2>1, <2>2, <2>7, <2>8 DEF NsNew
  <2>9. NsOne(t, n, a)
    BY <2>5, <2>8 DEF NsOne
  <2>10. QED
    BY <2>4, <2>6, <2>9 DEF Sweeps
<1>8. ASSUME SameNs(s, t), GcSendsBody(s, t, n), SameObj(s, t) PROVE RawOne(t) /\ Sweeps(t, n, a)
  <2>1. PICK op, q : /\ op \in GcBody /\ SentBody(s, t, Sweeper(op), q)
                     /\ Duty(t, n, op) /\ Asks(t, op, q)
    BY <1>8 DEF GcSendsBody
  <2>2. Sweeper(op).cid = 0 /\ Sweeper(op).op = op /\ op \notin RawOp
    BY <2>1, SweeperEntries
  <2> DEFINE new == [id |-> q.id, e |-> Sweeper(op)]
  <2>3. /\ t.bodyPend = s.bodyPend \cup {new} /\ new.id = q.id /\ new.e = Sweeper(op)
        /\ t.bodyTx = Append(s.bodyTx, q) /\ q.id \notin {p.id : p \in s.bodyPend}
    BY <2>1 DEF SentBody
  <2> HIDE DEF new
  <2>4. RawOne(t)
    BY <1>1, <1>4, <1>8, <2>2, <2>3 DEF RawOne, SameNs
  <2>5. /\ \A i \in 1..Len(t.nsPend) : t.nsPend[i].cid # 0
        /\ \A i \in 1..Len(t.objPend) : t.objPend[i].cid # 0
    BY <1>8 DEF Quiet, SameNs, SameObj
  <2>6. NsOne(t, n, a) /\ ObjOne(t, n, a)
    BY <2>5 DEF NsOne, ObjOne
  <2>7. \A p \in t.bodyPend : p.e.cid = 0 => p = new
    BY <2>3 DEF Quiet
  <2>8. \A i \in 1..Len(t.bodyTx) : t.bodyTx[i].id = q.id => t.bodyTx[i] = q
    <3>1. IsSeq(s.bodyTx) /\ Len(s.bodyTx) \in Nat
      BY <1>1, IsSeqLen DEF Tables
    <3>2. /\ Len(t.bodyTx) = Len(s.bodyTx) + 1 /\ t.bodyTx[Len(s.bodyTx) + 1] = q
      BY <2>3, <3>1, SeqAppend
    <3>3. Len(s.bodyTx) + 1 \in 1..Len(t.bodyTx)
      BY <3>1, <3>2
    <3>4. \A i, j \in 1..Len(t.bodyTx) : t.bodyTx[i].id = t.bodyTx[j].id => i = j
      BY <1>3 DEF ById
    <3>5. QED
      BY <3>2, <3>3, <3>4
  <2>9. \A r \in a.body : r.id # q.id
    BY <1>1, <2>3 DEF ById
  <2>10. BodyOne(t, n, a)
    BY <2>1, <2>2, <2>3, <2>5, <2>7, <2>8, <2>9 DEF BodyOne
  <2>11. QED
    BY <2>4, <2>6, <2>10 DEF Sweeps
<1>9. ASSUME SameNs(s, t), SameBody(s, t), GcSendsObj(s, t, n) PROVE RawOne(t) /\ Sweeps(t, n, a)
  <2>1. PICK op, q : /\ op \in GcObj /\ SentObj(s, t, Sweeper(op), q)
                     /\ Duty(t, n, op) /\ Asks(t, op, q)
    BY <1>9 DEF GcSendsObj
  <2>2. Sweeper(op).cid = 0 /\ Sweeper(op).op = op
    BY <2>1, SweeperEntries
  <2>3. \A j \in 1..Len(t.objPend) : ObjKept(s, t, a, j) \/ ObjNew(s, t, a, Sweeper(op), q, j)
    BY <1>1, <2>1, SentObjEntries
  <2>5. /\ \A p \in t.bodyPend : p.e.cid # 0
        /\ \A i \in 1..Len(t.nsPend) : t.nsPend[i].cid # 0
    BY <1>9 DEF Quiet, SameBody, SameNs
  <2>6. BodyOne(t, n, a) /\ NsOne(t, n, a)
    BY <2>5 DEF BodyOne, NsOne
  <2>7. \A j \in 1..Len(t.objPend) : t.objPend[j].cid = 0 => ObjNew(s, t, a, Sweeper(op), q, j)
    BY <2>3 DEF Quiet, ObjKept
  <2>8. ASSUME NEW j \in 1..Len(t.objPend), t.objPend[j].cid = 0
        PROVE  /\ \A i \in 1..Len(t.objPend) : t.objPend[i].cid = 0 => i = j
               /\ Duty(t, n, t.objPend[j].op)
               /\ ~(j <= Len(a.obj)) /\ Asks(t, t.objPend[j].op, t.objTx[j - Len(a.obj)])
    BY <2>1, <2>2, <2>7, <2>8 DEF ObjNew
  <2>9. ObjOne(t, n, a)
    BY <2>5, <2>8 DEF ObjOne
  <2>10. QED
    BY <1>5, <1>9, <2>6, <2>9 DEF Sweeps
<1>10. RawOne(t) /\ Sweeps(t, n, a)
  BY <1>6, <1>7, <1>8, <1>9 DEF GcMoves
<1>11. QED
  BY <1>1, <1>3, <1>4, <1>10 DEF Core

\* A move of the raw plane: its one request is where its stage says.
RawMoves(s, t) ==
    /\ Tables(t) /\ t.gc = s.gc /\ SameObj(s, t)
    /\ t.raw.stage # "idle" => t.raw.cid # 0 /\ t.raw.op \in RawOp
    /\ \/ SameNs(s, t) /\ SameBody(s, t)
       \/ /\ SameBody(s, t) /\ t.raw.stage \in {"reserve", "check", "release"}
          /\ \E c, q : SentNs(s, t, RawHeld(c), q) /\ c # 0
       \/ /\ SameNs(s, t) /\ t.raw.stage = "body"
          /\ \E e, q : SentBody(s, t, e, q) /\ e.cid # 0 /\ e.op \in RawOp /\ q.cid # 0

\* A move of the raw plane, made while neither it nor the sweep has a request
\* out, keeps the invariant.
LEMMA RawMovesCore ==
    ASSUME NEW s, NEW t, NEW n, NEW a, Core(s, n, a), Quiet(s), NoRaw(s), RawMoves(s, t)
    PROVE  Core(t, n, a)
<1>1. /\ Tables(s) /\ Answers(a) /\ Names(n) /\ InOrderAnswers(s, a) /\ ById(s, a) /\ RawOne(s)
  BY DEF Core
<1>2. /\ Tables(t) /\ SameObj(s, t)
      /\ t.raw.stage # "idle" => t.raw.cid # 0 /\ t.raw.op \in RawOp
  BY DEF RawMoves
<1>3. ASSUME SameNs(s, t), SameBody(s, t)
      PROVE  RawOne(t) /\ Quiet(t) /\ AddsNs(s, t) /\ AddsBody(s, t)
  BY <1>2, <1>3 DEF RawOne, Quiet, NoRaw, SameNs, SameBody, SameObj, AddsNs, AddsBody
<1>4. ASSUME SameBody(s, t), t.raw.stage \in {"reserve", "check", "release"},
             NEW c, NEW q, SentNs(s, t, RawHeld(c), q), c # 0
      PROVE  RawOne(t) /\ Quiet(t) /\ AddsNs(s, t) /\ AddsBody(s, t)
  <2>1. RawHeld(c).cid = c /\ RawHeld(c).op = "raw" /\ NsEntry(RawHeld(c))
    BY <1>4 DEF RawHeld, Entry, NsEntry, GcNs, Composed
  <2>2. \A j \in 1..Len(t.nsPend) : NsKept(s, t, a, j) \/ NsNew(s, t, a, RawHeld(c), q, j)
    BY <1>1, <1>4, SentNsEntries
  <2>3. AddsNs(s, t)
    BY <1>4, <2>1 DEF AddsNs
  <2>4. Quiet(t) /\ AddsBody(s, t)
    BY <1>2, <1>4, <2>1, <2>2 DEF Quiet, NsKept, NsNew, SameBody, SameObj, AddsBody
  <2>5. \A j \in 1..Len(t.nsPend) : t.nsPend[j].op = "raw" => NsNew(s, t, a, RawHeld(c), q, j)
    BY <2>2 DEF NoRaw, NsKept
  <2>6. \A p \in t.bodyPend : p.e.op \notin RawOp
    BY <1>4 DEF NoRaw, SameBody
  <2>7. RawOne(t)
    BY <1>2, <1>4, <2>5, <2>6 DEF RawOne, NsNew
  <2>8. QED
    BY <2>3, <2>4, <2>7
<1>5. ASSUME SameNs(s, t), t.raw.stage = "body",
             NEW e, NEW q, SentBody(s, t, e, q), e.cid # 0, e.op \in RawOp, q.cid # 0
      PROVE  RawOne(t) /\ Quiet(t) /\ AddsNs(s, t) /\ AddsBody(s, t)
  <2>1. BodyEntry(e)
    BY <1>5 DEF BodyEntry, RawOp, GcBody, Composed
  <2>2. AddsNs(s, t) /\ AddsBody(s, t)
    BY <1>5, <2>1 DEF AddsNs, AddsBody
  <2>3. Quiet(t)
    BY <1>2, <1>5 DEF Quiet, SameNs, SentBody, SameObj
  <2>4. RawOne(t)
    BY <1>2, <1>5 DEF RawOne, NoRaw, SameNs, SentBody
  <2>5. QED
    BY <2>2, <2>3, <2>4
<1>6. RawOne(t) /\ Quiet(t) /\ AddsNs(s, t) /\ AddsBody(s, t) /\ AddsObj(s, t)
  BY <1>2, <1>3, <1>4, <1>5 DEF RawMoves, AddsObj
<1>7. InOrderAnswers(t, a) /\ ById(t, a)
  BY <1>1, <1>6, AddsInOrder, AddsById
<1>8. Sweeps(t, n, a)
  BY <1>6, QuietSweeps
<1>9. QED
  BY <1>1, <1>2, <1>6, <1>7, <1>8 DEF Core

-----------------------------------------------------------------------------
(* The raw plane.                                                            *)

\* A move that sends nothing and sets the raw plane's record.
RawSet(s, t) == /\ Tables(t) /\ t.gc = s.gc /\ t.put = s.put /\ t.owed = s.owed
                /\ SameNs(s, t) /\ SameBody(s, t) /\ SameObj(s, t)

\* Setting the raw plane's record and then a move of it is one move.
LEMMA RawSetThen ==
    ASSUME NEW s, NEW t, NEW u, RawSet(s, t), RawMoves(t, u)
    PROVE  RawMoves(s, u)
  BY DEF RawSet, RawMoves, SameNs, SameBody, SameObj, SentNs, SentBody

\* The raw plane's record is set.
LEMMA RawWith ==
    ASSUME NEW s, Tables(s), NEW r, IsRaw(r)
    PROVE  LET t == [s EXCEPT !.raw = r] IN RawSet(s, t) /\ t.raw = r
<1> DEFINE t == [s EXCEPT !.raw = r]
<1>1. IsRouter(s)
  BY DEF Tables
<1>2. /\ IsRouter(t) /\ t.gc = s.gc /\ t.raw = r /\ t.put = s.put /\ t.owed = s.owed
      /\ SameNs(s, t) /\ SameBody(s, t) /\ SameObj(s, t)
  BY <1>1 DEF IsRouter, SameNs, SameBody, SameObj
<1> HIDE DEF t
<1>3. Tables(t)
  BY <1>2 DEF Tables, SameNs, SameBody, SameObj
<1>4. QED
  BY <1>2, <1>3 DEF RawSet, t

\* The raw plane's stage is set.
LEMMA RawStageSet ==
    ASSUME NEW s, Tables(s), NEW x
    PROVE  LET t == [s EXCEPT !.raw.stage = x]
           IN  /\ RawSet(s, t) /\ t.raw.stage = x /\ t.raw.cid = s.raw.cid
               /\ t.raw.op = s.raw.op /\ t.raw.dig = s.raw.dig
               /\ t.raw.status = s.raw.status
<1> DEFINE r == [s.raw EXCEPT !.stage = x]
           t == [s EXCEPT !.raw = r]
<1>1. IsRaw(s.raw) /\ IsRouter(s)
  BY DEF Tables
<1>2. /\ IsRaw(r) /\ r.stage = x /\ r.cid = s.raw.cid /\ r.op = s.raw.op
      /\ r.dig = s.raw.dig /\ r.status = s.raw.status
  BY <1>1 DEF IsRaw
<1>3. [s EXCEPT !.raw.stage = x] = t
  BY <1>1 DEF IsRouter
<1> HIDE DEF r
<1>4. RawSet(s, t) /\ t.raw = r
  BY <1>2, RawWith
<1>5. QED
  BY <1>2, <1>3, <1>4

\* The status the raw plane holds is set.
LEMMA RawStatusSet ==
    ASSUME NEW s, Tables(s), NEW x
    PROVE  LET t == [s EXCEPT !.raw.status = x]
           IN  /\ RawSet(s, t) /\ t.raw.stage = s.raw.stage /\ t.raw.cid = s.raw.cid
               /\ t.raw.op = s.raw.op /\ t.raw.dig = s.raw.dig
               /\ t.raw.status = x
<1> DEFINE r == [s.raw EXCEPT !.status = x]
           t == [s EXCEPT !.raw = r]
<1>1. IsRaw(s.raw) /\ IsRouter(s)
  BY DEF Tables
<1>2. /\ IsRaw(r) /\ r.stage = s.raw.stage /\ r.cid = s.raw.cid /\ r.op = s.raw.op
      /\ r.dig = s.raw.dig /\ r.status = x
  BY <1>1 DEF IsRaw
<1>3. [s EXCEPT !.raw.status = x] = t
  BY <1>1 DEF IsRouter
<1> HIDE DEF r
<1>4. RawSet(s, t) /\ t.raw = r
  BY <1>2, RawWith
<1>5. QED
  BY <1>2, <1>3, <1>4

\* raw_finish sends nothing and leaves the plane idle.
LEMMA RawFinishMoves == ASSUME NEW s, Tables(s) PROVE RawMoves(s, RawFinish(s))
<1> DEFINE t == [s EXCEPT !.raw = IdleRaw]
           u == RawFinish(s)
<1>1. IsRaw(IdleRaw) /\ IdleRaw.stage = "idle"
  BY DEF IsRaw, IdleRaw
<1>2. RawSet(s, t) /\ t.raw = IdleRaw
  BY <1>1, RawWith
<1>3. u = Reply(t, s.raw.cid, s.raw.op, s.raw.status, None)
  BY DEF RawFinish
<1> HIDE DEF t, u
<1>4. Still(t, u)
  BY <1>2, <1>3, ReplyStill DEF RawSet
<1>5. RawMoves(t, u)
  BY <1>1, <1>2, <1>4 DEF Still, RawMoves
<1>6. QED
  BY <1>2, <1>5, RawSetThen DEF u

\* A raw plane that serves a client.
Serving(s) == s.raw.cid # 0 /\ s.raw.op \in RawOp

\* The release of the digest, or the end when it cannot be sent.
LEMMA RawReleaseMoves ==
    ASSUME NEW s, Tables(s), Serving(s)
    PROVE  RawMoves(s, RawRelease(s))
<1> DEFINE t == [s EXCEPT !.raw.stage = "release"]
           q == [NsReq("release", 0) EXCEPT !.dig = s.raw.dig]
           e == RawHeld(s.raw.cid)
           f == ForwardNs(t, e, q)
           u == RawRelease(s)
<1>1. RawSet(s, t) /\ t.raw.stage = "release" /\ Serving(t)
  BY RawStageSet DEF Serving
<1>2. u = IF f.ok THEN f.s ELSE RawFinish(t)
  BY DEF RawRelease
<1> HIDE DEF t, u, q
<1>3. Tables(t)
  BY <1>1 DEF RawSet
<1>4. /\ f.ok => /\ Tables(f.s) /\ SentNs(t, f.s, e, q) /\ SameBody(t, f.s)
                 /\ SameObj(t, f.s) /\ f.s.gc = t.gc /\ f.s.raw = t.raw
  BY <1>3, ForwardsNs
<1> HIDE DEF f
<1>5. ASSUME f.ok PROVE RawMoves(t, u)
  BY <1>1, <1>2, <1>4, <1>5 DEF RawMoves, Serving
<1>6. ASSUME ~f.ok PROVE RawMoves(t, u)
  BY <1>2, <1>3, <1>6, RawFinishMoves
<1>7. QED
  BY <1>1, <1>5, <1>6, RawSetThen DEF u

\* The raw plane holds its status and releases.
LEMMA RawEndMoves ==
    ASSUME NEW s, Tables(s), Serving(s), NEW status
    PROVE  RawMoves(s, RawEnd(s, status))
<1> DEFINE t == [s EXCEPT !.raw.status = status]
<1>1. RawSet(s, t) /\ Serving(t) /\ Tables(t)
  BY RawStatusSet DEF Serving, RawSet
<1> HIDE DEF t
<1>2. RawMoves(t, RawRelease(t))
  BY <1>1, RawReleaseMoves
<1>3. QED
  BY <1>1, <1>2, RawSetThen DEF RawEnd, t

\* The raw plane asks for a page of the namespace's retentions.
LEMMA RawCheckMoves ==
    ASSUME NEW s, Tables(s), Serving(s), s.raw.stage = "check", NEW at
    PROVE  RawMoves(s, RawCheck(s, at))
<1> DEFINE q == [NsReq("retained", 0) EXCEPT !.dig = s.raw.dig, !.at = at]
           e == RawHeld(s.raw.cid)
           f == ForwardNs(s, e, q)
           u == RawCheck(s, at)
<1>1. u = IF f.ok THEN f.s ELSE RawEnd(s, "busy")
  BY DEF RawCheck
<1> HIDE DEF u, q
<1>2. /\ f.ok => /\ Tables(f.s) /\ SentNs(s, f.s, e, q) /\ SameBody(s, f.s)
                 /\ SameObj(s, f.s) /\ f.s.gc = s.gc /\ f.s.raw = s.raw
  BY ForwardsNs
<1> HIDE DEF f
<1>3. ASSUME f.ok PROVE RawMoves(s, u)
  BY <1>1, <1>2, <1>3 DEF RawMoves, Serving
<1>4. ASSUME ~f.ok PROVE RawMoves(s, u)
  BY <1>1, <1>4, RawEndMoves
<1>5. QED
  BY <1>3, <1>4 DEF u

\* The raw plane forwards the request it served.
LEMMA RawForwardMoves ==
    ASSUME NEW s, Tables(s), Serving(s)
    PROVE  RawMoves(s, RawForward(s))
<1> DEFINE op == IF s.raw.op = "delete_body" THEN "delete" ELSE "put_keyed"
           q == BodyReq(op, s.raw.cid, s.raw.dig)
           e == Entry(s.raw.cid, s.raw.op, 0, None)
           f == ForwardBody(s, e, q)
           r == [q EXCEPT !.id = FreshId(s)]
           w == [f.s EXCEPT !.raw.stage = "body"]
           u == RawForward(s)
<1>1. u = IF f.ok THEN w ELSE RawEnd(s, "busy")
  BY DEF RawForward
<1>2. "id" \in DOMAIN q /\ q = [x \in DOMAIN q |-> q[x]] /\ r.cid = s.raw.cid
  BY DEF BodyReq
<1>3. e.cid = s.raw.cid /\ e.op = s.raw.op
  BY DEF Entry
<1> HIDE DEF u, q, r, e
<1>4. f.ok => /\ Tables(f.s) /\ SentBody(s, f.s, e, [q EXCEPT !.id = FreshId(s)])
              /\ SameNs(s, f.s) /\ SameObj(s, f.s) /\ f.s.gc = s.gc /\ f.s.raw = s.raw
  BY <1>2, ForwardsBody
<1> HIDE DEF f
<1>5. ASSUME f.ok PROVE RawMoves(s, u)
  <2>1. /\ Tables(f.s) /\ SentBody(s, f.s, e, r)
        /\ SameNs(s, f.s) /\ SameObj(s, f.s) /\ f.s.gc = s.gc /\ f.s.raw = s.raw
    BY <1>4, <1>5 DEF r
  <2>0. /\ RawSet(f.s, w) /\ w.raw.stage = "body" /\ w.raw.cid = f.s.raw.cid
        /\ w.raw.op = f.s.raw.op
    BY <2>1, RawStageSet
  <2>2. RawSet(f.s, w) /\ w.raw.stage = "body" /\ Serving(w)
    BY <2>0, <2>1 DEF Serving
  <2> HIDE DEF w
  <2>3. SentBody(s, w, e, r) /\ SameNs(s, w) /\ SameObj(s, w) /\ w.gc = s.gc /\ Tables(w)
    BY <2>1, <2>2 DEF RawSet, SentBody, SameNs, SameBody, SameObj
  <2>4. RawMoves(s, w)
    BY <1>2, <1>3, <2>2, <2>3 DEF RawMoves, Serving
  <2>5. QED
    BY <1>1, <1>5, <2>4
<1>6. ASSUME ~f.ok PROVE RawMoves(s, u)
  BY <1>1, <1>6, RawEndMoves
<1>7. QED
  BY <1>5, <1>6 DEF u

\* The namespace's answers move the raw plane.
LEMMA RawNsAnswerMoves ==
    ASSUME NEW s, Tables(s), Serving(s), s.raw.stage \in {"reserve", "check", "release"}, NEW a
    PROVE  RawMoves(s, RawNsAnswer(s, a))
<1>1. CASE s.raw.stage = "reserve"
  <2>1. RawNsAnswer(s, a) = IF a.yes THEN RawCheck([s EXCEPT !.raw.stage = "check"], 0)
                            ELSE RawFinish([s EXCEPT !.raw.status = "busy"])
    BY <1>1 DEF RawNsAnswer
  <2> DEFINE t == [s EXCEPT !.raw.stage = "check"]
             v == [s EXCEPT !.raw.status = "busy"]
  <2>2. RawSet(s, t) /\ t.raw.stage = "check" /\ Serving(t) /\ Tables(t)
    BY RawStageSet DEF Serving, RawSet
  <2>3. RawSet(s, v) /\ Tables(v)
    BY RawStatusSet DEF RawSet
  <2> HIDE DEF t, v
  <2>4. RawMoves(s, RawCheck(t, 0))
    BY <2>2, RawCheckMoves, RawSetThen
  <2>5. RawMoves(s, RawFinish(v))
    BY <2>3, RawFinishMoves, RawSetThen
  <2>6. QED
    BY <2>1, <2>4, <2>5 DEF t, v
<1>2. CASE s.raw.stage = "check"
  <2>1. RawNsAnswer(s, a) = CASE a.yes -> RawEnd(s, "retained")
                              [] ~a.yes /\ a.next # 0 -> RawCheck(s, a.next)
                              [] OTHER -> RawForward(s)
    BY <1>2 DEF RawNsAnswer
  <2>2. \/ RawNsAnswer(s, a) = RawEnd(s, "retained") \/ RawNsAnswer(s, a) = RawCheck(s, a.next)
        \/ RawNsAnswer(s, a) = RawForward(s)
    BY <2>1
  <2>3. QED
    BY <1>2, <2>2, RawEndMoves, RawCheckMoves, RawForwardMoves
<1>3. CASE s.raw.stage = "release"
  <2>1. RawNsAnswer(s, a) = RawFinish(s)
    BY <1>3 DEF RawNsAnswer
  <2>2. QED
    BY <2>1, RawFinishMoves
<1>4. QED
  BY <1>1, <1>2, <1>3

\* The body plane's answer moves the raw plane.
LEMMA RawBodyAnswerMoves ==
    ASSUME NEW s, Tables(s), Serving(s), NEW a
    PROVE  RawMoves(s, RawBodyAnswer(s, a))
  BY RawEndMoves DEF RawBodyAnswer

\* A sweep that has asked for nothing and has no page has no request out.
LEMMA IdleQuiet ==
    ASSUME NEW s, NEW n, NEW a, Core(s, n, a), ~s.gc.asked, s.gc.queue = <<>>
    PROVE  Quiet(s)
<1>1. \A op : ~Duty(s, n, op)
  BY DEF Duty
<1>2. QED
  BY <1>1 DEF Core, Sweeps, NsOne, BodyOne, ObjOne, Quiet

\* DELETE_BODY and PUT_KEYED are taken only while the sweep and the raw plane are
\* idle, and keep the invariant.
LEMMA RawBeginCore ==
    ASSUME NEW s, NEW n, NEW a, Core(s, n, a), NEW c, c # 0, NEW q, q.op \in RawOp
    PROVE  Core(RawBegin(s, c, q), n, a)
<1> DEFINE e == RawHeld(c)
           x == [NsReq("reserve", 0) EXCEPT !.dig = q.dig]
           f == ForwardNs(s, e, x)
           r == [stage |-> "reserve", op |-> q.op, cid |-> c, dig |-> q.dig, status |-> "nak"]
           w == [f.s EXCEPT !.raw = r]
           no == \/ s.raw.stage # "idle" \/ s.gc.queue # <<>> \/ s.gc.asked \/ ~f.ok
           u == RawBegin(s, c, q)
<1>1. u = IF no THEN Reply(s, c, q.op, "busy", None) ELSE w
  BY DEF RawBegin
<1>2. Tables(s) /\ RawOne(s)
  BY DEF Core
<1> HIDE DEF u, x
<1>3. f.ok => /\ Tables(f.s) /\ SentNs(s, f.s, e, x) /\ SameBody(s, f.s)
              /\ SameObj(s, f.s) /\ f.s.gc = s.gc /\ f.s.raw = s.raw
  BY <1>2, ForwardsNs
<1> HIDE DEF f
<1>4. ASSUME no PROVE Core(u, n, a)
  <2>1. u = Reply(s, c, q.op, "busy", None)
    BY <1>1, <1>4
  <2>2. Moves(s, u)
    BY <1>2, <2>1, ReplyStill, StillMoves
  <2>3. QED
    BY <2>2, MovesCore
<1>5. ASSUME ~no PROVE Core(u, n, a)
  <2>1. u = w /\ f.ok /\ s.raw.stage = "idle" /\ s.gc.queue = <<>> /\ ~s.gc.asked
    BY <1>1, <1>5
  <2>2. IsRaw(r) /\ r.stage = "reserve" /\ r.op = q.op /\ r.cid = c
    BY DEF IsRaw
  <2> HIDE DEF r
  <2>3. RawSet(f.s, w) /\ w.raw = r
    BY <1>3, <2>1, <2>2, RawWith
  <2> HIDE DEF w
  <2>4. SentNs(s, w, e, x) /\ SameBody(s, w) /\ SameObj(s, w) /\ w.gc = s.gc /\ Tables(w)
    BY <1>3, <2>1, <2>3 DEF RawSet, SentNs, SameNs, SameBody, SameObj
  <2>5. RawMoves(s, w)
    BY <2>2, <2>3, <2>4 DEF RawMoves
  <2>6. Quiet(s)
    BY <2>1, IdleQuiet
  <2>7. NoRaw(s)
    BY <1>2, <2>1 DEF RawOne, NoRaw
  <2>8. QED
    BY <2>1, <2>5, <2>6, <2>7, RawMovesCore
<1>6. QED
  BY <1>4, <1>5 DEF u

-----------------------------------------------------------------------------
(* The sweep.                                                                *)

\* A move that sends nothing and sets the sweep's record.
GcSet(s, t) == /\ Tables(t) /\ t.raw = s.raw /\ t.put = s.put /\ t.owed = s.owed
               /\ SameNs(s, t) /\ SameBody(s, t) /\ SameObj(s, t)

\* Setting the sweep's record and then a move of it is one move.
LEMMA GcSetThen ==
    ASSUME NEW s, NEW t, NEW u, NEW n, GcSet(s, t), GcMoves(t, u, n)
    PROVE  GcMoves(s, u, n)
<1>1. /\ t.raw = s.raw /\ t.put = s.put /\ t.owed = s.owed
      /\ SameNs(s, t) /\ SameBody(s, t) /\ SameObj(s, t)
  BY DEF GcSet
<1>2. /\ SameNs(t, u) => SameNs(s, u)
      /\ SameBody(t, u) => SameBody(s, u)
      /\ SameObj(t, u) => SameObj(s, u)
  BY <1>1 DEF SameNs, SameBody, SameObj
<1>3. /\ GcSendsNs(t, u, n) => GcSendsNs(s, u, n)
      /\ GcSendsBody(t, u, n) => GcSendsBody(s, u, n)
      /\ GcSendsObj(t, u, n) => GcSendsObj(s, u, n)
  BY <1>1 DEF GcSendsNs, GcSendsBody, GcSendsObj, SentNs, SentBody, SentObj,
              SameNs, SameBody, SameObj
<1>4. QED
  BY <1>1, <1>2, <1>3 DEF GcMoves

\* Setting the sweep's record is a move of it.
LEMMA GcSetMoves == ASSUME NEW s, NEW t, NEW n, GcSet(s, t) PROVE GcMoves(s, t, n)
  BY DEF GcSet, GcMoves

\* Setting the sweep's record twice.
LEMMA GcSetSet == ASSUME NEW s, NEW t, NEW u, GcSet(s, t), GcSet(t, u) PROVE GcSet(s, u)
  BY DEF GcSet, SameNs, SameBody, SameObj

\* The sweep's record is set.
LEMMA GcWith ==
    ASSUME NEW s, Tables(s), NEW g, Gc(g)
    PROVE  LET t == [s EXCEPT !.gc = g] IN GcSet(s, t) /\ t.gc = g
<1> DEFINE t == [s EXCEPT !.gc = g]
<1>1. IsRouter(s)
  BY DEF Tables
<1>2. /\ IsRouter(t) /\ t.gc = g /\ t.raw = s.raw /\ t.put = s.put /\ t.owed = s.owed
      /\ SameNs(s, t) /\ SameBody(s, t) /\ SameObj(s, t)
  BY <1>1 DEF IsRouter, SameNs, SameBody, SameObj
<1> HIDE DEF t
<1>3. Tables(t)
  BY <1>2 DEF Tables, SameNs, SameBody, SameObj
<1>4. QED
  BY <1>2, <1>3 DEF GcSet, t

\* One field of it, and the others as they were.
GcField == {"phase", "asked", "at", "objAt", "queue", "wrapped", "reserved", "check", "view",
            "next", "roots", "leaves"}
GcValue(f, x) == /\ f = "phase" => x \in {"body", "object"}
                 /\ f = "queue" => x \in Seq(Digest)
                 /\ f \in {"roots", "leaves"} => IsSeq(x)
                 /\ f \in {"check", "next"} => x \in Nat
ButFor(f, s, t) == \A z \in GcField \ {f} : t.gc[z] = s.gc[z]

\* A field of the sweep is set and the others stay.
LEMMA GcPut ==
    ASSUME NEW s, Tables(s), NEW f \in GcField, NEW x, GcValue(f, x)
    PROVE  LET t == [s EXCEPT !.gc[f] = x]
           IN  GcSet(s, t) /\ t.gc[f] = x /\ ButFor(f, s, t)
<1> DEFINE g == s.gc
           h == [g EXCEPT ![f] = x]
           t == [s EXCEPT !.gc[f] = x]
<1>1. IsRouter(s) /\ Gc(g)
  BY DEF Tables
<1>2. g = [z \in GcField |-> g[z]]
  BY <1>1 DEF Gc, IsGc, GcField
<1>3. t = [s EXCEPT !.gc = h]
  BY <1>1 DEF IsRouter
<1> HIDE DEF g
<1>4. h = [z \in GcField |-> h[z]] /\ h[f] = x /\ \A z \in GcField \ {f} : h[z] = g[z]
  BY <1>2
<1> HIDE DEF h
<1>5. Gc(h)
  <2>1. IsGc(h)
    BY <1>4 DEF IsGc, GcField
  <2>2. \A z \in GcField : h[z] = x \/ h[z] = g[z]
    BY <1>4
  <2>3. h.phase \in {"body", "object"}
    BY <1>1, <1>4 DEF Gc, GcValue, GcField
  <2>4. h.queue \in Seq(Digest)
    BY <1>1, <1>4 DEF Gc, GcValue, GcField
  <2>5. IsSeq(h.roots) /\ IsSeq(h.leaves)
    BY <1>1, <1>4 DEF Gc, GcValue, GcField
  <2>6. h.check \in Nat /\ h.next \in Nat
    BY <1>1, <1>4 DEF Gc, GcValue, GcField
  <2>7. QED
    BY <2>1, <2>3, <2>4, <2>5, <2>6 DEF Gc
<1>6. GcSet(s, t) /\ t.gc = h
  BY <1>3, <1>5, GcWith
<1>7. QED
  BY <1>4, <1>6 DEF ButFor, g

\* Its fields by name.
LEMMA GcPhase == ASSUME NEW s, Tables(s), NEW x \in {"body", "object"}
    PROVE  LET t == [s EXCEPT !.gc.phase = x] IN GcSet(s, t) /\ t.gc.phase = x /\ ButFor("phase", s, t)
  BY GcPut DEF GcField, GcValue

\* Whether a page of an inventory is asked for.
LEMMA GcAsked == ASSUME NEW s, Tables(s), NEW x
    PROVE  LET t == [s EXCEPT !.gc.asked = x] IN GcSet(s, t) /\ t.gc.asked = x /\ ButFor("asked", s, t)
  BY GcPut DEF GcField, GcValue

\* The cursor in the body plane's inventory.
LEMMA GcAt == ASSUME NEW s, Tables(s), NEW x
    PROVE  LET t == [s EXCEPT !.gc.at = x] IN GcSet(s, t) /\ ButFor("at", s, t)
  BY GcPut DEF GcField, GcValue

\* The cursor in the index's inventory.
LEMMA GcObjAt == ASSUME NEW s, Tables(s), NEW x
    PROVE  LET t == [s EXCEPT !.gc.objAt = x] IN GcSet(s, t) /\ ButFor("objAt", s, t)
  BY GcPut DEF GcField, GcValue

\* The candidates of the page in hand.
LEMMA GcQueue == ASSUME NEW s, Tables(s), NEW x \in Seq(Digest)
    PROVE  LET t == [s EXCEPT !.gc.queue = x] IN GcSet(s, t) /\ t.gc.queue = x /\ ButFor("queue", s, t)
  BY GcPut DEF GcField, GcValue

\* Whether the inventory ended.
LEMMA GcWrapped == ASSUME NEW s, Tables(s), NEW x
    PROVE  LET t == [s EXCEPT !.gc.wrapped = x] IN GcSet(s, t) /\ ButFor("wrapped", s, t)
  BY GcPut DEF GcField, GcValue

\* Whether the candidate is reserved.
LEMMA GcReserved == ASSUME NEW s, Tables(s), NEW x
    PROVE  LET t == [s EXCEPT !.gc.reserved = x] IN GcSet(s, t) /\ ButFor("reserved", s, t)
  BY GcPut DEF GcField, GcValue

\* The cursor of the candidate's check.
LEMMA GcCheckSet == ASSUME NEW s, Tables(s), NEW x \in Nat
    PROVE  LET t == [s EXCEPT !.gc.check = x] IN GcSet(s, t) /\ t.gc.check = x /\ ButFor("check", s, t)
  BY GcPut DEF GcField, GcValue

\* The generation the walk reads.
LEMMA GcView == ASSUME NEW s, Tables(s), NEW x
    PROVE  LET t == [s EXCEPT !.gc.view = x] IN GcSet(s, t) /\ ButFor("view", s, t)
  BY GcPut DEF GcField, GcValue

\* The cursor of the walk over the volumes' roots.
LEMMA GcNextSet == ASSUME NEW s, Tables(s), NEW x \in Nat
    PROVE  LET t == [s EXCEPT !.gc.next = x] IN GcSet(s, t) /\ t.gc.next = x /\ ButFor("next", s, t)
  BY GcPut DEF GcField, GcValue

\* The roots of the page in hand.
LEMMA GcRootsSet == ASSUME NEW s, Tables(s), NEW x, IsSeq(x)
    PROVE  LET t == [s EXCEPT !.gc.roots = x] IN GcSet(s, t) /\ t.gc.roots = x /\ ButFor("roots", s, t)
  BY GcPut DEF GcField, GcValue

\* The leaf pages of the root in hand.
LEMMA GcLeavesSet == ASSUME NEW s, Tables(s), NEW x, IsSeq(x)
    PROVE  LET t == [s EXCEPT !.gc.leaves = x] IN GcSet(s, t) /\ t.gc.leaves = x /\ ButFor("leaves", s, t)
  BY GcPut DEF GcField, GcValue

\* A candidate is in hand and the raw plane waits for nothing.
Working(s) == Tables(s) /\ s.raw.stage = "idle" /\ s.gc.queue # <<>>

\* The next phase of the sweep sends nothing.
LEMMA AdvancePhaseSet ==
    ASSUME NEW s, Tables(s)
    PROVE  GcSet(s, AdvancePhase(s))
<1> DEFINE x == IF s.gc.phase = "body" THEN "object" ELSE "body"
           t == [s EXCEPT !.gc.phase = x]
           u == [t EXCEPT !.gc.wrapped = FALSE]
<1>1. x \in {"body", "object"}
  OBVIOUS
<1>2. AdvancePhase(s) = u
  <2>1. IsRouter(s) /\ IsGc(s.gc)
    BY DEF Tables, Gc
  <2>2. QED
    BY <2>1 DEF AdvancePhase, IsRouter, IsGc
<1> HIDE DEF x
<1>3. GcSet(s, t)
  BY <1>1, GcPhase
<1> HIDE DEF t
<1>4. GcSet(t, u)
  BY <1>3, GcWrapped DEF GcSet
<1>5. QED
  BY <1>2, <1>3, <1>4, GcSetSet

\* The end of a page sends nothing.
LEMMA GcPageDoneSet ==
    ASSUME NEW s, Tables(s)
    PROVE  GcSet(s, GcPageDone(s))
<1> DEFINE t == [s EXCEPT !.gc.queue = <<>>]
           u == [t EXCEPT !.gc.reserved = FALSE]
<1>1. GcPageDone(s) = IF s.gc.wrapped THEN AdvancePhase(u) ELSE u
  <2>1. IsRouter(s) /\ IsGc(s.gc)
    BY DEF Tables, Gc
  <2>2. u = [s EXCEPT !.gc.queue = <<>>, !.gc.reserved = FALSE]
    BY <2>1 DEF IsRouter, IsGc
  <2>3. QED
    BY <2>2 DEF GcPageDone
<1>2. GcSet(s, t)
  <2>1. <<>> \in Seq(Digest)
    OBVIOUS
  <2>2. QED
    BY <2>1, GcQueue
<1> HIDE DEF t
<1>3. GcSet(t, u) /\ Tables(u)
  BY <1>2, GcReserved DEF GcSet
<1> HIDE DEF u
<1>4. GcSet(s, u) /\ GcSet(u, AdvancePhase(u))
  BY <1>2, <1>3, GcSetSet, AdvancePhaseSet
<1>5. QED
  BY <1>1, <1>4, GcSetSet

\* A request with its duty, sent or not.
LEMMA GcForwardNs ==
    ASSUME NEW s, Tables(s), NEW n, NEW op \in GcNs, NEW q,
           q.op = "release" => op = "gc_release", Duty(s, n, op), Asks(s, op, q)
    PROVE  LET f == ForwardNs(s, Sweeper(op), q)
           IN  /\ ~f.ok => f.s = s
               /\ f.ok => GcMoves(s, f.s, n)
<1> DEFINE f == ForwardNs(s, Sweeper(op), q)
<1>1. /\ ~f.ok => f.s = s
      /\ f.ok => /\ Tables(f.s) /\ SentNs(s, f.s, Sweeper(op), q) /\ SameBody(s, f.s)
                 /\ SameObj(s, f.s) /\ f.s.gc = s.gc /\ f.s.raw = s.raw
                 /\ f.s.put = s.put /\ f.s.owed = s.owed
  BY ForwardsNs
<1> HIDE DEF f
<1>2. ASSUME f.ok PROVE GcMoves(s, f.s, n)
  <2>1. /\ Tables(f.s) /\ SentNs(s, f.s, Sweeper(op), q) /\ SameBody(s, f.s)
        /\ SameObj(s, f.s) /\ f.s.gc = s.gc /\ f.s.raw = s.raw
        /\ f.s.put = s.put /\ f.s.owed = s.owed
    BY <1>1, <1>2
  <2>2. Duty(f.s, n, op) /\ Asks(f.s, op, q)
    BY <2>1, DutySame
  <2>3. GcSendsNs(s, f.s, n)
    BY <2>1, <2>2 DEF GcSendsNs
  <2>4. QED
    BY <2>1, <2>3 DEF GcMoves
<1>3. QED
  BY <1>1, <1>2 DEF f

\* The same, to the object index.
LEMMA GcForwardObj ==
    ASSUME NEW s, Tables(s), NEW n, NEW op \in GcObj, NEW q, Duty(s, n, op), Asks(s, op, q)
    PROVE  LET f == ForwardObj(s, Sweeper(op), q)
           IN  /\ ~f.ok => f.s = s
               /\ f.ok => GcMoves(s, f.s, n)
<1> DEFINE f == ForwardObj(s, Sweeper(op), q)
<1>1. /\ ~f.ok => f.s = s
      /\ f.ok => /\ Tables(f.s) /\ SentObj(s, f.s, Sweeper(op), q) /\ SameBody(s, f.s)
                 /\ SameNs(s, f.s) /\ f.s.gc = s.gc /\ f.s.raw = s.raw
                 /\ f.s.put = s.put /\ f.s.owed = s.owed
  BY ForwardsObj
<1> HIDE DEF f
<1>2. ASSUME f.ok PROVE GcMoves(s, f.s, n)
  <2>1. /\ Tables(f.s) /\ SentObj(s, f.s, Sweeper(op), q) /\ SameBody(s, f.s)
        /\ SameNs(s, f.s) /\ f.s.gc = s.gc /\ f.s.raw = s.raw
        /\ f.s.put = s.put /\ f.s.owed = s.owed
    BY <1>1, <1>2
  <2>2. Duty(f.s, n, op) /\ Asks(f.s, op, q)
    BY <2>1, DutySame
  <2>3. GcSendsObj(s, f.s, n)
    BY <2>1, <2>2 DEF GcSendsObj
  <2>4. QED
    BY <2>1, <2>3 DEF GcMoves
<1>3. QED
  BY <1>1, <1>2 DEF f

\* The same, to the body plane.
LEMMA GcForwardBody ==
    ASSUME NEW s, Tables(s), NEW n, NEW op \in GcBody, NEW r, NEW d,
           Duty(s, n, op), Asks(s, op, BodyReq(r, 0, d))
    PROVE  LET f == ForwardBody(s, Sweeper(op), BodyReq(r, 0, d))
           IN  /\ ~f.ok => f.s = s
               /\ f.ok => GcMoves(s, f.s, n)
<1> DEFINE q == BodyReq(r, 0, d)
           x == [q EXCEPT !.id = FreshId(s)]
           f == ForwardBody(s, Sweeper(op), q)
<1>1. "id" \in DOMAIN q /\ q = [y \in DOMAIN q |-> q[y]]
  BY DEF BodyReq
<1>2. x.op = q.op /\ x.dig = q.dig /\ x.cid = 0
  BY DEF BodyReq
<1>3. Asks(s, op, q)
  OBVIOUS
<1> HIDE DEF q
<1>4. /\ ~f.ok => f.s = s
      /\ f.ok => /\ Tables(f.s) /\ SentBody(s, f.s, Sweeper(op), x) /\ SameNs(s, f.s)
                 /\ SameObj(s, f.s) /\ f.s.gc = s.gc /\ f.s.raw = s.raw
                 /\ f.s.put = s.put /\ f.s.owed = s.owed
  BY <1>1, ForwardsBody
<1>5. Asks(s, op, x)
  BY <1>2, <1>3 DEF Asks, GcBody
<1> HIDE DEF f, x
<1>6. ASSUME f.ok PROVE GcMoves(s, f.s, n)
  <2>1. /\ Tables(f.s) /\ SentBody(s, f.s, Sweeper(op), x) /\ SameNs(s, f.s)
        /\ SameObj(s, f.s) /\ f.s.gc = s.gc /\ f.s.raw = s.raw
        /\ f.s.put = s.put /\ f.s.owed = s.owed
    BY <1>4, <1>6
  <2>2. Duty(f.s, n, op) /\ Asks(f.s, op, x)
    BY <1>5, <2>1, DutySame
  <2>3. GcSendsBody(s, f.s, n)
    BY <1>2, <2>1, <2>2 DEF GcSendsBody
  <2>4. QED
    BY <2>1, <2>3 DEF GcMoves
<1>7. QED
  BY <1>4, <1>6 DEF f, q

\* gc_begin_current, gc_next_candidate, gc_release_and_next.
LEMMA GcBeginMoves ==
    ASSUME NEW s, NEW n, Tables(s), s.gc.queue # <<>>
    PROVE  GcMoves(s, GcBegin(s), n)
<1> DEFINE q == [NsReq("reserve", 0) EXCEPT !.dig = Candidate(s)]
           f == ForwardNs(s, Sweeper("gc_reserve"), q)
<1>1. q.op = "reserve" /\ q.dig = Candidate(s)
  BY DEF NsReq
<1>2. GcBegin(s) = IF AnyPut(s) \/ s.raw.stage # "idle" \/ ~f.ok THEN GcPageDone(s) ELSE f.s
  BY DEF GcBegin
<1> HIDE DEF q
<1>3. ASSUME s.raw.stage = "idle" PROVE f.ok => GcMoves(s, f.s, n)
  <2>1. Duty(s, n, "gc_reserve")
    BY <1>3 DEF Duty
  <2>2. Asks(s, "gc_reserve", q)
    BY <1>1 DEF Asks
  <2>3. QED
    BY <1>1, <2>1, <2>2, GcForwardNs DEF GcNs
<1>4. GcMoves(s, GcPageDone(s), n)
  BY GcPageDoneSet, GcSetMoves
<1> HIDE DEF f
<1>5. QED
  BY <1>2, <1>3, <1>4

\* gc_next_candidate is a move of the sweep.
LEMMA GcNextMoves ==
    ASSUME NEW s, NEW n, Working(s)
    PROVE  GcMoves(s, GcNext(s), n)
<1>1. Tables(s) /\ s.gc.queue # <<>> /\ s.gc.queue \in Seq(Digest)
  BY DEF Working, Tables, Gc
<1>2. CASE Len(s.gc.queue) = 1
  <2>1. GcNext(s) = GcPageDone(s)
    BY <1>2 DEF GcNext
  <2>2. QED
    BY <1>1, <2>1, GcPageDoneSet, GcSetMoves
<1>3. CASE Len(s.gc.queue) # 1
  <2> DEFINE x == Tail(s.gc.queue)
             t == [s EXCEPT !.gc.queue = x]
             u == [t EXCEPT !.gc.check = 0]
  <2>1. GcNext(s) = GcBegin(u)
    <3>1. IsRouter(s) /\ IsGc(s.gc)
      BY <1>1 DEF Tables, Gc
    <3>2. u = [s EXCEPT !.gc.queue = Tail(@), !.gc.check = 0]
      BY <3>1 DEF IsRouter, IsGc
    <3>3. QED
      BY <1>3, <3>2 DEF GcNext
  <2>2. x \in Seq(Digest) /\ x # <<>>
    <3> DEFINE y == s.gc.queue
    <3> HIDE DEF y
    <3>1. y \in Seq(Digest) /\ y # <<>> /\ Len(y) # 1
      BY <1>1, <1>3 DEF y
    <3>2. Len(y) \in Nat /\ Len(y) # 0
      BY <3>1, EmptySeq, LenProperties
    <3>3. Tail(y) \in Seq(Digest) /\ Len(Tail(y)) = Len(y) - 1
      BY <3>1, HeadTailProperties
    <3>4. Len(Tail(y)) # 0
      BY <3>1, <3>2, <3>3
    <3>5. QED
      BY <3>3, <3>4, EmptySeq DEF y
  <2> HIDE DEF x
  <2>3. GcSet(s, t) /\ t.gc.queue = x /\ Tables(t)
    BY <1>1, <2>2, GcQueue DEF GcSet
  <2> HIDE DEF t
  <2>4. GcSet(t, u) /\ ButFor("check", t, u) /\ Tables(u)
    BY <2>3, GcCheckSet DEF GcSet
  <2> HIDE DEF u
  <2>5. u.gc.queue # <<>>
    BY <2>2, <2>3, <2>4 DEF ButFor, GcField
  <2>6. GcMoves(u, GcBegin(u), n)
    BY <2>4, <2>5, GcBeginMoves
  <2>7. QED
    BY <2>1, <2>3, <2>4, <2>6, GcSetThen
<1>4. QED
  BY <1>2, <1>3

\* gc_release_and_next is a move of the sweep.
LEMMA GcReleaseMoves ==
    ASSUME NEW s, NEW n, Working(s)
    PROVE  GcMoves(s, GcRelease(s), n)
<1> DEFINE t == [s EXCEPT !.gc.reserved = FALSE]
           q == [NsReq("release", 0) EXCEPT !.dig = Candidate(s)]
           f == ForwardNs(t, Sweeper("gc_release"), q)
<1>1. GcRelease(s) = IF s.gc.reserved /\ f.ok THEN f.s ELSE GcNext(t)
  BY DEF GcRelease
<1>2. q.op = "release"
  BY DEF NsReq
<1>3. GcSet(s, t) /\ ButFor("reserved", s, t)
  BY GcReserved DEF Working
<1> HIDE DEF t, q
<1>4. Working(t)
  BY <1>3 DEF Working, GcSet, ButFor, GcField
<1>5. f.ok => GcMoves(t, f.s, n)
  <2>1. Duty(t, n, "gc_release") /\ Asks(t, "gc_release", q)
    BY <1>2, <1>4 DEF Duty, Asks, Working
  <2>2. QED
    BY <1>4, <2>1, GcForwardNs DEF GcNs, Working
<1>6. GcMoves(t, GcNext(t), n)
  BY <1>4, GcNextMoves
<1> HIDE DEF f
<1>7. QED
  BY <1>1, <1>3, <1>5, <1>6, GcSetThen

\* A request of the sweep that cannot be sent lets the candidate go.
LEMMA OrReleaseNs ==
    ASSUME NEW s, Working(s), NEW n, NEW op \in GcNs, NEW q,
           q.op = "release" => op = "gc_release", Duty(s, n, op), Asks(s, op, q)
    PROVE  GcMoves(s, OrRelease(ForwardNs(s, Sweeper(op), q)), n)
<1> DEFINE f == ForwardNs(s, Sweeper(op), q)
<1>1. /\ ~f.ok => f.s = s
      /\ f.ok => GcMoves(s, f.s, n)
  BY GcForwardNs DEF Working
<1> HIDE DEF f
<1>2. GcMoves(s, OrRelease(f), n)
  BY <1>1, GcReleaseMoves DEF OrRelease
<1>3. QED
  BY <1>2 DEF f

\* The same, of a request to the object index.
LEMMA OrReleaseObj ==
    ASSUME NEW s, Working(s), NEW n, NEW op \in GcObj, NEW q, Duty(s, n, op), Asks(s, op, q)
    PROVE  GcMoves(s, OrRelease(ForwardObj(s, Sweeper(op), q)), n)
<1> DEFINE f == ForwardObj(s, Sweeper(op), q)
<1>1. /\ ~f.ok => f.s = s
      /\ f.ok => GcMoves(s, f.s, n)
  BY GcForwardObj DEF Working
<1> HIDE DEF f
<1>2. GcMoves(s, OrRelease(f), n)
  BY <1>1, GcReleaseMoves DEF OrRelease
<1>3. QED
  BY <1>2 DEF f

\* The same, of a request to the body plane.
LEMMA OrReleaseBody ==
    ASSUME NEW s, Working(s), NEW n, NEW op \in GcBody, NEW r, NEW d,
           Duty(s, n, op), Asks(s, op, BodyReq(r, 0, d))
    PROVE  GcMoves(s, OrRelease(ForwardBody(s, Sweeper(op), BodyReq(r, 0, d))), n)
<1> DEFINE f == ForwardBody(s, Sweeper(op), BodyReq(r, 0, d))
<1>1. /\ ~f.ok => f.s = s
      /\ f.ok => GcMoves(s, f.s, n)
  BY GcForwardBody DEF Working
<1> HIDE DEF f
<1>2. GcMoves(s, OrRelease(f), n)
  BY <1>1, GcReleaseMoves DEF OrRelease
<1>3. QED
  BY <1>2 DEF f

\* gc_check_page.
LEMMA GcCheckMoves ==
    ASSUME NEW s, Working(s), NEW n, NEW at \in Nat, Candidate(s) \in n.reserved,
           Clear(n, Candidate(s), at), at # 0 => n.flush = "none"
    PROVE  GcMoves(s, GcCheck(s, at), n)
<1> DEFINE t == [s EXCEPT !.gc.check = at]
           q == [NsReq("referenced", 0) EXCEPT !.dig = Candidate(s), !.at = at]
<1>1. q.op = "referenced" /\ q.dig = Candidate(s) /\ q.at = at
  BY DEF NsReq
<1>2. GcSet(s, t) /\ t.gc.check = at /\ ButFor("check", s, t)
  BY GcCheckSet DEF Working
<1>3. GcCheck(s, at) = OrRelease(ForwardNs(t, Sweeper("gc_check"), q))
  BY DEF GcCheck
<1> HIDE DEF t, q
<1>4. Working(t) /\ Candidate(t) = Candidate(s)
  BY <1>2 DEF Working, GcSet, ButFor, GcField, Candidate
<1>5. Duty(t, n, "gc_check")
  BY <1>2, <1>4 DEF Duty, Working
<1>6. Asks(t, "gc_check", q)
  BY <1>1, <1>2, <1>4 DEF Asks
<1>7. GcMoves(t, GcCheck(s, at), n)
  BY <1>1, <1>3, <1>4, <1>5, <1>6, OrReleaseNs DEF GcNs
<1>8. QED
  BY <1>2, <1>7, GcSetThen

\* A candidate is checked only once its reservation stands.
LEMMA GcReserveAnswerMoves ==
    ASSUME NEW s, NEW n, NEW a, Tables(s), Duty(s, n, "gc_reserve"), Hears(s, n, "gc_reserve", a)
    PROVE  GcMoves(s, GcReserveAnswer(s, a), n)
<1>1. Working(s)
  BY DEF Duty, Working
<1>2. CASE ~a.yes
  BY <1>1, <1>2, GcNextMoves DEF GcReserveAnswer
<1>3. CASE a.yes
  <2> DEFINE t == [s EXCEPT !.gc.reserved = TRUE]
  <2>1. GcSet(s, t) /\ ButFor("reserved", s, t)
    BY GcReserved
  <2>2. GcReserveAnswer(s, a) = GcCheck(t, 0)
    BY <1>3 DEF GcReserveAnswer
  <2> HIDE DEF t
  <2>3. Working(t) /\ Candidate(t) = Candidate(s)
    BY <1>1, <2>1 DEF Working, GcSet, ButFor, GcField, Candidate
  <2>4. Candidate(t) \in n.reserved
    BY <1>3, <2>3 DEF Hears
  <2>5. Clear(n, Candidate(t), 0)
    BY SizesAssumption DEF Clear, Key
  <2>6. GcMoves(t, GcCheck(t, 0), n)
    BY <2>3, <2>4, <2>5, GcCheckMoves
  <2>7. QED
    BY <2>1, <2>2, <2>6, GcSetThen
<1>4. QED
  BY <1>2, <1>3

\* The end of the proof.
LEMMA GcDeleteDescriptorMoves ==
    ASSUME NEW s, Working(s), NEW n, s.gc.phase = "body" => Proven(n, Candidate(s))
    PROVE  GcMoves(s, GcDeleteDescriptor(s), n)
<1> DEFINE q == ObjReq("remove", Candidate(s))
<1>1. q.op = "remove"
  BY DEF ObjReq
<1>2. GcDeleteDescriptor(s) = OrRelease(ForwardObj(s, Sweeper("gc_obj_remove"), q))
  BY DEF GcDeleteDescriptor
<1> HIDE DEF q
<1>3. Duty(s, n, "gc_obj_remove") /\ Asks(s, "gc_obj_remove", q)
  BY <1>1 DEF Duty, Asks, Working
<1>4. QED
  BY <1>2, <1>3, OrReleaseObj DEF GcObj

\* With the descriptor gone the body phase deletes the body it proved free.
LEMMA GcObjRemoveAnswerMoves ==
    ASSUME NEW s, NEW n, NEW a, Tables(s), Duty(s, n, "gc_obj_remove")
    PROVE  GcMoves(s, GcObjRemoveAnswer(s, a), n)
<1>1. Working(s)
  BY DEF Duty, Working
<1>2. GcMoves(s, GcRelease(s), n)
  BY <1>1, GcReleaseMoves
<1>3. GcMoves(s, GcDeleteBody(s), n)
  <2>1. CASE s.gc.phase = "object"
    BY <1>2, <2>1 DEF GcDeleteBody
  <2>2. CASE s.gc.phase # "object"
    <3>1. s.gc.phase = "body"
      BY <2>2 DEF Tables, Gc
    <3>2. Proven(n, Candidate(s))
      BY <3>1 DEF Duty
    <3> DEFINE d == Candidate(s)
               q == BodyReq("delete", 0, d)
    <3>3. q.op = "delete" /\ q.dig = d
      BY DEF BodyReq
    <3>4. GcDeleteBody(s) = OrRelease(ForwardBody(s, Sweeper("gc_delete"), BodyReq("delete", 0, d)))
      BY <2>2 DEF GcDeleteBody
    <3> HIDE DEF q
    <3>5. Duty(s, n, "gc_delete") /\ Asks(s, "gc_delete", q)
      BY <1>1, <3>2, <3>3 DEF Duty, Asks, Working
    <3> HIDE DEF d
    <3>6. QED
      BY <1>1, <3>4, <3>5, OrReleaseBody DEF GcBody, q
  <2>3. QED
    BY <2>1, <2>2
<1>4. QED
  BY <1>2, <1>3 DEF GcObjRemoveAnswer

\* A walk over the volumes' maps, as it goes on.
OnWalk(s, n) == Working(s) /\ Walking(s.gc, n, Candidate(s))

\* A page of a map is read for the walk.
LEMMA GcWalkReadMoves ==
    ASSUME NEW s, NEW n, Working(s), NEW op \in {"gc_root", "gc_leaf"}, NEW d, Duty(s, n, op),
           op = "gc_root" => d = Head(s.gc.roots), op = "gc_leaf" => d = Head(s.gc.leaves)
    PROVE  GcMoves(s, GcWalkRead(s, d, op), n)
<1> DEFINE q == BodyReq("get", 0, d)
<1>1. q.op = "get" /\ q.dig = d
  BY DEF BodyReq
<1> HIDE DEF q
<1>2. Asks(s, op, q)
  BY <1>1 DEF Asks
<1>3. GcMoves(s, OrRelease(ForwardBody(s, Sweeper(op), BodyReq("get", 0, d))), n)
  BY <1>2, OrReleaseBody DEF GcBody, q
<1>4. QED
  BY <1>3 DEF GcWalkRead

\* A page of roots is asked for, those before it read.
LEMMA GcWalkPageMoves ==
    ASSUME NEW s, NEW n, Working(s), Duty(s, n, "gc_roots")
    PROVE  GcMoves(s, GcWalkPage(s, s.gc.next), n)
<1> DEFINE q == [NsReq("roots", 0) EXCEPT !.at = s.gc.next]
<1>1. q.op = "roots" /\ q.at = s.gc.next
  BY DEF NsReq
<1>2. GcWalkPage(s, s.gc.next) = OrRelease(ForwardNs(s, Sweeper("gc_roots"), q))
  BY DEF GcWalkPage
<1> HIDE DEF q
<1>3. Asks(s, "gc_roots", q)
  BY <1>1 DEF Asks
<1>4. QED
  BY <1>1, <1>2, <1>3, OrReleaseNs DEF GcNs

\* The next root, the next page, or the end of the proof.
LEMMA GcWalkRootMoves ==
    ASSUME NEW s, NEW n, OnWalk(s, n)
    PROVE  GcMoves(s, GcWalkRoot(s), n)
<1> DEFINE d == Candidate(s)
<1>1. Working(s) /\ Walking(s.gc, n, d)
  BY DEF OnWalk
<1>2. /\ s.gc.phase = "body" /\ Frozen(n, d) /\ Clear(n, d, NKeys)
      /\ \A k \in Key : n.bind[k].vol => \/ Unlisted(n.bind[k].obj, d)
                                         \/ Among(n.bind[k].obj, s.gc.roots)
                                         \/ Ahead(s.gc, k)
  BY <1>1 DEF Walking
<1>3. CASE s.gc.roots # <<>>
  <2>1. Duty(s, n, "gc_root")
    BY <1>1, <1>3 DEF Duty, Working
  <2>2. GcWalkRoot(s) = GcWalkRead(s, Head(s.gc.roots), "gc_root")
    BY <1>3 DEF GcWalkRoot
  <2>3. QED
    BY <1>1, <2>1, <2>2, GcWalkReadMoves
<1>4. ASSUME s.gc.roots = <<>>
      PROVE  \A k \in Key : ~Among(n.bind[k].obj, s.gc.roots)
  BY <1>4 DEF Among
<1>5. CASE s.gc.roots = <<>> /\ s.gc.next # 0
  <2>1. \A k \in Key : n.bind[k].vol => Unlisted(n.bind[k].obj, d) \/ k > s.gc.next
    BY <1>2, <1>4, <1>5 DEF Ahead
  <2>2. Duty(s, n, "gc_roots")
    BY <1>1, <1>2, <2>1 DEF Duty, Working
  <2>3. GcWalkRoot(s) = GcWalkPage(s, s.gc.next)
    BY <1>5 DEF GcWalkRoot
  <2>4. QED
    BY <1>1, <2>2, <2>3, GcWalkPageMoves
<1>6. CASE s.gc.roots = <<>> /\ s.gc.next = 0
  <2>1. Proven(n, d)
    BY <1>2, <1>4, <1>6 DEF Ahead, Proven
  <2>2. GcWalkRoot(s) = IF AnyPut(s) THEN GcRelease(s) ELSE GcDeleteDescriptor(s)
    BY <1>6 DEF GcWalkRoot
  <2>3. QED
    BY <1>1, <2>1, <2>2, GcReleaseMoves, GcDeleteDescriptorMoves
<1>7. QED
  BY <1>3, <1>5, <1>6

\* What a sequence lists is its head or in its tail.
LEMMA AmongTail ==
    ASSUME NEW x, IsSeq(x), x # <<>>, NEW y, Among(y, x)
    PROVE  y = Head(x) \/ Among(y, Tail(x))
<1>1. /\ Len(Tail(x)) = Len(x) - 1 /\ Len(x) \in Nat \ {0} /\ IsSeq(Tail(x))
      /\ \A i \in 1..(Len(x) - 1) : Tail(x)[i] = x[i + 1]
      /\ Head(x) = x[1]
  BY SeqTail
<1>2. PICK i \in 1..Len(x) : x[i] = y
  BY DEF Among
<1>3. CASE i = 1
  BY <1>1, <1>2, <1>3
<1>4. CASE i # 1
  <2>1. i - 1 \in 1..(Len(x) - 1) /\ i = (i - 1) + 1
    BY <1>1, <1>4
  <2>2. Tail(x)[i - 1] = y
    BY <1>1, <1>2, <2>1
  <2>3. i - 1 \in 1..Len(Tail(x))
    BY <1>1, <2>1
  <2>4. QED
    BY <2>2, <2>3 DEF Among
<1>5. QED
  BY <1>3, <1>4

\* A root whose map is read to its end is done with.
LEMMA GcRootDone ==
    ASSUME NEW s, NEW n, OnWalk(s, n), s.gc.roots # <<>>, Unlisted(Head(s.gc.roots), Candidate(s))
    PROVE  GcMoves(s, GcWalkRoot([s EXCEPT !.gc.roots = Tail(@)]), n)
<1> DEFINE x == Tail(s.gc.roots)
           t == [s EXCEPT !.gc.roots = x]
           d == Candidate(s)
<1>1. Tables(s) /\ IsSeq(s.gc.roots)
  BY DEF OnWalk, Working, Tables, Gc
<1>2. IsSeq(x)
  BY <1>1, SeqTail
<1>3. \A y : Among(y, s.gc.roots) => y = Head(s.gc.roots) \/ Among(y, x)
  BY <1>1, AmongTail
<1>4. [s EXCEPT !.gc.roots = Tail(@)] = t
  OBVIOUS
<1> HIDE DEF x
<1>5. GcSet(s, t) /\ t.gc.roots = x /\ ButFor("roots", s, t)
  BY <1>1, <1>2, GcRootsSet
<1> HIDE DEF t
<1>6. /\ t.gc.phase = s.gc.phase /\ t.gc.next = s.gc.next /\ t.gc.queue = s.gc.queue
      /\ Candidate(t) = d
  BY <1>5 DEF ButFor, GcField, Candidate
<1>7. Working(t)
  BY <1>5, <1>6 DEF OnWalk, Working, GcSet
<1>8. Walking(t.gc, n, d)
  BY <1>3, <1>5, <1>6 DEF OnWalk, Walking, Ahead
<1>9. GcMoves(t, GcWalkRoot(t), n)
  BY <1>6, <1>7, <1>8, GcWalkRootMoves DEF OnWalk
<1>10. QED
  BY <1>4, <1>5, <1>9, GcSetThen

\* The leaf pages of the root in hand that may still list the candidate.
OnLeaf(s, n) ==
    LET d == Candidate(s)
        r == Head(s.gc.roots)
    IN  /\ OnWalk(s, n) /\ s.gc.roots # <<>> /\ d \notin Child[r]
        /\ \A e \in Child[r] : d \notin Child[e] \/ Among(e, s.gc.leaves)

\* The next leaf page, or the next root once the leaves are read.
LEMMA GcWalkLeafMoves ==
    ASSUME NEW s, NEW n, OnLeaf(s, n)
    PROVE  GcMoves(s, GcWalkLeaf(s), n)
<1>1. OnWalk(s, n) /\ Working(s) /\ Walking(s.gc, n, Candidate(s)) /\ s.gc.roots # <<>>
  BY DEF OnLeaf, OnWalk
<1>2. CASE s.gc.leaves # <<>>
  <2>1. Duty(s, n, "gc_leaf")
    BY <1>1, <1>2 DEF OnLeaf, Duty, Working
  <2>2. GcWalkLeaf(s) = GcWalkRead(s, Head(s.gc.leaves), "gc_leaf")
    BY <1>2 DEF GcWalkLeaf
  <2>3. QED
    BY <1>1, <2>1, <2>2, GcWalkReadMoves
<1>3. CASE s.gc.leaves = <<>>
  <2>1. \A e : ~Among(e, s.gc.leaves)
    BY <1>3 DEF Among
  <2>2. Unlisted(Head(s.gc.roots), Candidate(s))
    BY <2>1 DEF OnLeaf, Unlisted
  <2>3. GcWalkLeaf(s) = GcWalkRoot([s EXCEPT !.gc.roots = Tail(@)])
    BY <1>3 DEF GcWalkLeaf
  <2>4. QED
    BY <1>1, <2>2, <2>3, GcRootDone
<1>4. QED
  BY <1>2, <1>3

\* Other leaves in hand.
LEMMA GcLeavesMoves ==
    ASSUME NEW s, NEW n, OnWalk(s, n), s.gc.roots # <<>>, NEW x, IsSeq(x),
           Candidate(s) \notin Child[Head(s.gc.roots)],
           \A e \in Child[Head(s.gc.roots)] : Candidate(s) \notin Child[e] \/ Among(e, x)
    PROVE  GcMoves(s, GcWalkLeaf([s EXCEPT !.gc.leaves = x]), n)
<1> DEFINE t == [s EXCEPT !.gc.leaves = x]
<1>1. GcSet(s, t) /\ t.gc.leaves = x /\ ButFor("leaves", s, t)
  BY GcLeavesSet DEF OnWalk, Working
<1> HIDE DEF t
<1>2. /\ t.gc.phase = s.gc.phase /\ t.gc.next = s.gc.next /\ t.gc.queue = s.gc.queue
      /\ t.gc.roots = s.gc.roots /\ Candidate(t) = Candidate(s)
  BY <1>1 DEF ButFor, GcField, Candidate
<1>3. Working(t)
  BY <1>1, <1>2 DEF OnWalk, Working, GcSet
<1>4. Walking(t.gc, n, Candidate(t))
  BY <1>2 DEF OnWalk, Walking, Ahead
<1>5. OnLeaf(t, n)
  BY <1>1, <1>2, <1>3, <1>4 DEF OnLeaf, OnWalk
<1>6. GcMoves(t, GcWalkLeaf(t), n)
  BY <1>5, GcWalkLeafMoves
<1>7. QED
  BY <1>1, <1>6, GcSetThen DEF t

\* The walk begins with every volume ahead of it.
LEMMA GcWalkBeginMoves ==
    ASSUME NEW s, NEW n, Working(s), s.gc.phase = "body", Frozen(n, Candidate(s)),
           Clear(n, Candidate(s), NKeys)
    PROVE  GcMoves(s, GcWalkBegin(s), n)
<1> DEFINE a == [s EXCEPT !.gc.view = None]
           b == [a EXCEPT !.gc.next = 0]
           c == [b EXCEPT !.gc.roots = <<>>]
           t == [c EXCEPT !.gc.leaves = <<>>]
<1>1. GcWalkBegin(s) = GcWalkPage(t, 0)
  <2>1. IsRouter(s) /\ IsGc(s.gc)
    BY DEF Working, Tables, Gc
  <2>2. t = [s EXCEPT !.gc.view = None, !.gc.next = 0, !.gc.roots = <<>>, !.gc.leaves = <<>>]
    BY <2>1 DEF IsRouter, IsGc
  <2>3. QED
    BY <2>2 DEF GcWalkBegin
<1>2. IsSeq(<<>>)
  <2>1. <<>> \in Seq({})
    OBVIOUS
  <2>2. QED
    BY <2>1 DEF IsSeq
<1>3. GcSet(s, a) /\ ButFor("view", s, a) /\ Tables(a)
  BY GcView DEF Working, GcSet
<1> HIDE DEF a
<1>4. GcSet(a, b) /\ b.gc.next = 0 /\ ButFor("next", a, b) /\ Tables(b)
  BY <1>3, GcNextSet DEF GcSet
<1> HIDE DEF b
<1>5. GcSet(b, c) /\ ButFor("roots", b, c) /\ Tables(c)
  BY <1>2, <1>4, GcRootsSet DEF GcSet
<1> HIDE DEF c
<1>6. GcSet(c, t) /\ ButFor("leaves", c, t) /\ Tables(t)
  BY <1>2, <1>5, GcLeavesSet DEF GcSet
<1> HIDE DEF t
<1>7. t.gc.next = 0 /\ t.gc.queue = s.gc.queue /\ t.gc.phase = "body"
  BY <1>3, <1>4, <1>5, <1>6 DEF ButFor, GcField
<1>8. GcSet(s, t)
  BY <1>3, <1>4, <1>5, <1>6, GcSetSet
<1>9. Working(t) /\ Candidate(t) = Candidate(s)
  BY <1>7, <1>8 DEF Working, GcSet, Candidate
<1>10. \A k \in Key : k > t.gc.next
  BY <1>7, SizesAssumption DEF Key
<1>11. Duty(t, n, "gc_roots")
  BY <1>7, <1>9, <1>10 DEF Duty, Working
<1>12. GcMoves(t, GcWalkPage(t, 0), n)
  BY <1>7, <1>9, <1>11, GcWalkPageMoves
<1>13. QED
  BY <1>1, <1>8, <1>12, GcSetThen

\* Where a page of the namespace ends.
LEMMA PageEnds ==
    ASSUME NEW at \in Nat
    PROVE  /\ PageEnd(at) \in Nat /\ Cursor(at) \in Nat
           /\ Cursor(at) # 0 => Cursor(at) = PageEnd(at)
           /\ Cursor(at) = 0 => PageEnd(at) = NKeys
           /\ \A k \in Key : k > at => k \in Scanned(at) \/ (Cursor(at) # 0 /\ k > Cursor(at))
<1>1. NKeys \in Nat \ {0} /\ Window \in Nat \ {0}
  BY SizesAssumption
<1>2. PageEnd(at) \in Nat \ {0} /\ PageEnd(at) <= NKeys
  BY <1>1 DEF PageEnd
<1>3. QED
  BY <1>1, <1>2 DEF Cursor, Scanned, Key

\* The check goes on to the next page, to the walk, or lets the candidate go.
LEMMA GcCheckAnswerMoves ==
    ASSUME NEW s, NEW n, NEW a, Tables(s), Duty(s, n, "gc_check"), Hears(s, n, "gc_check", a)
    PROVE  GcMoves(s, GcCheckAnswer(s, a), n)
<1> DEFINE d == Candidate(s)
           at == s.gc.check
           t == [s EXCEPT !.gc.check = 0]
<1>1. Working(s) /\ d \in n.reserved
  BY DEF Duty, Working
<1>2. ~a.yes => /\ n.flush = "none" /\ Clear(n, d, PageEnd(at)) /\ a.next = Cursor(at)
  BY DEF Hears
<1>3. at \in Nat
  BY DEF Tables, Gc
<1>4. GcSet(s, t) /\ ButFor("check", s, t)
  BY GcCheckSet
<1> HIDE DEF t
<1>5. Working(t) /\ Candidate(t) = d /\ t.gc.phase = s.gc.phase
  BY <1>1, <1>4 DEF Working, GcSet, ButFor, GcField, Candidate
<1>6. CASE ~a.yes /\ a.next # 0
  <2>1. GcCheckAnswer(s, a) = GcCheck(s, a.next)
    BY <1>6 DEF GcCheckAnswer
  <2>2. a.next \in Nat /\ a.next = PageEnd(at)
    BY <1>2, <1>3, <1>6, PageEnds
  <2>3. Clear(n, d, a.next)
    BY <1>2, <1>6, <2>2
  <2>4. QED
    BY <1>1, <1>2, <1>6, <2>1, <2>2, <2>3, GcCheckMoves
<1>7. CASE a.yes \/ (a.next = 0 /\ AnyPut(s))
  <2>1. GcCheckAnswer(s, a) = GcRelease(t)
    BY <1>7 DEF GcCheckAnswer, t
  <2>2. QED
    BY <1>4, <1>5, <2>1, GcReleaseMoves, GcSetThen
<1>8. CASE ~a.yes /\ a.next = 0 /\ ~AnyPut(s)
  <2>1. GcCheckAnswer(s, a) = IF s.gc.phase = "body" THEN GcWalkBegin(t) ELSE GcDeleteDescriptor(t)
    BY <1>8 DEF GcCheckAnswer, t
  <2>2. PageEnd(at) = NKeys
    BY <1>2, <1>3, <1>8, PageEnds
  <2>3. Frozen(n, d) /\ Clear(n, d, NKeys)
    BY <1>1, <1>2, <1>8, <2>2 DEF Frozen
  <2>4. s.gc.phase = "body" => GcMoves(t, GcWalkBegin(t), n)
    BY <1>5, <2>3, GcWalkBeginMoves
  <2>5. s.gc.phase # "body" => GcMoves(t, GcDeleteDescriptor(t), n)
    BY <1>5, GcDeleteDescriptorMoves
  <2>6. QED
    BY <1>4, <2>1, <2>4, <2>5, GcSetThen
<1>9. QED
  BY <1>6, <1>7, <1>8

\* A page of roots leaves each volume read, listed or ahead.
LEMMA GcRootsAnswerMoves ==
    ASSUME NEW s, NEW n, NEW a, Tables(s), Duty(s, n, "gc_roots"), Hears(s, n, "gc_roots", a)
    PROVE  GcMoves(s, GcRootsAnswer(s, a), n)
<1> DEFINE d == Candidate(s)
           at == s.gc.next
           b == [s EXCEPT !.gc.view = a.view + 1]
           c == [b EXCEPT !.gc.roots = a.roots]
           t == [c EXCEPT !.gc.next = a.next]
<1>1. /\ Working(s) /\ s.gc.phase = "body" /\ Frozen(n, d) /\ Clear(n, d, NKeys)
      /\ \A k \in Key : n.bind[k].vol => Unlisted(n.bind[k].obj, d) \/ k > at
  BY DEF Duty, Working
<1>2. /\ a.next = Cursor(at) /\ IsSeq(a.roots)
      /\ \A k \in Scanned(at) : n.bind[k].vol => Among(n.bind[k].obj, a.roots)
  BY DEF Hears
<1>3. at \in Nat
  BY DEF Tables, Gc
<1>4. CASE s.gc.view \notin {None, a.view + 1}
  <2>1. GcRootsAnswer(s, a) = GcRelease(s)
    BY <1>4 DEF GcRootsAnswer
  <2>2. QED
    BY <1>1, <2>1, GcReleaseMoves
<1>5. CASE s.gc.view \in {None, a.view + 1}
  <2>1. GcRootsAnswer(s, a) = GcWalkRoot(t)
    <3>1. IsRouter(s) /\ IsGc(s.gc)
      BY DEF Tables, Gc
    <3>2. t = [s EXCEPT !.gc.view = a.view + 1, !.gc.roots = a.roots, !.gc.next = a.next]
      BY <3>1 DEF IsRouter, IsGc
    <3>3. QED
      BY <1>5, <3>2 DEF GcRootsAnswer
  <2>2. GcSet(s, b) /\ ButFor("view", s, b) /\ Tables(b)
    BY GcView DEF GcSet
  <2> HIDE DEF b
  <2>3. GcSet(b, c) /\ c.gc.roots = a.roots /\ ButFor("roots", b, c) /\ Tables(c)
    BY <1>2, <2>2, GcRootsSet DEF GcSet
  <2> HIDE DEF c
  <2>4. a.next \in Nat
    BY <1>2, <1>3, PageEnds
  <2>5. GcSet(c, t) /\ t.gc.next = a.next /\ ButFor("next", c, t) /\ Tables(t)
    BY <2>3, <2>4, GcNextSet DEF GcSet
  <2> HIDE DEF t
  <2>6. GcSet(s, t)
    BY <2>2, <2>3, <2>5, GcSetSet
  <2>7. /\ t.gc.phase = "body" /\ t.gc.next = a.next /\ t.gc.roots = a.roots
        /\ t.gc.queue = s.gc.queue
    BY <1>1, <2>2, <2>3, <2>5 DEF ButFor, GcField
  <2>8. Working(t) /\ Candidate(t) = d
    BY <1>1, <2>6, <2>7 DEF Working, GcSet, Candidate
  <2>9. ASSUME NEW k \in Key, n.bind[k].vol
        PROVE  \/ Unlisted(n.bind[k].obj, d) \/ Among(n.bind[k].obj, t.gc.roots)
               \/ Ahead(t.gc, k)
    <3>1. CASE k > at
      <4>1. k \in Scanned(at) \/ (Cursor(at) # 0 /\ k > Cursor(at))
        BY <1>3, <3>1, PageEnds
      <4>2. QED
        BY <1>2, <2>7, <2>9, <4>1 DEF Ahead
    <3>2. QED
      BY <1>1, <2>9, <3>1
  <2>10. Walking(t.gc, n, d)
    BY <1>1, <2>7, <2>9 DEF Walking
  <2>11. GcMoves(t, GcWalkRoot(t), n)
    BY <2>8, <2>10, GcWalkRootMoves DEF OnWalk
  <2>12. QED
    BY <2>1, <2>6, <2>11, GcSetThen
<1>6. QED
  BY <1>4, <1>5

\* The digests a page of a map lists.
LEMMA ChildrenListed ==
    ASSUME NEW r \in Digest
    PROVE  IsSeq(InOrder(Child[r])) /\ \A e \in Child[r] : Among(e, InOrder(Child[r]))
<1>1. Child[r] \subseteq Digest /\ NDigests \in Nat
  BY MapAssumption, SizesAssumption
<1>2. IsFiniteSet(Digest) /\ Digest \subseteq Nat
  BY <1>1, FS_Interval DEF Digest
<1>3. IsFiniteSet(Child[r]) /\ Child[r] \in SUBSET Nat
  BY <1>1, <1>2, FS_Subset
<1>4. /\ InOrder(Child[r]) \in Seq(Child[r])
      /\ \A x \in Child[r] : \E i \in 1..Len(InOrder(Child[r])) : InOrder(Child[r])[i] = x
  BY <1>3, InOrderLists
<1>5. QED
  BY <1>4 DEF IsSeq, Among

\* A root page that does not list the candidate leaves only its leaf pages.
LEMMA GcMapRootAnswerMoves ==
    ASSUME NEW s, NEW n, NEW a, Tables(s), Duty(s, n, "gc_root"), Hears(s, n, "gc_root", a)
    PROVE  GcMoves(s, GcMapRootAnswer(s, a), n)
<1> DEFINE d == Candidate(s)
<1>1. Working(s) /\ OnWalk(s, n) /\ s.gc.roots # <<>>
  BY DEF Duty, Working, OnWalk
<1>2. a.v = "ok" => a.dig = Head(s.gc.roots)
  BY DEF Hears
<1>3. CASE a.v # "ok" \/ d \in Child[a.dig]
  <2>1. GcMapRootAnswer(s, a) = GcRelease(s)
    BY <1>3 DEF GcMapRootAnswer
  <2>2. QED
    BY <1>1, <2>1, GcReleaseMoves
<1>4. CASE a.v = "ok" /\ d \notin Child[a.dig] /\ a.dig \in Deep
  <2> DEFINE x == InOrder(Child[a.dig])
  <2>1. GcMapRootAnswer(s, a) = GcWalkLeaf([s EXCEPT !.gc.leaves = x])
    BY <1>4 DEF GcMapRootAnswer
  <2>2. IsSeq(x) /\ \A e \in Child[a.dig] : Among(e, x)
    BY <1>4, ChildrenListed, MapAssumption
  <2> HIDE DEF x
  <2>3. QED
    BY <1>1, <1>2, <1>4, <2>1, <2>2, GcLeavesMoves
<1>5. CASE a.v = "ok" /\ d \notin Child[a.dig] /\ a.dig \notin Deep
  <2>1. GcMapRootAnswer(s, a) = GcWalkRoot([s EXCEPT !.gc.roots = Tail(@)])
    BY <1>5 DEF GcMapRootAnswer
  <2>2. Unlisted(Head(s.gc.roots), d)
    BY <1>2, <1>5 DEF Unlisted
  <2>3. QED
    BY <1>1, <2>1, <2>2, GcRootDone
<1>6. QED
  BY <1>3, <1>4, <1>5

\* A leaf page that does not list the candidate is done with.
LEMMA GcMapLeafAnswerMoves ==
    ASSUME NEW s, NEW n, NEW a, Tables(s), Duty(s, n, "gc_leaf"), Hears(s, n, "gc_leaf", a)
    PROVE  GcMoves(s, GcMapLeafAnswer(s, a), n)
<1> DEFINE d == Candidate(s)
           x == Tail(s.gc.leaves)
           r == Head(s.gc.roots)
<1>1. /\ Working(s) /\ OnWalk(s, n) /\ s.gc.roots # <<>> /\ s.gc.leaves # <<>>
      /\ d \notin Child[r] /\ \A e \in Child[r] : d \notin Child[e] \/ Among(e, s.gc.leaves)
  BY DEF Duty, Working, OnWalk
<1>2. a.v = "ok" => a.dig = Head(s.gc.leaves)
  BY DEF Hears
<1>3. CASE a.v # "ok" \/ d \in Child[a.dig]
  <2>1. GcMapLeafAnswer(s, a) = GcRelease(s)
    BY <1>3 DEF GcMapLeafAnswer
  <2>2. QED
    BY <1>1, <2>1, GcReleaseMoves
<1>4. CASE a.v = "ok" /\ d \notin Child[a.dig]
  <2>1. GcMapLeafAnswer(s, a) = GcWalkLeaf([s EXCEPT !.gc.leaves = x])
    BY <1>4 DEF GcMapLeafAnswer
  <2>2. IsSeq(s.gc.leaves)
    BY DEF Tables, Gc
  <2>3. IsSeq(x) /\ \A e : Among(e, s.gc.leaves) => e = a.dig \/ Among(e, x)
    BY <1>1, <1>2, <1>4, <2>2, SeqTail, AmongTail
  <2> HIDE DEF x
  <2>4. \A e \in Child[r] : d \notin Child[e] \/ Among(e, x)
    BY <1>1, <1>4, <2>3
  <2>5. QED
    BY <1>1, <2>1, <2>3, <2>4, GcLeavesMoves
<1>5. QED
  BY <1>3, <1>4

\* A page of an inventory.
LEMMA GcPageMoves ==
    ASSUME NEW s, NEW n, NEW a, Tables(s), a.page \in Seq(Digest)
    PROVE  GcMoves(s, GcPage(s, a), n)
<1> DEFINE y == (a.next = 0)
           t == [s EXCEPT !.gc.wrapped = y]
           u == [t EXCEPT !.gc.queue = a.page]
<1>1. \/ GcPage(s, a) = GcBegin(u) /\ a.page # <<>>
      \/ GcPage(s, a) = AdvancePhase(t)
      \/ GcPage(s, a) = t
  BY DEF GcPage
<1> HIDE DEF y
<1>2. GcSet(s, t) /\ Tables(t)
  BY GcWrapped DEF GcSet
<1> HIDE DEF t
<1>3. GcSet(t, u) /\ u.gc.queue = a.page /\ Tables(u)
  BY <1>2, GcQueue DEF GcSet
<1> HIDE DEF u
<1>4. a.page # <<>> => GcMoves(s, GcBegin(u), n)
  BY <1>2, <1>3, GcBeginMoves, GcSetThen
<1>5. GcMoves(s, AdvancePhase(t), n)
  BY <1>2, AdvancePhaseSet, GcSetMoves, GcSetThen
<1>6. QED
  BY <1>1, <1>2, <1>4, <1>5, GcSetMoves

\* The answers to the inventories give candidates, or the next phase.
LEMMA GcScanAnswerMoves ==
    ASSUME NEW s, NEW n, NEW a, Tables(s), a.page \in Seq(Digest)
    PROVE  GcMoves(s, GcScanAnswer(s, a), n) /\ GcMoves(s, GcObjScanAnswer(s, a), n)
<1> DEFINE t == [s EXCEPT !.gc.asked = FALSE]
           u == [t EXCEPT !.gc.at = a.next]
           v == [t EXCEPT !.gc.objAt = a.next]
<1>1. IsRouter(s) /\ IsGc(s.gc)
  BY DEF Tables, Gc
<1>2. u = [s EXCEPT !.gc.asked = FALSE, !.gc.at = a.next]
  BY <1>1 DEF IsRouter, IsGc
<1>3. v = [s EXCEPT !.gc.asked = FALSE, !.gc.objAt = a.next]
  BY <1>1 DEF IsRouter, IsGc
<1>4. GcSet(s, t) /\ Tables(t)
  BY GcAsked DEF GcSet
<1>5. GcScanAnswer(s, a) = u \/ GcScanAnswer(s, a) = GcPage(u, a)
  BY <1>2 DEF GcScanAnswer
<1>6. GcObjScanAnswer(s, a) = AdvancePhase(v) \/ GcObjScanAnswer(s, a) = GcPage(v, a)
  BY <1>3 DEF GcObjScanAnswer
<1> HIDE DEF t
<1>7. GcSet(t, u) /\ Tables(u) /\ GcSet(t, v) /\ Tables(v)
  BY <1>4, GcAt, GcObjAt DEF GcSet
<1> HIDE DEF u, v
<1>8. GcSet(s, u) /\ GcSet(s, v)
  BY <1>4, <1>7, GcSetSet
<1>9. GcMoves(s, GcPage(u, a), n) /\ GcMoves(s, GcPage(v, a), n)
  BY <1>7, <1>8, GcPageMoves, GcSetThen
<1>10. GcMoves(s, u, n) /\ GcMoves(s, AdvancePhase(v), n)
  BY <1>7, <1>8, AdvancePhaseSet, GcSetMoves, GcSetThen
<1>11. QED
  BY <1>5, <1>6, <1>9, <1>10

\* gc_kick asks for a page of the inventory of the phase.
LEMMA GcKickMoves ==
    ASSUME NEW s, NEW n, Tables(s), s.raw.stage = "idle"
    PROVE  GcMoves(s, GcKick(s), n)
<1> DEFINE t == [s EXCEPT !.gc.asked = TRUE]
           qo == ObjReq("scan", s.gc.objAt)
           qb == BodyReq("scan", 0, s.gc.at)
           xb == [qb EXCEPT !.id = FreshId(s)]
           fo == ForwardObj(s, Sweeper("gc_obj_scan"), qo)
           fb == ForwardBody(s, Sweeper("gc_scan"), qb)
           uo == [fo.s EXCEPT !.gc.asked = TRUE]
           ub == [fb.s EXCEPT !.gc.asked = TRUE]
<1>1. \/ GcKick(s) = s
      \/ fo.ok /\ GcKick(s) = uo
      \/ fb.ok /\ GcKick(s) = ub
  BY DEF GcKick
<1>2. /\ qo.op = "scan" /\ xb.op = "scan" /\ xb.cid = 0 /\ "id" \in DOMAIN qb
      /\ qb = [y \in DOMAIN qb |-> qb[y]]
  BY DEF ObjReq, BodyReq
<1> HIDE DEF qo, qb
<1>3. fo.ok => /\ Tables(fo.s) /\ SentObj(s, fo.s, Sweeper("gc_obj_scan"), qo)
               /\ SameBody(s, fo.s) /\ SameNs(s, fo.s) /\ fo.s.gc = s.gc /\ fo.s.raw = s.raw
               /\ fo.s.put = s.put /\ fo.s.owed = s.owed
  BY ForwardsObj
<1>4. fb.ok => /\ Tables(fb.s) /\ SentBody(s, fb.s, Sweeper("gc_scan"), xb)
               /\ SameNs(s, fb.s) /\ SameObj(s, fb.s) /\ fb.s.gc = s.gc /\ fb.s.raw = s.raw
               /\ fb.s.put = s.put /\ fb.s.owed = s.owed
  BY <1>2, ForwardsBody
<1> HIDE DEF fo, fb, xb
<1>5. ASSUME fo.ok PROVE GcMoves(s, uo, n)
  <2>1. GcSet(fo.s, uo) /\ uo.gc.asked = TRUE
    BY <1>3, <1>5, GcAsked
  <2> HIDE DEF uo
  <2>2. /\ Tables(uo) /\ SentObj(s, uo, Sweeper("gc_obj_scan"), qo) /\ SameBody(s, uo)
        /\ SameNs(s, uo) /\ uo.raw = s.raw /\ uo.put = s.put /\ uo.owed = s.owed
    BY <1>3, <1>5, <2>1 DEF GcSet, SentObj, SameNs, SameBody, SameObj
  <2>3. Duty(uo, n, "gc_obj_scan") /\ Asks(uo, "gc_obj_scan", qo)
    BY <1>2, <2>1, <2>2 DEF Duty, Asks
  <2>4. GcSendsObj(s, uo, n)
    BY <2>2, <2>3 DEF GcSendsObj, GcObj
  <2>5. QED
    BY <2>2, <2>4 DEF GcMoves
<1>6. ASSUME fb.ok PROVE GcMoves(s, ub, n)
  <2>1. GcSet(fb.s, ub) /\ ub.gc.asked = TRUE
    BY <1>4, <1>6, GcAsked
  <2> HIDE DEF ub
  <2>2. /\ Tables(ub) /\ SentBody(s, ub, Sweeper("gc_scan"), xb) /\ SameObj(s, ub)
        /\ SameNs(s, ub) /\ ub.raw = s.raw /\ ub.put = s.put /\ ub.owed = s.owed
    BY <1>4, <1>6, <2>1 DEF GcSet, SentBody, SameNs, SameBody, SameObj
  <2>3. Duty(ub, n, "gc_scan") /\ Asks(ub, "gc_scan", xb)
    BY <1>2, <2>1, <2>2 DEF Duty, Asks
  <2>4. GcSendsBody(s, ub, n)
    BY <1>2, <2>2, <2>3 DEF GcSendsBody, GcBody
  <2>5. QED
    BY <2>2, <2>4 DEF GcMoves
<1>7. GcMoves(s, s, n)
  BY DEF GcMoves, SameNs, SameBody, SameObj
<1>8. QED
  BY <1>1, <1>5, <1>6, <1>7

-----------------------------------------------------------------------------
(* Taking an answer.                                                         *)

\* The oldest entry and the oldest answer go together.
Shifted(u, v, h, w, k) ==
    /\ u # <<>> /\ Head(u) = u[1] /\ Head(h) = h[1] /\ 1 \in 1..Len(u) /\ 1 <= Len(h)
    /\ IsSeq(w) /\ IsSeq(k) /\ Len(w) = Len(k) + Len(v)
    /\ \A j \in 1..Len(w) :
          /\ j + 1 \in 1..Len(u) /\ j + 1 # 1 /\ w[j] = u[j + 1]
          /\ j <= Len(k) <=> j + 1 <= Len(h)
          /\ j <= Len(k) => k[j] = h[j + 1]
          /\ j - Len(k) = (j + 1) - Len(h)
    /\ \A i, j \in 1..Len(w) : i + 1 = j + 1 => i = j
    /\ \A j \in 1..Len(v) : w[Len(k) + j] = u[Len(h) + j]

\* Taking the oldest answer with its entry keeps the rest in step.
LEMMA Shifts ==
    ASSUME NEW u, NEW v, NEW h, InStep(u, v, h), h # <<>>, NEW w, NEW k, w = Tail(u), k = Tail(h)
    PROVE  Shifted(u, v, h, w, k)
<1>1. Len(u) \in Nat /\ Len(v) \in Nat /\ Len(h) \in Nat /\ Len(u) = Len(h) + Len(v) /\ Len(h) # 0
  BY IsSeqLen DEF InStep
<1>2. u # <<>>
  <2>1. Len(u) # 0
    BY <1>1
  <2>2. QED
    BY <2>1, IsSeqLen DEF InStep
<1>3. /\ IsSeq(w) /\ Len(w) = Len(u) - 1 /\ Head(u) = u[1]
      /\ \A i \in 1..(Len(u) - 1) : w[i] = u[i + 1]
  BY <1>2, SeqTail DEF InStep
<1>4. /\ IsSeq(k) /\ Len(k) = Len(h) - 1 /\ Head(h) = h[1]
      /\ \A i \in 1..(Len(h) - 1) : k[i] = h[i + 1]
  BY SeqTail DEF InStep
<1>5. Len(w) = Len(u) - 1 /\ Len(k) = Len(h) - 1
  BY <1>3, <1>4
<1>6. /\ 1 \in 1..Len(u) /\ 1 <= Len(h) /\ Len(w) = Len(k) + Len(v)
      /\ \A i, j \in 1..Len(w) : i + 1 = j + 1 => i = j
  BY <1>1, <1>5
<1>7. ASSUME NEW j \in 1..Len(w)
      PROVE  /\ j + 1 \in 1..Len(u) /\ j + 1 # 1 /\ j \in 1..(Len(u) - 1)
             /\ j <= Len(k) <=> j + 1 <= Len(h)
             /\ j <= Len(k) => j \in 1..(Len(h) - 1)
             /\ j - Len(k) = (j + 1) - Len(h)
  BY <1>1, <1>5
<1>8. \A j \in 1..Len(v) : Len(k) + j \in 1..(Len(u) - 1) /\ (Len(k) + j) + 1 = Len(h) + j
  BY <1>1, <1>5
<1>9. \A j \in 1..Len(v) : w[Len(k) + j] = u[Len(h) + j]
  BY <1>3, <1>8
<1>10. \A j \in 1..Len(w) : /\ w[j] = u[j + 1]
                            /\ j <= Len(k) => k[j] = h[j + 1]
  BY <1>3, <1>4, <1>7
<1>11. QED
  BY <1>2, <1>3, <1>4, <1>6, <1>7, <1>9, <1>10 DEF Shifted

\* Entry j after the head is taken is entry j + 1 before it.
NsShift(s, a, t, b, j) ==
    /\ j + 1 \in 1..Len(s.nsPend) /\ j + 1 # 1 /\ t.nsPend[j] = s.nsPend[j + 1]
    /\ j <= Len(b.ns) <=> j + 1 <= Len(a.ns)
    /\ j <= Len(b.ns) => b.ns[j] = a.ns[j + 1]
    /\ j - Len(b.ns) = (j + 1) - Len(a.ns)
ObjShift(s, a, t, b, j) ==
    /\ j + 1 \in 1..Len(s.objPend) /\ j + 1 # 1 /\ t.objPend[j] = s.objPend[j + 1]
    /\ j <= Len(b.obj) <=> j + 1 <= Len(a.obj)
    /\ j <= Len(b.obj) => b.obj[j] = a.obj[j + 1]
    /\ j - Len(b.obj) = (j + 1) - Len(a.obj)

\* A router that lost an entry, or some of its queued requests.
LEMMA TableOf ==
    ASSUME NEW s, Tables(s), NEW x
    PROVE  /\ IsSeq(x) => Tables([s EXCEPT !.nsPend = x]) /\ Tables([s EXCEPT !.nsTx = x])
           /\ IsSeq(x) => Tables([s EXCEPT !.objPend = x]) /\ Tables([s EXCEPT !.objTx = x])
           /\ IsSeq(x) => Tables([s EXCEPT !.bodyTx = x])
           /\ IsFiniteSet(x) => Tables([s EXCEPT !.bodyPend = x])
<1>1. IsRouter(s)
  BY DEF Tables
<1>2. ASSUME IsSeq(x) PROVE Tables([s EXCEPT !.nsPend = x])
  BY <1>1, <1>2 DEF Tables, IsRouter
<1>3. ASSUME IsSeq(x) PROVE Tables([s EXCEPT !.nsTx = x])
  BY <1>1, <1>3 DEF Tables, IsRouter
<1>4. ASSUME IsSeq(x) PROVE Tables([s EXCEPT !.objPend = x])
  BY <1>1, <1>4 DEF Tables, IsRouter
<1>5. ASSUME IsSeq(x) PROVE Tables([s EXCEPT !.objTx = x])
  BY <1>1, <1>5 DEF Tables, IsRouter
<1>6. ASSUME IsSeq(x) PROVE Tables([s EXCEPT !.bodyTx = x])
  BY <1>1, <1>6 DEF Tables, IsRouter
<1>7. ASSUME IsFiniteSet(x) PROVE Tables([s EXCEPT !.bodyPend = x])
  BY <1>1, <1>7 DEF Tables, IsRouter
<1>8. QED
  BY <1>2, <1>3, <1>4, <1>5, <1>6, <1>7

\* The namespace's oldest answer is its oldest entry's: it has the entry's duty, and
\* says what the entry hears.
LEMMA TakesNs ==
    ASSUME NEW s, NEW n, NEW a, Core(s, n, a), a.ns # <<>>
    PROVE  LET t == [s EXCEPT !.nsPend = Tail(@)]
               b == [a EXCEPT !.ns = Tail(@)]
               e == Head(s.nsPend)
           IN  /\ Core(t, n, b) /\ NsEntry(e)
               /\ e.cid = 0 => Quiet(t) /\ Duty(t, n, e.op) /\ Hears(t, n, e.op, Head(a.ns))
               /\ e.op = "raw" => /\ Quiet(t) /\ NoRaw(t) /\ Serving(t)
                                  /\ t.raw.stage \in {"reserve", "check", "release"}
<1> DEFINE t == [s EXCEPT !.nsPend = Tail(@)]
           b == [a EXCEPT !.ns = Tail(@)]
           e == Head(s.nsPend)
<1>1. /\ Tables(s) /\ Answers(a) /\ Names(n) /\ InOrderAnswers(s, a) /\ ById(s, a) /\ RawOne(s)
      /\ NsOne(s, n, a) /\ BodyOne(s, n, a) /\ ObjOne(s, n, a)
  BY DEF Core, Sweeps
<1>2. /\ t.nsPend = Tail(s.nsPend) /\ t.nsTx = s.nsTx /\ SameBody(s, t) /\ SameObj(s, t)
      /\ t.gc = s.gc /\ t.raw = s.raw
  BY <1>1 DEF Tables, IsRouter, SameBody, SameObj
<1>3. /\ b.ns = Tail(a.ns) /\ b.body = a.body /\ b.obj = a.obj
      /\ b = [ns |-> b.ns, body |-> b.body, obj |-> b.obj]
  BY <1>1 DEF Answers
<1>4. Shifted(s.nsPend, s.nsTx, a.ns, t.nsPend, b.ns)
  <2>1. InStep(s.nsPend, s.nsTx, a.ns)
    BY <1>1 DEF InStep, Tables, Answers, InOrderAnswers
  <2> HIDE DEF t, b
  <2>2. QED
    BY <1>2, <1>3, <2>1, Shifts
<1>5. Tables(t)
  <2>1. IsSeq(Tail(s.nsPend))
    BY <1>2, <1>4 DEF Shifted
  <2>2. QED
    BY <1>1, <2>1, TableOf
<1>6. Answers(b)
  BY <1>1, <1>3, <1>4 DEF Answers, Shifted
<1> HIDE DEF t, b
<1>7. \A j \in 1..Len(t.nsPend) : NsShift(s, a, t, b, j)
  BY <1>4, Zenon DEF Shifted, NsShift
<1>8. \A i, j \in 1..Len(t.nsPend) : i + 1 = j + 1 => i = j
  BY <1>4 DEF Shifted
<1>9. e = s.nsPend[1] /\ Head(a.ns) = a.ns[1] /\ 1 \in 1..Len(s.nsPend) /\ 1 <= Len(a.ns)
  BY <1>4 DEF Shifted
<1> HIDE DEF e
<1>10. InOrderAnswers(t, b)
  <2>1. Len(t.nsPend) = Len(b.ns) + Len(t.nsTx)
    BY <1>2, <1>4 DEF Shifted
  <2>2. Len(t.objPend) = Len(b.obj) + Len(t.objTx)
    BY <1>1, <1>2, <1>3 DEF InOrderAnswers, SameObj
  <2>3. \A j \in 1..Len(t.nsPend) : NsEntry(t.nsPend[j])
    BY <1>1, <1>7 DEF InOrderAnswers, NsShift
  <2>4. \A j \in 1..Len(t.objPend) : ObjEntry(t.objPend[j])
    BY <1>1, <1>2 DEF InOrderAnswers, SameObj
  <2>5. \A j \in 1..Len(s.nsTx) : t.nsPend[Len(b.ns) + j] = s.nsPend[Len(a.ns) + j]
    BY <1>4 DEF Shifted
  <2>6. \A j \in 1..Len(t.nsTx) :
           t.nsTx[j].op = "release" => t.nsPend[Len(b.ns) + j].op \in {"gc_release", "raw"}
    BY <1>1, <1>2, <2>5 DEF InOrderAnswers
  <2>7. QED
    BY <2>1, <2>2, <2>3, <2>4, <2>6 DEF InOrderAnswers
<1>11. ById(t, b)
  BY <1>1, <1>2, <1>3 DEF ById, SameBody
<1>12. RawOne(t)
  <2>1. \A i \in 1..Len(t.nsPend) : t.nsPend[i].op = "raw" =>
           /\ t.raw.stage \in {"reserve", "check", "release"}
           /\ \A j \in 1..Len(t.nsPend) : t.nsPend[j].op = "raw" => j = i
    BY <1>1, <1>2, <1>7, <1>8 DEF RawOne, NsShift
  <2>2. QED
    BY <1>1, <1>2, <2>1 DEF RawOne, SameBody
<1>13. NsOne(t, n, b)
  <2> SUFFICES ASSUME NEW j \in 1..Len(t.nsPend), t.nsPend[j].cid = 0
      PROVE  /\ \A i \in 1..Len(t.nsPend) : t.nsPend[i].cid = 0 => i = j
             /\ \A p \in t.bodyPend : p.e.cid # 0
             /\ \A i \in 1..Len(t.objPend) : t.objPend[i].cid # 0
             /\ Duty(t, n, t.nsPend[j].op)
             /\ IF j <= Len(b.ns) THEN Hears(t, n, t.nsPend[j].op, b.ns[j])
                ELSE Asks(t, t.nsPend[j].op, t.nsTx[j - Len(b.ns)])
    BY DEF NsOne
  <2>1. NsShift(s, a, t, b, j)
    BY <1>7
  <2>2. j + 1 \in 1..Len(s.nsPend) /\ t.nsPend[j] = s.nsPend[j + 1]
    BY <2>1 DEF NsShift
  <2>3. /\ \A i \in 1..Len(s.nsPend) : s.nsPend[i].cid = 0 => i = j + 1
        /\ \A p \in s.bodyPend : p.e.cid # 0
        /\ \A i \in 1..Len(s.objPend) : s.objPend[i].cid # 0
        /\ Duty(s, n, s.nsPend[j + 1].op)
        /\ IF j + 1 <= Len(a.ns) THEN Hears(s, n, s.nsPend[j + 1].op, a.ns[j + 1])
           ELSE Asks(s, s.nsPend[j + 1].op, s.nsTx[(j + 1) - Len(a.ns)])
    BY <1>1, <2>2 DEF NsOne
  <2>4. \A i \in 1..Len(t.nsPend) : t.nsPend[i].cid = 0 => i = j
    <3>1. \A i \in 1..Len(t.nsPend) : t.nsPend[i].cid = 0 => i + 1 = j + 1
      BY <1>7, <2>3 DEF NsShift
    <3>2. QED
      BY <1>8, <3>1
  <2>5. /\ \A p \in t.bodyPend : p.e.cid # 0
        /\ \A i \in 1..Len(t.objPend) : t.objPend[i].cid # 0
    BY <1>2, <2>3 DEF SameBody, SameObj
  <2>6. Duty(t, n, t.nsPend[j].op)
    BY <1>2, <2>2, <2>3, DutySame
  <2>7. IF j <= Len(b.ns) THEN Hears(t, n, t.nsPend[j].op, b.ns[j])
        ELSE Asks(t, t.nsPend[j].op, t.nsTx[j - Len(b.ns)])
    BY <1>2, <2>1, <2>2, <2>3, DutySame DEF NsShift
  <2>8. QED
    BY <2>4, <2>5, <2>6, <2>7
<1>14. BodyOne(t, n, b) /\ ObjOne(t, n, b)
  <2>1. /\ \A op : Duty(t, n, op) <=> Duty(s, n, op)
        /\ \A op, x : Asks(t, op, x) <=> Asks(s, op, x)
        /\ \A op, x : Hears(t, n, op, x) <=> Hears(s, n, op, x)
    BY <1>2, DutySame
  <2>2. BodyOne(t, n, b)
    BY <1>1, <1>2, <1>3, <2>1 DEF BodyOne, SameBody, SameObj
  <2>3. ObjOne(t, n, b)
    BY <1>1, <1>2, <1>3, <2>1 DEF ObjOne, SameObj
  <2>4. QED
    BY <2>2, <2>3
<1>15. Core(t, n, b)
  BY <1>1, <1>5, <1>6, <1>10, <1>11, <1>12, <1>13, <1>14 DEF Core, Sweeps
<1>16. NsEntry(e)
  BY <1>1, <1>9 DEF InOrderAnswers
<1>17. ASSUME e.cid = 0 PROVE Quiet(t) /\ Duty(t, n, e.op) /\ Hears(t, n, e.op, Head(a.ns))
  <2>1. /\ \A i \in 1..Len(s.nsPend) : s.nsPend[i].cid = 0 => i = 1
        /\ \A p \in s.bodyPend : p.e.cid # 0
        /\ \A i \in 1..Len(s.objPend) : s.objPend[i].cid # 0
        /\ Duty(s, n, e.op) /\ Hears(s, n, e.op, Head(a.ns))
    BY <1>1, <1>9, <1>17 DEF NsOne
  <2>2. Duty(t, n, e.op) /\ Hears(t, n, e.op, Head(a.ns))
    BY <1>2, <2>1, DutySame
  <2>3. Quiet(t)
    BY <1>2, <1>7, <2>1 DEF Quiet, NsShift, SameBody, SameObj
  <2>4. QED
    BY <2>2, <2>3
<1>18. ASSUME e.op = "raw"
       PROVE  /\ Quiet(t) /\ NoRaw(t) /\ Serving(t)
              /\ t.raw.stage \in {"reserve", "check", "release"}
  <2>1. /\ s.raw.stage \in {"reserve", "check", "release"} /\ Serving(s)
        /\ \A j \in 1..Len(s.nsPend) : s.nsPend[j].op = "raw" => j = 1
        /\ \A p \in s.bodyPend : p.e.op \notin RawOp
    BY <1>1, <1>9, <1>18 DEF RawOne, Serving
  <2>2. NoRaw(t) /\ Serving(t)
    BY <1>2, <1>7, <2>1 DEF NoRaw, NsShift, SameBody, Serving
  <2>3. \A op : ~Duty(t, n, op)
    BY <1>2, <2>1 DEF Duty
  <2>4. Quiet(t)
    BY <1>13, <1>14, <2>3 DEF NsOne, BodyOne, ObjOne, Quiet
  <2>5. QED
    BY <1>2, <2>1, <2>2, <2>4
<1>19. QED
  BY <1>15, <1>16, <1>17, <1>18 DEF t, b, e

\* The index's oldest answer, likewise.
LEMMA TakesObj ==
    ASSUME NEW s, NEW n, NEW a, Core(s, n, a), a.obj # <<>>
    PROVE  LET t == [s EXCEPT !.objPend = Tail(@)]
               b == [a EXCEPT !.obj = Tail(@)]
               e == Head(s.objPend)
           IN  /\ Core(t, n, b) /\ ObjEntry(e)
               /\ e.cid = 0 => Quiet(t) /\ Duty(t, n, e.op) /\ Hears(t, n, e.op, Head(a.obj))
<1> DEFINE t == [s EXCEPT !.objPend = Tail(@)]
           b == [a EXCEPT !.obj = Tail(@)]
           e == Head(s.objPend)
<1>1. /\ Tables(s) /\ Answers(a) /\ Names(n) /\ InOrderAnswers(s, a) /\ ById(s, a) /\ RawOne(s)
      /\ NsOne(s, n, a) /\ BodyOne(s, n, a) /\ ObjOne(s, n, a)
  BY DEF Core, Sweeps
<1>2. /\ t.objPend = Tail(s.objPend) /\ t.objTx = s.objTx /\ SameBody(s, t) /\ SameNs(s, t)
      /\ t.gc = s.gc /\ t.raw = s.raw
  BY <1>1 DEF Tables, IsRouter, SameBody, SameNs
<1>3. /\ b.obj = Tail(a.obj) /\ b.body = a.body /\ b.ns = a.ns
      /\ b = [ns |-> b.ns, body |-> b.body, obj |-> b.obj]
  BY <1>1 DEF Answers
<1>4. Shifted(s.objPend, s.objTx, a.obj, t.objPend, b.obj)
  <2>1. InStep(s.objPend, s.objTx, a.obj)
    BY <1>1 DEF InStep, Tables, Answers, InOrderAnswers
  <2> HIDE DEF t, b
  <2>2. QED
    BY <1>2, <1>3, <2>1, Shifts
<1>5. Tables(t)
  <2>1. IsSeq(Tail(s.objPend))
    BY <1>2, <1>4 DEF Shifted
  <2>2. QED
    BY <1>1, <2>1, TableOf
<1>6. Answers(b)
  BY <1>1, <1>3, <1>4 DEF Answers, Shifted
<1> HIDE DEF t, b
<1>7. \A j \in 1..Len(t.objPend) : ObjShift(s, a, t, b, j)
  BY <1>4, Zenon DEF Shifted, ObjShift
<1>8. \A i, j \in 1..Len(t.objPend) : i + 1 = j + 1 => i = j
  BY <1>4 DEF Shifted
<1>9. e = s.objPend[1] /\ Head(a.obj) = a.obj[1] /\ 1 \in 1..Len(s.objPend) /\ 1 <= Len(a.obj)
  BY <1>4 DEF Shifted
<1> HIDE DEF e
<1>10. InOrderAnswers(t, b)
  <2>1. Len(t.objPend) = Len(b.obj) + Len(t.objTx)
    BY <1>2, <1>4 DEF Shifted
  <2>3. \A j \in 1..Len(t.objPend) : ObjEntry(t.objPend[j])
    BY <1>1, <1>7 DEF InOrderAnswers, ObjShift
  <2>7. QED
    BY <1>1, <1>2, <1>3, <2>1, <2>3 DEF InOrderAnswers, SameNs
<1>11. ById(t, b)
  BY <1>1, <1>2, <1>3 DEF ById, SameBody
<1>12. RawOne(t)
  BY <1>1, <1>2 DEF RawOne, SameBody, SameNs
<1>13. ObjOne(t, n, b)
  <2> SUFFICES ASSUME NEW j \in 1..Len(t.objPend), t.objPend[j].cid = 0
      PROVE  /\ \A i \in 1..Len(t.objPend) : t.objPend[i].cid = 0 => i = j
             /\ Duty(t, n, t.objPend[j].op)
             /\ IF j <= Len(b.obj) THEN Hears(t, n, t.objPend[j].op, b.obj[j])
                ELSE Asks(t, t.objPend[j].op, t.objTx[j - Len(b.obj)])
    BY DEF ObjOne
  <2>1. ObjShift(s, a, t, b, j)
    BY <1>7
  <2>2. j + 1 \in 1..Len(s.objPend) /\ t.objPend[j] = s.objPend[j + 1]
    BY <2>1 DEF ObjShift
  <2>3. /\ \A i \in 1..Len(s.objPend) : s.objPend[i].cid = 0 => i = j + 1
        /\ Duty(s, n, s.objPend[j + 1].op)
        /\ IF j + 1 <= Len(a.obj) THEN Hears(s, n, s.objPend[j + 1].op, a.obj[j + 1])
           ELSE Asks(s, s.objPend[j + 1].op, s.objTx[(j + 1) - Len(a.obj)])
    BY <1>1, <2>2 DEF ObjOne
  <2>4. \A i \in 1..Len(t.objPend) : t.objPend[i].cid = 0 => i = j
    <3>1. \A i \in 1..Len(t.objPend) : t.objPend[i].cid = 0 => i + 1 = j + 1
      BY <1>7, <2>3 DEF ObjShift
    <3>2. QED
      BY <1>8, <3>1
  <2>6. Duty(t, n, t.objPend[j].op)
    BY <1>2, <2>2, <2>3, DutySame
  <2>7. IF j <= Len(b.obj) THEN Hears(t, n, t.objPend[j].op, b.obj[j])
        ELSE Asks(t, t.objPend[j].op, t.objTx[j - Len(b.obj)])
    BY <1>2, <2>1, <2>2, <2>3, DutySame DEF ObjShift
  <2>8. QED
    BY <2>4, <2>6, <2>7
<1>14. BodyOne(t, n, b) /\ NsOne(t, n, b)
  <2>1. \A j \in 1..Len(t.objPend) : t.objPend[j].cid = 0 =>
            \E i \in 1..Len(s.objPend) : s.objPend[i].cid = 0
    BY <1>7 DEF ObjShift
  <2>2. BodyOne(t, n, b)
    BY <1>1, <1>2, <1>3, <2>1, DutySame DEF BodyOne, SameBody
  <2>3. NsOne(t, n, b)
    <3>1. \A j \in 1..Len(s.nsPend) : s.nsPend[j].cid = 0 =>
             /\ \A i \in 1..Len(s.nsPend) : s.nsPend[i].cid = 0 => i = j
             /\ \A p \in s.bodyPend : p.e.cid # 0
             /\ \A i \in 1..Len(t.objPend) : t.objPend[i].cid # 0
             /\ Duty(t, n, s.nsPend[j].op)
             /\ IF j <= Len(a.ns) THEN Hears(t, n, s.nsPend[j].op, a.ns[j])
                ELSE Asks(t, s.nsPend[j].op, s.nsTx[j - Len(a.ns)])
      BY <1>1, <1>2, <2>1, DutySame DEF NsOne
    <3>2. t.nsPend = s.nsPend /\ t.nsTx = s.nsTx /\ b.ns = a.ns /\ t.bodyPend = s.bodyPend
      BY <1>2, <1>3 DEF SameBody, SameNs
    <3>3. QED
      BY <3>1, <3>2 DEF NsOne
  <2>4. QED
    BY <2>2, <2>3
<1>15. Core(t, n, b)
  BY <1>1, <1>5, <1>6, <1>10, <1>11, <1>12, <1>13, <1>14 DEF Core, Sweeps
<1>16. ObjEntry(e)
  BY <1>1, <1>9 DEF InOrderAnswers
<1>17. ASSUME e.cid = 0 PROVE Quiet(t) /\ Duty(t, n, e.op) /\ Hears(t, n, e.op, Head(a.obj))
  <2>1. /\ \A i \in 1..Len(s.objPend) : s.objPend[i].cid = 0 => i = 1
        /\ Duty(s, n, e.op) /\ Hears(s, n, e.op, Head(a.obj))
    BY <1>1, <1>9, <1>17 DEF ObjOne
  <2>2. Duty(t, n, e.op) /\ Hears(t, n, e.op, Head(a.obj))
    BY <1>2, <2>1, DutySame
  <2>3. /\ \A i \in 1..Len(s.nsPend) : s.nsPend[i].cid # 0
        /\ \A p \in s.bodyPend : p.e.cid # 0
    BY <1>1, <1>9, <1>17 DEF NsOne, BodyOne
  <2>4. Quiet(t)
    BY <1>2, <1>7, <2>1, <2>3 DEF Quiet, ObjShift, SameBody, SameNs
  <2>5. QED
    BY <2>2, <2>4
<1>19. QED
  BY <1>15, <1>16, <1>17 DEF t, b, e

\* An answer of the body plane, with the entry that has its id, likewise.
LEMMA TakesBody ==
    ASSUME NEW s, NEW n, NEW a, Core(s, n, a), NEW r \in a.body, NEW p \in s.bodyPend, p.id = r.id
    PROVE  LET t == [s EXCEPT !.bodyPend = @ \ {p}]
               b == [a EXCEPT !.body = @ \ {r}]
               e == p.e
           IN  /\ Core(t, n, b) /\ BodyEntry(e)
               /\ e.cid = 0 => Quiet(t) /\ Duty(t, n, e.op) /\ Hears(t, n, e.op, r.a)
               /\ e.op \in RawOp => Quiet(t) /\ NoRaw(t) /\ Serving(t)
<1> DEFINE t == [s EXCEPT !.bodyPend = @ \ {p}]
           b == [a EXCEPT !.body = @ \ {r}]
           e == p.e
<1>1. /\ Tables(s) /\ Answers(a) /\ Names(n) /\ InOrderAnswers(s, a) /\ ById(s, a) /\ RawOne(s)
      /\ NsOne(s, n, a) /\ BodyOne(s, n, a) /\ ObjOne(s, n, a)
  BY DEF Core, Sweeps
<1>2. /\ t.bodyPend = s.bodyPend \ {p} /\ t.bodyTx = s.bodyTx /\ SameNs(s, t) /\ SameObj(s, t)
      /\ t.gc = s.gc /\ t.raw = s.raw
  BY <1>1 DEF Tables, IsRouter, SameNs, SameObj
<1>3. /\ b.body = a.body \ {r} /\ b.ns = a.ns /\ b.obj = a.obj
      /\ b = [ns |-> b.ns, body |-> b.body, obj |-> b.obj]
  BY <1>1 DEF Answers
<1>5. Tables(t)
  <2>1. IsFiniteSet(s.bodyPend \ {p})
    BY <1>1, FS_RemoveElement DEF Tables
  <2>2. QED
    BY <1>1, <2>1, TableOf
<1>6. Answers(b)
  BY <1>1, <1>3 DEF Answers
<1> HIDE DEF t, b
<1>10. InOrderAnswers(t, b)
  BY <1>1, <1>2, <1>3 DEF InOrderAnswers, SameNs, SameObj
<1>11. ById(t, b)
  <2>1. \A x \in s.bodyPend : x # p => x.id # p.id
    BY <1>1 DEF ById
  <2>2. \A x \in a.body : x # r => x.id # r.id
    BY <1>1 DEF ById
  <2>3. \A i \in 1..Len(s.bodyTx) : s.bodyTx[i].id # r.id
    BY <1>1 DEF ById
  <2>4. \A x \in b.body : \E y \in t.bodyPend : y.id = x.id
    BY <1>1, <1>2, <1>3, <2>2 DEF ById
  <2>5. \A i \in 1..Len(t.bodyTx) :
           \E y \in t.bodyPend : y.id = t.bodyTx[i].id /\ (y.e.cid = 0 <=> t.bodyTx[i].cid = 0)
    BY <1>1, <1>2, <2>3 DEF ById
  <2>6. QED
    BY <1>1, <1>2, <1>3, <2>4, <2>5 DEF ById
<1>12. RawOne(t)
  BY <1>1, <1>2 DEF RawOne, SameNs
<1>13. NsOne(t, n, b) /\ ObjOne(t, n, b)
  BY <1>1, <1>2, <1>3, DutySame DEF NsOne, ObjOne, SameNs, SameObj
<1>14. BodyOne(t, n, b)
  <2> SUFFICES ASSUME NEW x \in t.bodyPend, x.e.cid = 0
      PROVE  /\ \A q \in t.bodyPend : q.e.cid = 0 => q = x
             /\ \A i \in 1..Len(t.objPend) : t.objPend[i].cid # 0
             /\ Duty(t, n, x.e.op)
             /\ \A i \in 1..Len(t.bodyTx) : t.bodyTx[i].id = x.id => Asks(t, x.e.op, t.bodyTx[i])
             /\ \A y \in b.body : y.id = x.id => Hears(t, n, x.e.op, y.a)
    BY DEF BodyOne
  <2>1. x \in s.bodyPend
    BY <1>2
  <2>2. /\ \A q \in s.bodyPend : q.e.cid = 0 => q = x
        /\ \A i \in 1..Len(s.objPend) : s.objPend[i].cid # 0
        /\ Duty(s, n, x.e.op)
        /\ \A i \in 1..Len(s.bodyTx) : s.bodyTx[i].id = x.id => Asks(s, x.e.op, s.bodyTx[i])
        /\ \A y \in a.body : y.id = x.id => Hears(s, n, x.e.op, y.a)
    BY <1>1, <2>1 DEF BodyOne
  <2>3. QED
    BY <1>2, <1>3, <2>2, DutySame DEF SameObj
<1>15. Core(t, n, b)
  BY <1>1, <1>5, <1>6, <1>10, <1>11, <1>12, <1>13, <1>14 DEF Core, Sweeps
<1>16. BodyEntry(e)
  BY <1>1 DEF ById
<1>17. ASSUME e.cid = 0 PROVE Quiet(t) /\ Duty(t, n, e.op) /\ Hears(t, n, e.op, r.a)
  <2>1. /\ \A q \in s.bodyPend : q.e.cid = 0 => q = p
        /\ \A i \in 1..Len(s.objPend) : s.objPend[i].cid # 0
        /\ Duty(s, n, e.op) /\ Hears(s, n, e.op, r.a)
    BY <1>1, <1>17 DEF BodyOne
  <2>2. Duty(t, n, e.op) /\ Hears(t, n, e.op, r.a)
    BY <1>2, <2>1, DutySame
  <2>3. \A i \in 1..Len(s.nsPend) : s.nsPend[i].cid # 0
    BY <1>1, <1>17 DEF NsOne
  <2>4. Quiet(t)
    BY <1>2, <2>1, <2>3 DEF Quiet, SameNs, SameObj
  <2>5. QED
    BY <2>2, <2>4
<1>18. ASSUME e.op \in RawOp PROVE Quiet(t) /\ NoRaw(t) /\ Serving(t)
  <2>1. /\ s.raw.stage = "body" /\ Serving(s)
        /\ \A j \in 1..Len(s.nsPend) : s.nsPend[j].op # "raw"
        /\ \A q \in s.bodyPend : q.e.op \in RawOp => q = p
    BY <1>1, <1>18 DEF RawOne, Serving
  <2>2. NoRaw(t) /\ Serving(t)
    BY <1>2, <2>1 DEF NoRaw, SameNs, Serving
  <2>3. \A op : ~Duty(t, n, op)
    BY <1>2, <2>1 DEF Duty
  <2>4. Quiet(t)
    BY <1>13, <1>14, <2>3 DEF NsOne, BodyOne, ObjOne, Quiet
  <2>5. QED
    BY <2>2, <2>4
<1>19. QED
  BY <1>15, <1>16, <1>17, <1>18 DEF t, b, e

-----------------------------------------------------------------------------
(* The router's steps.                                                       *)

\* Taking a request keeps the invariant.
LEMMA HandleCore ==
    ASSUME NEW s, NEW n, NEW a, Core(s, n, a), NEW c, c # 0, NEW q, q.op \in AskOp, NEW i
    PROVE  Core(Handle(s, c, q, i), n, a)
<1>1. Tables(s)
  BY DEF Core
<1>2. CASE q.op \in RawOp
  <2>1. Handle(s, c, q, i) = RawBegin(s, c, q)
    BY <1>2 DEF Handle, RawOp
  <2>2. QED
    BY <1>2, <2>1, RawBeginCore
<1>3. CASE q.op \notin RawOp
  BY <1>1, <1>3, HandleMoves, MovesCore
<1>4. QED
  BY <1>2, <1>3

\* The namespace's answer to the sweep leads to a move of the sweep.
LEMMA HandleNsSweeps ==
    ASSUME NEW s, Tables(s), NEW n, NEW e, NEW x, NsEntry(e), e.cid = 0,
           Duty(s, n, e.op), Hears(s, n, e.op, x)
    PROVE  GcMoves(s, HandleNs(s, e, x), n)
<1>1. e.op \in GcNs
  BY DEF NsEntry
<1>2. CASE e.op = "gc_reserve"
  <2>1. HandleNs(s, e, x) = GcReserveAnswer(s, x)
    BY <1>2 DEF HandleNs
  <2>2. QED
    BY <1>2, <2>1, GcReserveAnswerMoves
<1>3. CASE e.op = "gc_check"
  <2>1. HandleNs(s, e, x) = GcCheckAnswer(s, x)
    BY <1>3 DEF HandleNs
  <2>2. QED
    BY <1>3, <2>1, GcCheckAnswerMoves
<1>4. CASE e.op = "gc_roots"
  <2>1. HandleNs(s, e, x) = GcRootsAnswer(s, x)
    BY <1>4 DEF HandleNs
  <2>2. QED
    BY <1>4, <2>1, GcRootsAnswerMoves
<1>5. CASE e.op = "gc_release"
  <2>1. HandleNs(s, e, x) = GcNext(s)
    BY <1>5 DEF HandleNs
  <2>2. Working(s)
    BY <1>5 DEF Duty, Working
  <2>3. QED
    BY <2>1, <2>2, GcNextMoves
<1>6. QED
  BY <1>1, <1>2, <1>3, <1>4, <1>5 DEF GcNs

\* Handling the namespace's answer keeps the invariant.
LEMMA HandleNsCore ==
    ASSUME NEW s, NEW n, NEW a, Core(s, n, a), NEW e, NEW x, NsEntry(e),
           e.cid = 0 => Quiet(s) /\ Duty(s, n, e.op) /\ Hears(s, n, e.op, x),
           e.op = "raw" => /\ Quiet(s) /\ NoRaw(s) /\ Serving(s)
                           /\ s.raw.stage \in {"reserve", "check", "release"}
    PROVE  Core(HandleNs(s, e, x), n, a)
<1>1. Tables(s)
  BY DEF Core
<1>2. CASE e.op = "raw"
  <2>1. HandleNs(s, e, x) = RawNsAnswer(s, x)
    BY <1>2 DEF HandleNs
  <2>2. RawMoves(s, RawNsAnswer(s, x))
    BY <1>1, <1>2, RawNsAnswerMoves
  <2>3. QED
    BY <1>2, <2>1, <2>2, RawMovesCore
<1>3. CASE e.cid = 0
  BY <1>1, <1>3, HandleNsSweeps, GcMovesCore
<1>4. CASE e.cid # 0 /\ e.op # "raw"
  BY <1>1, <1>4, HandleNsMoves, MovesCore
<1>5. QED
  BY <1>2, <1>3, <1>4

\* The body plane's answer to the sweep leads to a move of the sweep.
LEMMA HandleBodySweeps ==
    ASSUME NEW s, Tables(s), NEW n, NEW e, NEW x, BodyEntry(e), e.cid = 0,
           Duty(s, n, e.op), Hears(s, n, e.op, x)
    PROVE  GcMoves(s, HandleBody(s, e, x), n)
<1>1. e.op \in GcBody
  BY DEF BodyEntry
<1>2. CASE e.op = "gc_scan"
  <2>1. HandleBody(s, e, x) = GcScanAnswer(s, x)
    BY <1>2 DEF HandleBody
  <2>2. x.page \in Seq(Digest)
    BY <1>2 DEF Hears
  <2>3. QED
    BY <2>1, <2>2, GcScanAnswerMoves
<1>3. CASE e.op = "gc_root"
  <2>1. HandleBody(s, e, x) = GcMapRootAnswer(s, x)
    BY <1>3 DEF HandleBody
  <2>2. QED
    BY <1>3, <2>1, GcMapRootAnswerMoves
<1>4. CASE e.op = "gc_leaf"
  <2>1. HandleBody(s, e, x) = GcMapLeafAnswer(s, x)
    BY <1>4 DEF HandleBody
  <2>2. QED
    BY <1>4, <2>1, GcMapLeafAnswerMoves
<1>5. CASE e.op = "gc_delete"
  <2>1. HandleBody(s, e, x) = GcRelease(s)
    BY <1>5 DEF HandleBody, GcDeleteAnswer
  <2>2. Working(s)
    BY <1>5 DEF Duty, Working
  <2>3. QED
    BY <2>1, <2>2, GcReleaseMoves
<1>6. QED
  BY <1>1, <1>2, <1>3, <1>4, <1>5 DEF GcBody

\* Handling the body plane's answer keeps the invariant.
LEMMA HandleBodyCore ==
    ASSUME NEW s, NEW n, NEW a, Core(s, n, a), NEW e, NEW x, BodyEntry(e),
           e.cid = 0 => Quiet(s) /\ Duty(s, n, e.op) /\ Hears(s, n, e.op, x),
           e.op \in RawOp => Quiet(s) /\ NoRaw(s) /\ Serving(s)
    PROVE  Core(HandleBody(s, e, x), n, a)
<1>1. Tables(s)
  BY DEF Core
<1>2. CASE e.op \in RawOp
  <2>1. HandleBody(s, e, x) = RawBodyAnswer(s, x)
    BY <1>2 DEF HandleBody, RawOp
  <2>2. RawMoves(s, RawBodyAnswer(s, x))
    BY <1>1, <1>2, RawBodyAnswerMoves
  <2>3. QED
    BY <1>2, <2>1, <2>2, RawMovesCore
<1>3. CASE e.cid = 0
  BY <1>1, <1>3, HandleBodySweeps, GcMovesCore
<1>4. CASE e.cid # 0 /\ e.op \notin RawOp
  BY <1>1, <1>4, HandleBodyMoves, MovesCore
<1>5. QED
  BY <1>2, <1>3, <1>4

\* The index's answer to the sweep leads to a move of the sweep.
LEMMA HandleObjSweeps ==
    ASSUME NEW s, Tables(s), NEW n, NEW e, NEW x, ObjEntry(e), e.cid = 0,
           Duty(s, n, e.op), Hears(s, n, e.op, x)
    PROVE  GcMoves(s, HandleObj(s, e, x), n)
<1>1. e.op \in GcObj
  BY DEF ObjEntry
<1>2. CASE e.op = "gc_obj_scan"
  <2>1. HandleObj(s, e, x) = GcObjScanAnswer(s, x)
    BY <1>2 DEF HandleObj
  <2>2. x.page \in Seq(Digest)
    BY <1>2 DEF Hears
  <2>3. QED
    BY <2>1, <2>2, GcScanAnswerMoves
<1>3. CASE e.op = "gc_obj_remove"
  <2>1. HandleObj(s, e, x) = GcObjRemoveAnswer(s, x)
    BY <1>3 DEF HandleObj
  <2>2. QED
    BY <1>3, <2>1, GcObjRemoveAnswerMoves
<1>4. QED
  BY <1>1, <1>2, <1>3 DEF GcObj

\* Handling the index's answer keeps the invariant.
LEMMA HandleObjCore ==
    ASSUME NEW s, NEW n, NEW a, Core(s, n, a), NEW e, NEW x, ObjEntry(e),
           e.cid = 0 => Quiet(s) /\ Duty(s, n, e.op) /\ Hears(s, n, e.op, x)
    PROVE  Core(HandleObj(s, e, x), n, a)
<1>1. Tables(s)
  BY DEF Core
<1>3. CASE e.cid = 0
  BY <1>1, <1>3, HandleObjSweeps, GcMovesCore
<1>4. CASE e.cid # 0
  BY <1>1, <1>4, HandleObjMoves, MovesCore
<1>5. QED
  BY <1>3, <1>4

\* A configuration whose counts go down is still one.
LEMMA CfgFewer ==
    ASSUME NEW f \in Config
    PROVE  /\ f.sweeps > 0 => [f EXCEPT !.sweeps = @ - 1] \in Config
           /\ f.faults > 0 => [f EXCEPT !.faults = @ - 1] \in Config
<1>1. f.sweeps \in Nat /\ f.faults \in Nat
  BY DEF Config
<1>2. \A x \in Nat : [f EXCEPT !.sweeps = x] \in Config /\ [f EXCEPT !.faults = x] \in Config
  BY DEF Config
<1>3. f.sweeps > 0 => f.sweeps - 1 \in Nat
  BY <1>1
<1>4. f.faults > 0 => f.faults - 1 \in Nat
  BY <1>1
<1>5. QED
  BY <1>2, <1>3, <1>4

\* The router takes a request.
LEMMA TakeRequestKeeps ==
    ASSUME IInv, NEW c \in Client, TakeRequest(c)
    PROVE  IInv'
<1>1. Core(ar, ns, ans) /\ Asking
  BY DEF IInv
<1>2. /\ user[c].at \in Nat \ {0} /\ user[c].at <= Len(cfg.asks[c])
      /\ cfg.asks[c] \in Seq(Request)
  BY <1>1 DEF Asking, Config, TakeRequest, Script
<1>3. Asked(c) \in Request
  BY <1>2 DEF Asked, Script
<1>4. Asked(c).op \in AskOp /\ c # 0
  BY <1>3, RouterAssumption DEF Request, Client
<1>5. Core(ar', ns, ans)
  BY <1>1, <1>4, HandleCore DEF TakeRequest
<1>6. ns' = ns /\ ans' = ans /\ cfg' = cfg /\ user' = [user EXCEPT ![c].asking = TRUE]
  BY DEF TakeRequest
<1>7. Asking'
  <2>1. user'[c] = [user[c] EXCEPT !.asking = TRUE] /\ IsUser(user[c])
    BY <1>1, <1>6 DEF Asking
  <2>2. IsUser(user'[c]) /\ user'[c].at = user[c].at
    BY <2>1 DEF IsUser
  <2>3. QED
    BY <1>1, <1>2, <1>6, <2>2 DEF Asking
<1>8. QED
  BY <1>5, <1>6, <1>7 DEF IInv

\* The router takes the namespace's answer.
LEMMA TakeNsKeeps ==
    ASSUME IInv, TakeNs
    PROVE  IInv'
<1>1. Core(ar, ns, ans) /\ Asking
  BY DEF IInv
<1> DEFINE t == [ar EXCEPT !.nsPend = Tail(@)]
           b == [ans EXCEPT !.ns = Tail(@)]
           e == Head(ar.nsPend)
           x == Head(ans.ns)
<1>2. /\ Core(t, ns, b) /\ NsEntry(e)
      /\ e.cid = 0 => Quiet(t) /\ Duty(t, ns, e.op) /\ Hears(t, ns, e.op, x)
      /\ e.op = "raw" => /\ Quiet(t) /\ NoRaw(t) /\ Serving(t)
                         /\ t.raw.stage \in {"reserve", "check", "release"}
  BY <1>1, TakesNs DEF TakeNs
<1>3. ar' = HandleNs(t, e, x) /\ ans' = b /\ ns' = ns /\ cfg' = cfg /\ user' = user
  BY DEF TakeNs
<1> HIDE DEF t, b, e, x
<1>4. Core(HandleNs(t, e, x), ns, b)
  BY <1>2, HandleNsCore
<1>5. QED
  BY <1>1, <1>3, <1>4 DEF IInv, Asking

\* The router takes an answer of the body plane.
LEMMA TakeBodyKeeps ==
    ASSUME IInv, TakeBody
    PROVE  IInv'
<1>1. Core(ar, ns, ans) /\ Asking
  BY DEF IInv
<1>2. PICK r \in ans.body, p \in ar.bodyPend :
         /\ p.id = r.id
         /\ ar' = HandleBody([ar EXCEPT !.bodyPend = @ \ {p}], p.e, r.a)
         /\ ans' = [ans EXCEPT !.body = @ \ {r}]
  BY DEF TakeBody
<1> DEFINE t == [ar EXCEPT !.bodyPend = @ \ {p}]
           b == [ans EXCEPT !.body = @ \ {r}]
           e == p.e
<1>3. /\ Core(t, ns, b) /\ BodyEntry(e)
      /\ e.cid = 0 => Quiet(t) /\ Duty(t, ns, e.op) /\ Hears(t, ns, e.op, r.a)
      /\ e.op \in RawOp => Quiet(t) /\ NoRaw(t) /\ Serving(t)
  BY <1>1, <1>2, TakesBody
<1>4. ar' = HandleBody(t, e, r.a) /\ ans' = b /\ ns' = ns /\ cfg' = cfg /\ user' = user
  BY <1>2 DEF TakeBody
<1> HIDE DEF t, b, e
<1>5. Core(HandleBody(t, e, r.a), ns, b)
  BY <1>3, HandleBodyCore
<1>6. QED
  BY <1>1, <1>4, <1>5 DEF IInv, Asking

\* The router takes the index's answer.
LEMMA TakeObjKeeps ==
    ASSUME IInv, TakeObj
    PROVE  IInv'
<1>1. Core(ar, ns, ans) /\ Asking
  BY DEF IInv
<1> DEFINE t == [ar EXCEPT !.objPend = Tail(@)]
           b == [ans EXCEPT !.obj = Tail(@)]
           e == Head(ar.objPend)
           x == Head(ans.obj)
<1>2. /\ Core(t, ns, b) /\ ObjEntry(e)
      /\ e.cid = 0 => Quiet(t) /\ Duty(t, ns, e.op) /\ Hears(t, ns, e.op, x)
  BY <1>1, TakesObj DEF TakeObj
<1>3. ar' = HandleObj(t, e, x) /\ ans' = b /\ ns' = ns /\ cfg' = cfg /\ user' = user
  BY DEF TakeObj
<1> HIDE DEF t, b, e, x
<1>4. Core(HandleObj(t, e, x), ns, b)
  BY <1>2, HandleObjCore
<1>5. QED
  BY <1>1, <1>3, <1>4 DEF IInv, Asking

\* The sweep is kicked.
LEMMA KickKeeps ==
    ASSUME IInv, Kick
    PROVE  IInv'
<1>1. Core(ar, ns, ans) /\ Asking /\ Tables(ar)
  BY DEF IInv, Core
<1>2. /\ ~ar.gc.asked /\ ar.gc.queue = <<>> /\ ar.raw.stage = "idle" /\ ar' = GcKick(ar)
      /\ cfg' = [cfg EXCEPT !.sweeps = @ - 1] /\ cfg.sweeps > 0
      /\ ns' = ns /\ ans' = ans /\ user' = user
  BY DEF Kick, GcBusy
<1>3. Quiet(ar)
  BY <1>1, <1>2, IdleQuiet
<1>4. GcMoves(ar, GcKick(ar), ns)
  BY <1>1, <1>2, GcKickMoves
<1>5. Core(GcKick(ar), ns, ans)
  BY <1>1, <1>3, <1>4, GcMovesCore
<1>6. cfg' \in Config
  BY <1>1, <1>2, CfgFewer DEF Asking
<1>7. QED
  BY <1>1, <1>2, <1>5, <1>6 DEF IInv, Asking

\* An answer is delivered.
LEMMA DeliverKeeps ==
    ASSUME IInv, Deliver
    PROVE  IInv'
<1>1. Core(ar, ns, ans) /\ Asking /\ Tables(ar)
  BY DEF IInv, Core
<1>2. /\ ar' = [ar EXCEPT !.owed = NoAnswer]
      /\ ns' = ns /\ ans' = ans /\ cfg' = cfg
  BY DEF Deliver
<1>3. ar' = Reply(ar, 0, "none", "ok", None)
  BY <1>2 DEF Reply, NoAnswer
<1>4. Core(ar', ns, ans)
  BY <1>1, <1>3, ReplyStill, StillMoves, MovesCore
<1> DEFINE c == ar.owed.cid
           y == [asking |-> FALSE,
                 at |-> IF ar.owed.status = "ok" THEN user[c].at + 1 ELSE Len(Script(c)) + 1,
                 pf |-> IF ar.owed.op = "put_open" THEN ar.owed.x ELSE user[c].pf]
<1>5. user' = [user EXCEPT ![c] = y]
  BY DEF Deliver
<1>6. c \in Client => IsUser(y) /\ y.at \in Nat \ {0}
  <2>1. ASSUME c \in Client PROVE Len(Script(c)) \in Nat /\ user[c].at \in Nat
    BY <1>1, <2>1 DEF Asking, Config, Script
  <2>2. QED
    BY <2>1 DEF IsUser
<1> HIDE DEF c, y
<1>7. Asking'
  BY <1>1, <1>2, <1>5, <1>6 DEF Asking
<1>8. QED
  BY <1>2, <1>4, <1>7 DEF IInv

-----------------------------------------------------------------------------
(* The planes' steps: what the namespace keeps of a proof.                   *)

\* A step from n to m that leaves what the sweep proved of d.
Stays(n, m, d) ==
    /\ d \in n.reserved => d \in m.reserved
    /\ Frozen(n, d) =>
          /\ Frozen(m, d)
          /\ \A k \in Key : n.bind[k].obj # d => m.bind[k].obj # d
          /\ \A k \in Key : m.bind[k].vol => n.bind[k].vol /\ m.bind[k].obj = n.bind[k].obj

\* One key bound anew, whatever becomes of the flush.
Rebound(n, m, k, b) ==
    /\ Names(m) /\ m.reserved = n.reserved
    /\ \A j \in Key : m.bind[j] = IF j = k THEN b ELSE n.bind[j]

\* Put, the namespace's one write of a binding, binds that key and no other.
LEMMA PutBinds ==
    ASSUME NEW n, Names(n), NEW f, NEW k, NEW b, IsBound(b)
    PROVE  /\ Rebound(n, Put([n EXCEPT !.flush = f], k, b).n, k, b)
           /\ Rebound(n, Put(n, k, b).n, k, b) /\ Put(n, k, b).n.flush = n.flush
<1>1. ASSUME NEW l, NEW g,
             l = [bind |-> n.bind, reserved |-> n.reserved, flush |-> g, view |-> n.view]
      PROVE  Rebound(n, Put(l, k, b).n, k, b) /\ Put(l, k, b).n.flush = g
  <2> DEFINE m == Put(l, k, b).n
  <2>2. m = [bind |-> [n.bind EXCEPT ![k] = b], reserved |-> n.reserved, flush |-> g,
             view |-> n.view]
    BY <1>1 DEF Put
  <2>3. \A j \in Key : m.bind[j] = IF j = k THEN b ELSE n.bind[j]
    BY <2>2 DEF Names
  <2>4. m.bind = [j \in Key |-> m.bind[j]]
    <3>1. ASSUME NEW h, h = [j \in Key |-> h[j]], NEW x, x = [h EXCEPT ![k] = b]
          PROVE  x = [j \in Key |-> x[j]]
      BY <3>1
    <3>2. m.bind = [n.bind EXCEPT ![k] = b] /\ n.bind = [j \in Key |-> n.bind[j]]
      BY <2>2 DEF Names
    <3> HIDE DEF m
    <3>3. QED
      BY <3>1, <3>2
  <2>5. \A j \in Key : IsBound(m.bind[j])
    BY <2>3 DEF Names
  <2>6. m = [bind |-> m.bind, reserved |-> m.reserved, flush |-> m.flush, view |-> m.view]
    BY <2>2
  <2>7. m.reserved = n.reserved /\ m.flush = g
    BY <2>2
  <2>8. QED
    BY <2>3, <2>4, <2>5, <2>6, <2>7 DEF Names, Rebound
<1>2. /\ [n EXCEPT !.flush = f] =
            [bind |-> n.bind, reserved |-> n.reserved, flush |-> f, view |-> n.view]
      /\ n = [bind |-> n.bind, reserved |-> n.reserved, flush |-> n.flush, view |-> n.view]
  BY DEF Names
<1>3. Rebound(n, Put([n EXCEPT !.flush = f], k, b).n, k, b)
  BY <1>1, <1>2
<1>4. Rebound(n, Put(n, k, b).n, k, b) /\ Put(n, k, b).n.flush = n.flush
  BY <1>1, <1>2
<1>5. QED
  BY <1>3, <1>4

\* A step that changes nothing keeps everything.
LEMMA StaysSame == ASSUME NEW n, NEW d PROVE Stays(n, n, d)
  BY DEF Stays

\* A key bound anew to something else, and not to a volume unless it was one
\* already, disturbs no proof.
LEMMA ReboundStays ==
    ASSUME NEW n, NEW m, NEW k, NEW b, NEW d, Rebound(n, m, k, b), m.flush = n.flush,
           d \in n.reserved => b.obj # d \/ b.obj = n.bind[k].obj, ~b.vol
    PROVE  Stays(n, m, d)
<1>1. \A j \in Key : (j = k /\ m.bind[j] = b) \/ m.bind[j] = n.bind[j]
  BY DEF Rebound
<1>2. \A j \in Key : m.bind[j].vol => m.bind[j] = n.bind[j]
  BY <1>1
<1>3. d \in n.reserved => \A j \in Key : n.bind[j].obj # d => m.bind[j].obj # d
  BY <1>1
<1>4. QED
  BY <1>2, <1>3 DEF Stays, Frozen, Rebound

\* A bind never names a reserved digest.
LEMMA BindStays ==
    ASSUME NEW n, Names(n), NEW d \in Digest, NEW q
    PROVE  Names(NsBind(n, q).n) /\ Stays(n, NsBind(n, q).n, d)
<1>1. CASE NsBind(n, q).n = n
  BY <1>1, StaysSame
<1>2. CASE NsBind(n, q).n # n
  <2> DEFINE b == [rev |-> q.rev, obj |-> q.dig, vol |-> FALSE, held |-> q.held]
             m == NsBind(n, q).n
  <2>1. m = Put(n, q.key, b).n /\ q.dig \notin n.reserved
    BY <1>2 DEF NsBind, Said
  <2>2. IsBound(b) /\ b.obj = q.dig /\ ~b.vol
    BY DEF IsBound
  <2> HIDE DEF m, b
  <2>3. Rebound(n, m, q.key, b) /\ m.flush = n.flush
    BY <2>1, <2>2, PutBinds
  <2>4. Stays(n, m, d)
    BY <2>1, <2>2, <2>3, ReboundStays
  <2>5. QED
    BY <2>3, <2>4 DEF m, Rebound
<1>3. QED
  BY <1>1, <1>2

\* An unbind names nothing, and spares volumes.
LEMMA UnbindStays ==
    ASSUME NEW n, Names(n), NEW d \in Digest, NEW q
    PROVE  Names(NsUnbind(n, q).n) /\ Stays(n, NsUnbind(n, q).n, d)
<1>1. CASE NsUnbind(n, q).n = n
  BY <1>1, StaysSame
<1>2. CASE NsUnbind(n, q).n # n
  <2> DEFINE b == [Unbound EXCEPT !.rev = q.rev]
             m == NsUnbind(n, q).n
  <2>1. m = Put(n, q.key, b).n
    <3>1. \/ n.bind[q.key].vol \/ n.bind[q.key].obj = None
          \/ ~n.bind[q.key].vol /\ n.bind[q.key].obj # None
      OBVIOUS
    <3>2. QED
      BY <1>2, <3>1 DEF NsUnbind, Said
  <2>2. IsBound(Unbound) /\ Unbound.obj = None /\ ~Unbound.vol
    BY DEF IsBound, Unbound
  <2>7. d # None
    BY SizesAssumption DEF Digest, None
  <2>8. ASSUME NEW z, IsBound(z)
        PROVE  /\ IsBound([z EXCEPT !.rev = q.rev]) /\ [z EXCEPT !.rev = q.rev].obj = z.obj
               /\ [z EXCEPT !.rev = q.rev].vol = z.vol
    BY <2>8 DEF IsBound
  <2>6. IsBound(b) /\ b.obj # d /\ ~b.vol
    BY <2>2, <2>7, <2>8
  <2> HIDE DEF m, b
  <2>3. Rebound(n, m, q.key, b) /\ m.flush = n.flush
    BY <2>1, <2>6, PutBinds
  <2>4. Stays(n, m, d)
    BY <2>6, <2>3, ReboundStays
  <2>5. QED
    BY <2>3, <2>4 DEF m, Rebound
<1>3. QED
  BY <1>1, <1>2

\* A retention keeps the object, and spares volumes.
LEMMA RetainStays ==
    ASSUME NEW n, Names(n), NEW d \in Digest, NEW q
    PROVE  Names(NsRetain(n, q).n) /\ Stays(n, NsRetain(n, q).n, d)
<1> DEFINE c == n.bind[q.key]
           b == IF c.held THEN c ELSE [c EXCEPT !.rev = q.rev, !.held = TRUE]
           m == NsRetain(n, q).n
<1>1. CASE m = n
  BY <1>1, StaysSame
<1>2. CASE m # n
  <2>1. m = Put(n, q.key, b).n /\ ~c.vol
    <3>1. \/ q.rev <= c.rev
          \/ q.rev > c.rev /\ (q.rev # c.rev + 1 \/ c.obj = None)
          \/ ~(q.rev <= c.rev) /\ ~(q.rev > c.rev /\ (q.rev # c.rev + 1 \/ c.obj = None))
      OBVIOUS
    <3>2. QED
      BY <1>2, <3>1 DEF NsRetain, Said
  <2>2. CASE q.key \in Key
    <3>1. IsBound(c)
      BY <2>2 DEF Names
    <3>2. IsBound(b) /\ b.obj = c.obj /\ ~b.vol
      BY <2>1, <3>1 DEF IsBound
    <3> HIDE DEF m, b
    <3>3. Rebound(n, m, q.key, b) /\ m.flush = n.flush
      BY <2>1, <3>2, PutBinds
    <3>4. Stays(n, m, d)
      BY <3>2, <3>3, ReboundStays
    <3>5. QED
      BY <3>3, <3>4 DEF Rebound, m
  <2>3. CASE q.key \notin Key
    <3>1. [n.bind EXCEPT ![q.key] = b] = n.bind
      BY <2>3 DEF Names
    <3> HIDE DEF b
    <3>2. m = n
      BY <2>1, <3>1 DEF Names, Put
    <3>3. QED
      BY <1>2, <3>2
  <2>4. QED
    BY <2>2, <2>3
<1>3. QED
  BY <1>1, <1>2

\* A reservation is never taken from another, and ends no flush but a lapsed one.
LEMMA ReserveStays ==
    ASSUME NEW n, Names(n), NEW d \in Digest, NEW q
    PROVE  Names(NsReserve(n, q).n) /\ Stays(n, NsReserve(n, q).n, d)
<1> DEFINE f == IF n.flush = "lapsed" THEN "none" ELSE n.flush
           r == IF Cardinality(n.reserved) < ReserveMax THEN n.reserved \cup {q.dig}
                ELSE n.reserved
           m == NsReserve(n, q).n
<1>1. m = [bind |-> n.bind, reserved |-> r, flush |-> f, view |-> n.view]
  BY DEF NsReserve, Names
<1>2. n.reserved \subseteq r /\ (n.flush = "none" => f = "none")
  OBVIOUS
<1> HIDE DEF f, r, m
<1>3. Names(m)
  BY <1>1 DEF Names
<1>4. Stays(n, m, d)
  BY <1>1, <1>2 DEF Stays, Frozen
<1>5. QED
  BY <1>3, <1>4 DEF m

\* No flush begins while a digest is reserved.
LEMMA BeginStays ==
    ASSUME NEW n, Names(n), NEW d \in Digest, NEW q
    PROVE  Names(NsBegin(n, q).n) /\ Stays(n, NsBegin(n, q).n, d)
<1> DEFINE m == NsBegin(n, q).n
<1>1. CASE m = n
  BY <1>1, StaysSame
<1>2. CASE m # n
  <2>1. m = [n EXCEPT !.flush = "open"] /\ n.reserved = {}
    BY <1>2 DEF NsBegin, Said
  <2>2. m = [bind |-> n.bind, reserved |-> n.reserved, flush |-> "open", view |-> n.view]
    BY <2>1 DEF Names
  <2> HIDE DEF m
  <2>3. Names(m)
    BY <2>2 DEF Names
  <2>4. Stays(n, m, d)
    BY <2>1 DEF Stays, Frozen
  <2>5. QED
    BY <2>3, <2>4 DEF m
<1>3. QED
  BY <1>1, <1>2

\* No root is committed but by an open flush.
LEMMA CommitStays ==
    ASSUME NEW n, Names(n), NEW d \in Digest, NEW q
    PROVE  Names(NsCommit(n, q).n) /\ Stays(n, NsCommit(n, q).n, d)
<1> DEFINE m == NsCommit(n, q).n
           b == [rev |-> q.rev, obj |-> q.dig, vol |-> TRUE, held |-> FALSE]
<1>1. CASE m = n
  BY <1>1, StaysSame
<1>2. CASE m # n
  <2>1. m = Put([n EXCEPT !.flush = "none"], q.key, b).n /\ n.flush = "open"
    BY <1>2 DEF NsCommit, Said
  <2>2. IsBound(b)
    BY DEF IsBound
  <2> HIDE DEF m, b
  <2>3. Rebound(n, m, q.key, b)
    BY <2>1, <2>2, PutBinds
  <2>4. Stays(n, m, d)
    BY <2>1, <2>3 DEF Stays, Frozen, Rebound
  <2>5. QED
    BY <2>3, <2>4 DEF m, Rebound
<1>3. QED
  BY <1>1, <1>2

\* A release keeps the namespace's shape.
LEMMA ReleaseNames == ASSUME NEW n, Names(n), NEW q PROVE Names(NsRelease(n, q).n)
<1> DEFINE m == NsRelease(n, q).n
<1>1. m = [bind |-> n.bind, reserved |-> n.reserved \ {q.dig}, flush |-> n.flush,
           view |-> n.view]
  BY DEF NsRelease, Said, Names
<1> HIDE DEF m
<1>2. QED
  BY <1>1 DEF Names, m

\* Of all the namespace's operations only a release takes from a proof.
LEMMA ApplyStays ==
    ASSUME NEW n, Names(n), NEW q
    PROVE  /\ Names(NsApply(n, q).n)
           /\ q.op # "release" => \A d \in Digest : Stays(n, NsApply(n, q).n, d)
<1> DEFINE Good(r) == Names(r.n) /\ \A d \in Digest : Stays(n, r.n, d)
<1>0. ASSUME NEW r, r.n = n PROVE Good(r)
  BY <1>0, StaysSame
<1>a. 1 \in Digest
  BY SizesAssumption DEF Digest
<1>1. CASE q.op = "bind"
  <2>1. NsApply(n, q) = NsBind(n, q)
    BY <1>1 DEF NsApply
  <2>2. QED
    BY <1>a, <2>1, BindStays
<1>2. CASE q.op = "unbind"
  <2>1. NsApply(n, q) = NsUnbind(n, q)
    BY <1>2 DEF NsApply
  <2>2. QED
    BY <1>a, <2>1, UnbindStays
<1>3. CASE q.op = "retain"
  <2>1. NsApply(n, q) = NsRetain(n, q)
    BY <1>3 DEF NsApply
  <2>2. QED
    BY <1>a, <2>1, RetainStays
<1>4. CASE q.op = "reserve"
  <2>1. NsApply(n, q) = NsReserve(n, q)
    BY <1>4 DEF NsApply
  <2>2. QED
    BY <1>a, <2>1, ReserveStays
<1>5. CASE q.op = "begin"
  <2>1. NsApply(n, q) = NsBegin(n, q)
    BY <1>5 DEF NsApply
  <2>2. QED
    BY <1>a, <2>1, BeginStays
<1>6. CASE q.op = "commit"
  <2>1. NsApply(n, q) = NsCommit(n, q)
    BY <1>6 DEF NsApply
  <2>2. QED
    BY <1>a, <2>1, CommitStays
<1>7. CASE q.op = "release"
  <2>1. NsApply(n, q) = NsRelease(n, q)
    BY <1>7 DEF NsApply
  <2>2. QED
    BY <1>7, <2>1, ReleaseNames
<1>8. CASE q.op \notin {"bind", "unbind", "retain", "reserve", "begin", "commit", "release"}
  <2>1. NsApply(n, q).n = n
    BY <1>8 DEF NsApply, NsLookup, NsReferenced, NsRetained, NsRoots, Said
  <2>2. QED
    BY <1>0, <2>1
<1>9. QED
  BY <1>1, <1>2, <1>3, <1>4, <1>5, <1>6, <1>7, <1>8

-----------------------------------------------------------------------------
(* Duties across a step of the namespace.                                    *)

\* The pages of a scan are keys.
LEMMA ScannedKeys ==
    ASSUME NEW at \in Nat
    PROVE  /\ Scanned(at) \subseteq Key /\ PageEnd(at) \in Nat /\ PageEnd(at) <= NKeys
           /\ \A k \in Key : k <= PageEnd(at) => k <= at \/ k \in Scanned(at)
           /\ IsFiniteSet(Scanned(at)) /\ Cursor(at) \in Nat
<1>1. NKeys \in Nat /\ Window \in Nat
  BY SizesAssumption
<1>2. PageEnd(at) \in Nat /\ PageEnd(at) <= NKeys
  BY <1>1 DEF PageEnd
<1> HIDE DEF PageEnd
<1>3. \A k \in Scanned(at) : k \in 1..NKeys
  BY <1>1, <1>2 DEF Scanned
<1>4. \A k \in Key : k <= PageEnd(at) => k <= at \/ k \in Scanned(at)
  BY <1>1, <1>2 DEF Scanned, Key
<1>5. IsFiniteSet(Scanned(at))
  BY <1>2, FS_Interval DEF Scanned
<1>6. Cursor(at) \in Nat
  BY <1>2 DEF Cursor
<1>7. QED
  BY <1>2, <1>3, <1>4, <1>5, <1>6 DEF Key

\* The candidate is a digest.
LEMMA CandidateDigest ==
    ASSUME NEW s, Tables(s), s.gc.queue # <<>>
    PROVE  Candidate(s) \in Digest
  BY HeadTailProperties DEF Tables, Gc, Candidate

\* A duty, and what its answer says, outlast a step that leaves the candidate's
\* proof.
LEMMA StaysDuty ==
    ASSUME NEW s, Tables(s), NEW n, NEW m, NEW op, Duty(s, n, op),
           s.gc.queue # <<>> => Stays(n, m, Candidate(s))
    PROVE  Duty(s, m, op) /\ \A x : Hears(s, n, op, x) => Hears(s, m, op, x)
<1> DEFINE g == s.gc
           d == Candidate(s)
<1>1. CASE op \in {"gc_scan", "gc_obj_scan"}
  BY <1>1 DEF Duty, Hears
<1>2. CASE op \notin {"gc_scan", "gc_obj_scan"}
  <2>1. /\ g.queue # <<>> /\ s.raw.stage = "idle" /\ Stays(n, m, d)
        /\ g.check \in Nat /\ g.next \in Nat
    BY <1>2 DEF Duty, Tables, Gc
  <2>2. ASSUME Frozen(n, d), NEW p \in Nat, Clear(n, d, p) PROVE Frozen(m, d) /\ Clear(m, d, p)
    BY <2>1, <2>2 DEF Stays, Clear
  <2>3. ASSUME Frozen(n, d)
        PROVE  /\ Frozen(m, d)
               /\ \A k \in Key : m.bind[k].vol => n.bind[k].vol /\ m.bind[k].obj = n.bind[k].obj
    BY <2>1, <2>3 DEF Stays
  <2>4. NKeys \in Nat
    BY SizesAssumption
  <2>5. Proven(n, d) => Proven(m, d)
    BY <2>2, <2>3, <2>4 DEF Proven
  <2>6. Walking(g, n, d) => Walking(g, m, d)
    BY <2>2, <2>3, <2>4 DEF Walking
  <2>7. CASE op = "gc_check"
    <3>1. d \in n.reserved /\ Clear(n, d, g.check) /\ (g.check # 0 => n.flush = "none")
      BY <2>7 DEF Duty
    <3>2. d \in m.reserved
      BY <2>1, <3>1 DEF Stays
    <3>3. g.check # 0 => Frozen(m, d) /\ Clear(m, d, g.check)
      BY <2>1, <2>2, <3>1 DEF Frozen
    <3>4. g.check = 0 => Clear(m, d, g.check)
      BY <2>4 DEF Clear, Key
    <3>5. Duty(s, m, op)
      BY <2>1, <2>7, <3>2, <3>3, <3>4 DEF Duty, Frozen
    <3>6. PageEnd(g.check) \in Nat
      BY <2>1, ScannedKeys
    <3>7. ASSUME NEW x, Hears(s, n, op, x) PROVE Hears(s, m, op, x)
      <4>1. ~x.yes => n.flush = "none" /\ Clear(n, d, PageEnd(g.check)) /\ x.next = Cursor(g.check)
        BY <2>7, <3>7 DEF Hears
      <4>2. ~x.yes => Frozen(m, d) /\ Clear(m, d, PageEnd(g.check))
        BY <2>2, <3>1, <3>6, <4>1 DEF Frozen
      <4>3. QED
        BY <2>7, <4>1, <4>2 DEF Hears, Frozen
    <3>8. QED
      BY <3>5, <3>7
  <2>8. CASE op = "gc_roots"
    <3>1. /\ g.phase = "body" /\ Frozen(n, d) /\ Clear(n, d, NKeys)
          /\ \A k \in Key : n.bind[k].vol => Unlisted(n.bind[k].obj, d) \/ k > g.next
      BY <2>8 DEF Duty
    <3>2. /\ Frozen(m, d) /\ Clear(m, d, NKeys)
          /\ \A k \in Key : m.bind[k].vol => n.bind[k].vol /\ m.bind[k].obj = n.bind[k].obj
      BY <2>2, <2>3, <2>4, <3>1
    <3>3. \A k \in Key : m.bind[k].vol => Unlisted(m.bind[k].obj, d) \/ k > g.next
      BY <3>1, <3>2
    <3>4. Duty(s, m, op)
      BY <2>1, <2>8, <3>1, <3>2, <3>3 DEF Duty
    <3>5. Scanned(g.next) \subseteq Key
      BY <2>1, ScannedKeys
    <3>6. \A x : Hears(s, n, op, x) => Hears(s, m, op, x)
      BY <2>8, <3>2, <3>5 DEF Hears
    <3>7. QED
      BY <3>4, <3>6
  <2>9. CASE op \in {"gc_root", "gc_leaf"}
    BY <2>6, <2>9 DEF Duty, Hears
  <2>10. CASE op \in {"gc_obj_remove", "gc_delete"}
    BY <2>5, <2>10 DEF Duty, Hears
  <2>11. CASE op = "gc_reserve"
    BY <2>1, <2>11 DEF Duty, Hears, Stays
  <2>12. CASE op \notin GcNs \cup GcBody \cup GcObj \/ op = "gc_release"
    BY <1>2, <2>12 DEF Duty, Hears, GcNs, GcBody, GcObj
  <2>13. QED
    BY <1>2, <2>7, <2>8, <2>9, <2>10, <2>11, <2>12 DEF GcNs, GcBody, GcObj
<1>3. QED
  BY <1>1, <1>2

\* A step of the namespace that leaves every proof leaves the invariant.
LEMMA NamesMove ==
    ASSUME NEW s, NEW n, NEW m, NEW a, Core(s, n, a), Names(m), \A d \in Digest : Stays(n, m, d)
    PROVE  Core(s, m, a)
<1>1. Tables(s) /\ NsOne(s, n, a) /\ BodyOne(s, n, a) /\ ObjOne(s, n, a)
  BY DEF Core, Sweeps
<1>2. ASSUME NEW op, Duty(s, n, op)
      PROVE  Duty(s, m, op) /\ \A x : Hears(s, n, op, x) => Hears(s, m, op, x)
  BY <1>1, <1>2, StaysDuty, CandidateDigest
<1>3. NsOne(s, m, a)
  BY <1>1, <1>2 DEF NsOne
<1>4. BodyOne(s, m, a)
  BY <1>1, <1>2 DEF BodyOne
<1>5. ObjOne(s, m, a)
  BY <1>1, <1>2 DEF ObjOne
<1>6. QED
  BY <1>3, <1>4, <1>5 DEF Core, Sweeps

-----------------------------------------------------------------------------
(* What the namespace answers the sweep.                                     *)

IsNsAns(z) == z = [v |-> z.v, rev |-> z.rev, obj |-> z.obj, yes |-> z.yes, next |-> z.next,
                   view |-> z.view, roots |-> z.roots]
\* Every answer has its fields.
LEMMA NsAnsIs == ASSUME NEW v PROVE IsNsAns(NsAns(v))
  BY DEF IsNsAns, NsAns

\* A reservation's answer says whether it stands.
LEMMA HearsReserve ==
    ASSUME NEW n, NEW q
    PROVE  NsReserve(n, q).a.yes => q.dig \in NsReserve(n, q).n.reserved
<1>1. IsNsAns(NsAns("ok"))
  BY NsAnsIs
<1>2. \A z, x : IsNsAns(z) => [z EXCEPT !.yes = x].yes = x
  BY DEF IsNsAns
<1>3. NsReserve(n, q).a.yes = (q.dig \in NsReserve(n, q).n.reserved)
  BY <1>1, <1>2 DEF NsReserve
<1>4. QED
  BY <1>3

\* A page without the digest is without it.
LEMMA HearsCheck ==
    ASSUME NEW n, NEW q
    PROVE  ~NsReferenced(n, q).a.yes =>
              /\ n.flush = "none" /\ \A k \in Scanned(q.at) : n.bind[k].obj # q.dig
              /\ NsReferenced(n, q).a.next = Cursor(q.at)
<1> DEFINE yes == n.flush # "none" \/ \E k \in Scanned(q.at) : n.bind[k].obj = q.dig
           next == IF yes THEN 0 ELSE Cursor(q.at)
<1>1. IsNsAns(NsAns("ok"))
  BY NsAnsIs
<1>2. \A z, x, y : IsNsAns(z) => /\ [z EXCEPT !.yes = x, !.next = y].yes = x
                                 /\ [z EXCEPT !.yes = x, !.next = y].next = y
  BY DEF IsNsAns
<1>3. NsReferenced(n, q).a = [NsAns("ok") EXCEPT !.yes = yes, !.next = next]
  BY DEF NsReferenced
<1>4. NsReferenced(n, q).a.yes = yes /\ NsReferenced(n, q).a.next = next
  <2> HIDE DEF yes, next
  <2>1. QED
    BY <1>1, <1>2, <1>3
<1>5. QED
  BY <1>4

\* A page of roots lists those of its volumes.
LEMMA HearsRoots ==
    ASSUME NEW n, NEW q, q.at \in Nat
    PROVE  LET a == NsRoots(n, q).a
           IN  /\ a.next = Cursor(q.at) /\ IsSeq(a.roots)
               /\ \A k \in Scanned(q.at) : n.bind[k].vol => Among(n.bind[k].obj, a.roots)
<1> DEFINE S == {k \in Scanned(q.at) : n.bind[k].vol}
           keys == InOrder(S)
           roots == [i \in DOMAIN keys |-> n.bind[keys[i]].obj]
           a == NsRoots(n, q).a
<1>1. IsNsAns(NsAns("ok"))
  BY NsAnsIs
<1>2. \A z, x, y, w : IsNsAns(z) =>
         /\ [z EXCEPT !.next = x, !.view = y, !.roots = w].next = x
         /\ [z EXCEPT !.next = x, !.view = y, !.roots = w].roots = w
  BY DEF IsNsAns
<1>3. a = [NsAns("ok") EXCEPT !.next = Cursor(q.at), !.view = n.view, !.roots = roots]
  BY DEF NsRoots
<1>4. S \in SUBSET Nat /\ IsFiniteSet(S)
  <2>1. Scanned(q.at) \subseteq Nat /\ IsFiniteSet(Scanned(q.at))
    BY ScannedKeys, SizesAssumption DEF Key
  <2>2. QED
    BY <2>1, FS_Subset
<1> HIDE DEF S
<1>5. keys \in Seq(S) /\ \A k \in S : \E i \in 1..Len(keys) : keys[i] = k
  BY <1>4, InOrderLists
<1> HIDE DEF keys
<1>6. Len(keys) \in Nat /\ DOMAIN keys = 1..Len(keys)
  BY <1>5, LenProperties
<1> DEFINE R == {n.bind[keys[i]].obj : i \in 1..Len(keys)}
<1>7. roots \in [1..Len(keys) -> R]
  BY <1>6
<1>8. roots \in Seq(R) /\ Len(roots) = Len(keys)
  <2> HIDE DEF roots, R
  <2>1. QED
    BY <1>6, <1>7, SeqDef, LenProperties
<1>9. \A k \in S : Among(n.bind[k].obj, roots)
  BY <1>5, <1>6, <1>8 DEF Among
<1>10. IsSeq(roots)
  BY <1>8 DEF IsSeq
<1> HIDE DEF roots, a
<1>11. a.next = Cursor(q.at) /\ a.roots = roots
  BY <1>1, <1>2, <1>3
<1>12. \A k \in Scanned(q.at) : n.bind[k].vol => k \in S
  BY DEF S
<1>13. QED
  BY <1>9, <1>10, <1>11, <1>12 DEF a

\* The namespace's answer to a request of the sweep says what it hears.
LEMMA NsHears ==
    ASSUME NEW s, Tables(s), NEW n, NEW op, op \in GcNs, Duty(s, n, op), NEW q, Asks(s, op, q)
    PROVE  Hears(s, NsApply(n, q).n, op, NsApply(n, q).a)
<1> DEFINE g == s.gc
           d == Candidate(s)
           r == NsApply(n, q)
<1>0. g.check \in Nat /\ g.next \in Nat
  BY DEF Tables, Gc
<1>1. CASE op = "gc_reserve"
  <2>1. r = NsReserve(n, q) /\ q.dig = d
    BY <1>1 DEF Asks, NsApply
  <2>2. QED
    BY <1>1, <2>1, HearsReserve DEF Hears
<1>2. CASE op = "gc_check"
  <2>1. r = NsReferenced(n, q) /\ q.dig = d /\ q.at = g.check
    BY <1>2 DEF Asks, NsApply
  <2>2. r.n = n
    BY <2>1 DEF NsReferenced
  <2>3. ~r.a.yes => /\ n.flush = "none" /\ \A k \in Scanned(g.check) : n.bind[k].obj # d
                    /\ r.a.next = Cursor(g.check)
    BY <2>1, HearsCheck
  <2>4. Clear(n, d, g.check)
    BY <1>2 DEF Duty
  <2>5. \A k \in Key : k <= PageEnd(g.check) => k <= g.check \/ k \in Scanned(g.check)
    BY <1>0, ScannedKeys
  <2>6. ~r.a.yes => Clear(n, d, PageEnd(g.check))
    BY <2>3, <2>4, <2>5 DEF Clear
  <2>7. QED
    BY <1>2, <2>2, <2>3, <2>6 DEF Hears
<1>3. CASE op = "gc_roots"
  <2>1. r = NsRoots(n, q) /\ q.at = g.next
    BY <1>3 DEF Asks, NsApply
  <2>2. r.n = n
    BY <2>1 DEF NsRoots
  <2>3. /\ r.a.next = Cursor(g.next) /\ IsSeq(r.a.roots)
        /\ \A k \in Scanned(g.next) : n.bind[k].vol => Among(n.bind[k].obj, r.a.roots)
    BY <1>0, <2>1, HearsRoots
  <2>4. QED
    BY <1>3, <2>2, <2>3 DEF Hears
<1>4. CASE op = "gc_release"
  BY <1>4 DEF Hears
<1>5. QED
  BY <1>1, <1>2, <1>3, <1>4 DEF GcNs

-----------------------------------------------------------------------------
(* A plane that answers in order takes the oldest request.                   *)

\* Where entry j stands: answered before, answered now by x, still to be carried out.
Passed(u, v, h, x, w, k, j) ==
    \/ j <= Len(h) /\ j <= Len(k) /\ k[j] = h[j]
    \/ ~(j <= Len(h)) /\ j <= Len(k) /\ k[j] = x /\ v[j - Len(h)] = Head(v)
    \/ ~(j <= Len(h)) /\ ~(j <= Len(k)) /\ w[j - Len(k)] = v[j - Len(h)]
Passes(u, v, h, x, w, k) ==
    /\ IsSeq(w) /\ IsSeq(k) /\ Len(u) = Len(k) + Len(w)
    /\ \A j \in 1..Len(u) : Passed(u, v, h, x, w, k, j)
    /\ \A j \in 1..Len(w) :
          j + 1 \in 1..Len(v) /\ w[j] = v[j + 1] /\ Len(k) + j = Len(h) + (j + 1)
    /\ 1 \in 1..Len(v) /\ v[1] = Head(v) /\ Len(h) + 1 \in 1..Len(u)

\* The oldest request becomes the newest answer, and no entry moves.
LEMMA InStepPasses ==
    ASSUME NEW u, NEW v, NEW h, InStep(u, v, h), v # <<>>, NEW x, NEW w, NEW k,
           w = Tail(v), k = Append(h, x)
    PROVE  Passes(u, v, h, x, w, k)
<1>1. Len(u) \in Nat /\ Len(v) \in Nat /\ Len(h) \in Nat /\ Len(u) = Len(h) + Len(v)
  BY IsSeqLen DEF InStep
<1>2. /\ IsSeq(w) /\ Len(w) = Len(v) - 1 /\ Head(v) = v[1] /\ Len(v) # 0
      /\ \A i \in 1..(Len(v) - 1) : w[i] = v[i + 1]
  BY SeqTail DEF InStep
<1>3. /\ IsSeq(k) /\ Len(k) = Len(h) + 1 /\ k[Len(h) + 1] = x
      /\ \A i \in 1..Len(h) : k[i] = h[i]
  BY SeqAppend DEF InStep
<1>4. Len(w) = Len(v) - 1 /\ Len(k) = Len(h) + 1
  BY <1>2, <1>3
<1>5. Len(u) = Len(k) + Len(w) /\ 1 \in 1..Len(v) /\ Len(h) + 1 \in 1..Len(u)
  BY <1>1, <1>2, <1>4
<1>6. \A j \in 1..Len(w) : /\ j + 1 \in 1..Len(v) /\ Len(k) + j = Len(h) + (j + 1)
                           /\ j \in 1..(Len(v) - 1)
  BY <1>1, <1>4
<1>7. \A j \in 1..Len(w) : w[j] = v[j + 1]
  BY <1>2, <1>6
<1>8. ASSUME NEW j \in 1..Len(u) PROVE Passed(u, v, h, x, w, k, j)
  <2>1. CASE j <= Len(h)
    <3>1. j \in 1..Len(h) /\ j <= Len(k)
      BY <1>1, <1>4, <2>1
    <3>2. QED
      BY <1>3, <2>1, <3>1 DEF Passed
  <2>2. CASE j = Len(h) + 1
    <3>1. ~(j <= Len(h)) /\ j <= Len(k) /\ j - Len(h) = 1
      BY <1>1, <1>4, <2>2
    <3>2. k[j] = x /\ v[j - Len(h)] = Head(v)
      BY <1>2, <1>3, <2>2, <3>1
    <3>3. QED
      BY <3>1, <3>2 DEF Passed
  <2>3. CASE ~(j <= Len(h)) /\ j # Len(h) + 1
    <3>1. /\ ~(j <= Len(k)) /\ j - Len(k) \in 1..(Len(v) - 1)
          /\ (j - Len(k)) + 1 = j - Len(h)
      BY <1>1, <1>4, <2>3
    <3>2. w[j - Len(k)] = v[j - Len(h)]
      BY <1>2, <3>1
    <3>3. QED
      BY <2>3, <3>1, <3>2 DEF Passed
  <2>4. QED
    BY <2>1, <2>2, <2>3
<1>9. QED
  BY <1>2, <1>3, <1>5, <1>6, <1>7, <1>8 DEF Passes

\* The namespace carries out the oldest request, whoever sent it.
LEMMA NsCarries ==
    ASSUME NEW s, NEW n, NEW a, Core(s, n, a), s.nsTx # <<>>
    PROVE  LET r == NsApply(n, Head(s.nsTx))
           IN  Core([s EXCEPT !.nsTx = Tail(@)], r.n, [a EXCEPT !.ns = Append(@, r.a)])
<1> DEFINE q == Head(s.nsTx)
           m == NsApply(n, q).n
           x == NsApply(n, q).a
           t == [s EXCEPT !.nsTx = Tail(@)]
           b == [a EXCEPT !.ns = Append(@, x)]
<1>1. /\ Tables(s) /\ Answers(a) /\ Names(n) /\ InOrderAnswers(s, a) /\ ById(s, a) /\ RawOne(s)
      /\ NsOne(s, n, a) /\ BodyOne(s, n, a) /\ ObjOne(s, n, a)
  BY DEF Core, Sweeps
<1>2. /\ t.nsTx = Tail(s.nsTx) /\ t.nsPend = s.nsPend /\ SameBody(s, t) /\ SameObj(s, t)
      /\ t.gc = s.gc /\ t.raw = s.raw
  BY <1>1 DEF Tables, IsRouter, SameBody, SameObj
<1>3. /\ b.ns = Append(a.ns, x) /\ b.body = a.body /\ b.obj = a.obj
      /\ b = [ns |-> b.ns, body |-> b.body, obj |-> b.obj]
  BY <1>1 DEF Answers
<1>4. Names(m) /\ (q.op # "release" => \A d \in Digest : Stays(n, m, d))
  BY <1>1, ApplyStays
<1>a. ASSUME NEW op, op \in GcNs, Duty(s, n, op), Asks(s, op, q) PROVE Hears(s, m, op, x)
  BY <1>1, <1>a, NsHears
<1> HIDE DEF t, b, x, m
<1>5. Passes(s.nsPend, s.nsTx, a.ns, x, t.nsTx, b.ns)
  <2>1. InStep(s.nsPend, s.nsTx, a.ns)
    BY <1>1 DEF InStep, Tables, Answers, InOrderAnswers
  <2>2. QED
    BY <1>2, <1>3, <2>1, InStepPasses
<1>6. Tables(t)
  <2>1. IsSeq(Tail(s.nsTx))
    BY <1>2, <1>5 DEF Passes
  <2>2. QED
    BY <1>1, <2>1, TableOf DEF t
<1>7. Answers(b)
  BY <1>1, <1>3, <1>5 DEF Answers, Passes
<1>8. InOrderAnswers(t, b)
  <2>1. Len(t.nsPend) = Len(b.ns) + Len(t.nsTx)
    BY <1>2, <1>5 DEF Passes
  <2>2. ASSUME NEW j \in 1..Len(t.nsTx), t.nsTx[j].op = "release"
        PROVE  t.nsPend[Len(b.ns) + j].op \in {"gc_release", "raw"}
    <3>1. j + 1 \in 1..Len(s.nsTx) /\ t.nsTx[j] = s.nsTx[j + 1] /\ Len(b.ns) + j = Len(a.ns) + (j + 1)
      BY <1>5 DEF Passes
    <3>2. s.nsPend[Len(a.ns) + (j + 1)].op \in {"gc_release", "raw"}
      BY <1>1, <2>2, <3>1 DEF InOrderAnswers
    <3>3. QED
      BY <1>2, <3>1, <3>2
  <2>3. QED
    BY <1>1, <1>2, <1>3, <2>1, <2>2 DEF InOrderAnswers, SameObj
<1>9. ById(t, b)
  BY <1>1, <1>2, <1>3 DEF ById, SameBody
<1>10. RawOne(t)
  BY <1>1, <1>2 DEF RawOne, SameBody
<1>11. ASSUME NEW op, Duty(s, n, op), q.op # "release"
       PROVE  Duty(t, m, op) /\ \A y : Hears(s, n, op, y) => Hears(t, m, op, y)
  <2>1. Duty(s, m, op) /\ \A y : Hears(s, n, op, y) => Hears(s, m, op, y)
    BY <1>1, <1>4, <1>11, StaysDuty, CandidateDigest
  <2>2. QED
    BY <1>2, <2>1, DutySame
<1>12. CASE q.op # "release"
  <2>1. NsOne(t, m, b)
    <3> SUFFICES ASSUME NEW j \in 1..Len(t.nsPend), t.nsPend[j].cid = 0
        PROVE  /\ \A i \in 1..Len(t.nsPend) : t.nsPend[i].cid = 0 => i = j
               /\ \A p \in t.bodyPend : p.e.cid # 0
               /\ \A i \in 1..Len(t.objPend) : t.objPend[i].cid # 0
               /\ Duty(t, m, t.nsPend[j].op)
               /\ IF j <= Len(b.ns) THEN Hears(t, m, t.nsPend[j].op, b.ns[j])
                  ELSE Asks(t, t.nsPend[j].op, t.nsTx[j - Len(b.ns)])
      BY DEF NsOne
    <3> DEFINE op == s.nsPend[j].op
    <3>1. j \in 1..Len(s.nsPend) /\ s.nsPend[j].cid = 0 /\ t.nsPend[j].op = op
      BY <1>2
    <3>2. /\ \A i \in 1..Len(s.nsPend) : s.nsPend[i].cid = 0 => i = j
          /\ \A p \in s.bodyPend : p.e.cid # 0
          /\ \A i \in 1..Len(s.objPend) : s.objPend[i].cid # 0
          /\ Duty(s, n, op)
          /\ IF j <= Len(a.ns) THEN Hears(s, n, op, a.ns[j])
             ELSE Asks(s, op, s.nsTx[j - Len(a.ns)])
      BY <1>1, <3>1 DEF NsOne
    <3>3. op \in GcNs
      BY <1>1, <3>1 DEF InOrderAnswers, NsEntry
    <3> HIDE DEF op
    <3>4. Duty(t, m, op)
      BY <1>11, <1>12, <3>2
    <3>5. Passed(s.nsPend, s.nsTx, a.ns, x, t.nsTx, b.ns, j)
      BY <1>5, <3>1 DEF Passes
    <3>6. IF j <= Len(b.ns) THEN Hears(t, m, op, b.ns[j]) ELSE Asks(t, op, t.nsTx[j - Len(b.ns)])
      <4>1. CASE j <= Len(a.ns) /\ j <= Len(b.ns) /\ b.ns[j] = a.ns[j]
        BY <1>11, <1>12, <3>2, <4>1
      <4>2. CASE ~(j <= Len(a.ns)) /\ j <= Len(b.ns) /\ b.ns[j] = x /\ s.nsTx[j - Len(a.ns)] = q
        <5>1. Hears(s, m, op, x)
          BY <1>a, <3>2, <3>3, <4>2
        <5>2. QED
          BY <1>2, <4>2, <5>1, DutySame
      <4>3. CASE /\ ~(j <= Len(a.ns)) /\ ~(j <= Len(b.ns))
                 /\ t.nsTx[j - Len(b.ns)] = s.nsTx[j - Len(a.ns)]
        BY <1>2, <3>2, <4>3, DutySame
      <4>4. QED
        BY <3>5, <4>1, <4>2, <4>3 DEF Passed
    <3>7. QED
      BY <1>2, <3>1, <3>2, <3>4, <3>6 DEF SameBody, SameObj
  <2>2. BodyOne(t, m, b)
    BY <1>1, <1>2, <1>3, <1>11, <1>12, DutySame DEF BodyOne, SameBody, SameObj
  <2>3. ObjOne(t, m, b)
    BY <1>1, <1>2, <1>3, <1>11, <1>12, DutySame DEF ObjOne, SameObj
  <2>4. QED
    BY <1>4, <1>6, <1>7, <1>8, <1>9, <1>10, <2>1, <2>2, <2>3 DEF Core, Sweeps, q, m, x, t, b
<1>13. CASE q.op = "release"
  <2> DEFINE i == Len(a.ns) + 1
             e == s.nsPend[i]
  <2>1. i \in 1..Len(s.nsPend) /\ 1 \in 1..Len(s.nsTx) /\ s.nsTx[1] = q
    BY <1>5 DEF Passes
  <2>2. e.op \in {"gc_release", "raw"} /\ NsEntry(e)
    BY <1>1, <1>13, <2>1 DEF InOrderAnswers
  <2> HIDE DEF i
  <2>3. CASE e.op = "raw"
    <3>1. s.raw.stage # "idle"
      BY <1>1, <2>1, <2>3 DEF RawOne
    <3>2. \A op : ~Duty(s, n, op)
      BY <3>1 DEF Duty
    <3>3. /\ \A j \in 1..Len(s.nsPend) : s.nsPend[j].cid # 0
          /\ \A p \in s.bodyPend : p.e.cid # 0
          /\ \A j \in 1..Len(s.objPend) : s.objPend[j].cid # 0
      BY <1>1, <3>2 DEF NsOne, BodyOne, ObjOne
    <3>4. NsOne(t, m, b) /\ BodyOne(t, m, b) /\ ObjOne(t, m, b)
      BY <1>2, <3>3 DEF NsOne, BodyOne, ObjOne, SameBody, SameObj
    <3>5. QED
      BY <1>4, <1>6, <1>7, <1>8, <1>9, <1>10, <3>4 DEF Core, Sweeps, q, m, x, t, b
  <2>4. CASE e.op = "gc_release"
    <3>1. e.cid = 0
      BY <2>2, <2>4 DEF NsEntry, GcNs
    <3>2. /\ \A j \in 1..Len(s.nsPend) : s.nsPend[j].cid = 0 => j = i
          /\ \A p \in s.bodyPend : p.e.cid # 0
          /\ \A j \in 1..Len(s.objPend) : s.objPend[j].cid # 0
          /\ Duty(s, n, "gc_release")
      BY <1>1, <2>1, <2>4, <3>1 DEF NsOne
    <3>3. Duty(s, m, "gc_release") /\ \A y : Hears(t, m, "gc_release", y)
      BY <3>2 DEF Duty, Hears
    <3>4. Duty(t, m, "gc_release")
      BY <1>2, <3>3, DutySame
    <3>5. i <= Len(b.ns)
      BY <1>1, <1>3, SeqAppend DEF i, Answers
    <3>6. NsOne(t, m, b)
      <4>1. \A j \in 1..Len(t.nsPend) : t.nsPend[j].cid = 0 => j = i
        BY <1>2, <3>2
      <4>2. t.nsPend[i].op = "gc_release"
        BY <1>2, <2>4
      <4>3. /\ \A p \in t.bodyPend : p.e.cid # 0
            /\ \A j \in 1..Len(t.objPend) : t.objPend[j].cid # 0
        BY <1>2, <3>2 DEF SameBody, SameObj
      <4>4. QED
        BY <3>3, <3>4, <3>5, <4>1, <4>2, <4>3 DEF NsOne
    <3>7. BodyOne(t, m, b) /\ ObjOne(t, m, b)
      BY <1>2, <3>2 DEF BodyOne, ObjOne, SameBody, SameObj
    <3>8. QED
      BY <1>4, <1>6, <1>7, <1>8, <1>9, <1>10, <3>6, <3>7 DEF Core, Sweeps, q, m, x, t, b
  <2>5. QED
    BY <2>2, <2>3, <2>4
<1>14. QED
  BY <1>12, <1>13

\* The index carries out the oldest request, or fails it.
LEMMA ObjCarries ==
    ASSUME NEW s, NEW n, NEW a, Core(s, n, a), s.objTx # <<>>, NEW x,
           Head(s.objTx).op = "scan" => x.page \in Seq(Digest)
    PROVE  Core([s EXCEPT !.objTx = Tail(@)], n, [a EXCEPT !.obj = Append(@, x)])
<1> DEFINE q == Head(s.objTx)
           t == [s EXCEPT !.objTx = Tail(@)]
           b == [a EXCEPT !.obj = Append(@, x)]
<1>1. /\ Tables(s) /\ Answers(a) /\ Names(n) /\ InOrderAnswers(s, a) /\ ById(s, a) /\ RawOne(s)
      /\ NsOne(s, n, a) /\ BodyOne(s, n, a) /\ ObjOne(s, n, a)
  BY DEF Core, Sweeps
<1>2. /\ t.objTx = Tail(s.objTx) /\ t.objPend = s.objPend /\ SameBody(s, t) /\ SameNs(s, t)
      /\ t.gc = s.gc /\ t.raw = s.raw
  BY <1>1 DEF Tables, IsRouter, SameBody, SameNs
<1>3. /\ b.obj = Append(a.obj, x) /\ b.body = a.body /\ b.ns = a.ns
      /\ b = [ns |-> b.ns, body |-> b.body, obj |-> b.obj]
  BY <1>1 DEF Answers
<1> HIDE DEF t, b
<1>5. Passes(s.objPend, s.objTx, a.obj, x, t.objTx, b.obj)
  <2>1. InStep(s.objPend, s.objTx, a.obj)
    BY <1>1 DEF InStep, Tables, Answers, InOrderAnswers
  <2>2. QED
    BY <1>2, <1>3, <2>1, InStepPasses
<1>6. Tables(t)
  <2>1. IsSeq(Tail(s.objTx))
    BY <1>2, <1>5 DEF Passes
  <2>2. QED
    BY <1>1, <2>1, TableOf DEF t
<1>7. Answers(b)
  BY <1>1, <1>3, <1>5 DEF Answers, Passes
<1>8. InOrderAnswers(t, b)
  <2>1. Len(t.objPend) = Len(b.obj) + Len(t.objTx)
    BY <1>2, <1>5 DEF Passes
  <2>2. QED
    BY <1>1, <1>2, <1>3, <2>1 DEF InOrderAnswers, SameNs
<1>9. ById(t, b)
  BY <1>1, <1>2, <1>3 DEF ById, SameBody
<1>10. RawOne(t)
  BY <1>1, <1>2 DEF RawOne, SameBody, SameNs
<1>11. ObjOne(t, n, b)
  <2> SUFFICES ASSUME NEW j \in 1..Len(t.objPend), t.objPend[j].cid = 0
      PROVE  /\ \A i \in 1..Len(t.objPend) : t.objPend[i].cid = 0 => i = j
             /\ Duty(t, n, t.objPend[j].op)
             /\ IF j <= Len(b.obj) THEN Hears(t, n, t.objPend[j].op, b.obj[j])
                ELSE Asks(t, t.objPend[j].op, t.objTx[j - Len(b.obj)])
    BY DEF ObjOne
  <2> DEFINE op == s.objPend[j].op
  <2>1. j \in 1..Len(s.objPend) /\ s.objPend[j].cid = 0 /\ t.objPend[j].op = op
    BY <1>2
  <2>2. /\ \A i \in 1..Len(s.objPend) : s.objPend[i].cid = 0 => i = j
        /\ Duty(s, n, op)
        /\ IF j <= Len(a.obj) THEN Hears(s, n, op, a.obj[j])
           ELSE Asks(s, op, s.objTx[j - Len(a.obj)])
    BY <1>1, <2>1 DEF ObjOne
  <2>3. op \in GcObj
    BY <1>1, <2>1 DEF InOrderAnswers, ObjEntry
  <2> HIDE DEF op
  <2>4. Passed(s.objPend, s.objTx, a.obj, x, t.objTx, b.obj, j)
    BY <1>5, <2>1 DEF Passes
  <2>5. IF j <= Len(b.obj) THEN Hears(t, n, op, b.obj[j]) ELSE Asks(t, op, t.objTx[j - Len(b.obj)])
    <3>1. CASE j <= Len(a.obj) /\ j <= Len(b.obj) /\ b.obj[j] = a.obj[j]
      BY <1>2, <2>2, <3>1, DutySame
    <3>2. CASE ~(j <= Len(a.obj)) /\ j <= Len(b.obj) /\ b.obj[j] = x /\ s.objTx[j - Len(a.obj)] = q
      <4>1. Asks(s, op, q)
        BY <2>2, <3>2
      <4>2. op = "gc_obj_scan" => x.page \in Seq(Digest)
        BY <4>1 DEF Asks
      <4>3. Hears(t, n, op, x)
        BY <2>3, <4>2 DEF Hears, GcObj
      <4>4. QED
        BY <3>2, <4>3
    <3>3. CASE /\ ~(j <= Len(a.obj)) /\ ~(j <= Len(b.obj))
               /\ t.objTx[j - Len(b.obj)] = s.objTx[j - Len(a.obj)]
      BY <1>2, <2>2, <3>3, DutySame
    <3>4. QED
      BY <2>4, <3>1, <3>2, <3>3 DEF Passed
  <2>6. QED
    BY <1>2, <2>1, <2>2, <2>5, DutySame
<1>12. BodyOne(t, n, b)
  BY <1>1, <1>2, <1>3, DutySame DEF BodyOne, SameBody
<1>14. NsOne(t, n, b)
  <2>1. \A j \in 1..Len(s.nsPend) : s.nsPend[j].cid = 0 =>
           /\ \A i \in 1..Len(s.nsPend) : s.nsPend[i].cid = 0 => i = j
           /\ \A p \in s.bodyPend : p.e.cid # 0
           /\ \A i \in 1..Len(s.objPend) : s.objPend[i].cid # 0
           /\ Duty(t, n, s.nsPend[j].op)
           /\ IF j <= Len(a.ns) THEN Hears(t, n, s.nsPend[j].op, a.ns[j])
              ELSE Asks(t, s.nsPend[j].op, s.nsTx[j - Len(a.ns)])
    BY <1>1, <1>2, DutySame DEF NsOne
  <2>2. /\ t.nsPend = s.nsPend /\ t.nsTx = s.nsTx /\ b.ns = a.ns /\ t.bodyPend = s.bodyPend
        /\ t.objPend = s.objPend
    BY <1>2, <1>3 DEF SameBody, SameNs
  <2>3. QED
    BY <2>1, <2>2 DEF NsOne
<1>13. QED
  BY <1>1, <1>6, <1>7, <1>8, <1>9, <1>10, <1>11, <1>12, <1>14 DEF Core, Sweeps, t, b

\* The body plane carries out the oldest request, or fails it; its answer goes
\* by the request's id.
LEMMA BodyCarries ==
    ASSUME NEW s, NEW n, NEW a, Core(s, n, a), s.bodyTx # <<>>, NEW x,
           Head(s.bodyTx).op = "scan" => x.page \in Seq(Digest),
           Head(s.bodyTx).op = "get" => (x.v = "ok" => x.dig = Head(s.bodyTx).dig)
    PROVE  Core([s EXCEPT !.bodyTx = Tail(@)], n,
                [a EXCEPT !.body = @ \cup {[id |-> Head(s.bodyTx).id, a |-> x]}])
<1> DEFINE q == Head(s.bodyTx)
           y == [id |-> q.id, a |-> x]
           t == [s EXCEPT !.bodyTx = Tail(@)]
           b == [a EXCEPT !.body = @ \cup {y}]
<1>1. /\ Tables(s) /\ Answers(a) /\ Names(n) /\ InOrderAnswers(s, a) /\ ById(s, a) /\ RawOne(s)
      /\ NsOne(s, n, a) /\ BodyOne(s, n, a) /\ ObjOne(s, n, a)
  BY DEF Core, Sweeps
<1>2. /\ t.bodyTx = Tail(s.bodyTx) /\ t.bodyPend = s.bodyPend /\ SameNs(s, t) /\ SameObj(s, t)
      /\ t.gc = s.gc /\ t.raw = s.raw
  BY <1>1 DEF Tables, IsRouter, SameNs, SameObj
<1>4. y.id = q.id /\ y.a = x
  OBVIOUS
<1>3. /\ b.body = a.body \cup {y} /\ b.ns = a.ns /\ b.obj = a.obj
      /\ b = [ns |-> b.ns, body |-> b.body, obj |-> b.obj]
  <2>1. ASSUME NEW z, NEW c, c = [a EXCEPT !.body = z]
        PROVE  /\ c.body = z /\ c.ns = a.ns /\ c.obj = a.obj
               /\ c = [ns |-> c.ns, body |-> c.body, obj |-> c.obj]
    BY <1>1, <2>1 DEF Answers
  <2>2. b = [a EXCEPT !.body = a.body \cup {y}]
    OBVIOUS
  <2> HIDE DEF b, y
  <2>3. QED
    BY <2>1, <2>2
<1> HIDE DEF y
<1> HIDE DEF t, b
<1>5. /\ IsSeq(t.bodyTx) /\ q = s.bodyTx[1] /\ 1 \in 1..Len(s.bodyTx)
      /\ \A i \in 1..Len(t.bodyTx) : i + 1 \in 1..Len(s.bodyTx) /\ i + 1 # 1
                                     /\ t.bodyTx[i] = s.bodyTx[i + 1]
      /\ \A i, j \in 1..Len(t.bodyTx) : i + 1 = j + 1 => i = j
  <2> DEFINE v == s.bodyTx
             w == t.bodyTx
  <2>1. IsSeq(v) /\ v # <<>> /\ w = Tail(v)
    BY <1>1, <1>2 DEF Tables
  <2> HIDE DEF v, w
  <2>2. /\ IsSeq(w) /\ Len(w) = Len(v) - 1 /\ Len(v) \in Nat \ {0}
        /\ \A i \in 1..(Len(v) - 1) : w[i] = v[i + 1]
        /\ Head(v) = v[1]
    BY <2>1, SeqTail
  <2>3. Len(w) = Len(v) - 1 /\ Len(v) \in Nat \ {0}
    BY <2>2
  <2>4. /\ \A i \in 1..Len(w) : i + 1 \in 1..Len(v) /\ i + 1 # 1 /\ i \in 1..(Len(v) - 1)
        /\ \A i, j \in 1..Len(w) : i + 1 = j + 1 => i = j
        /\ 1 \in 1..Len(v)
    BY <2>3
  <2>5. \A i \in 1..Len(w) : w[i] = v[i + 1]
    BY <2>2, <2>4
  <2>6. QED
    BY <2>2, <2>4, <2>5 DEF v, w
<1>6. Tables(t)
  BY <1>1, <1>2, <1>5, TableOf DEF t
<1>7. Answers(b)
  BY <1>1, <1>3 DEF Answers
<1>8. InOrderAnswers(t, b)
  BY <1>1, <1>2, <1>3 DEF InOrderAnswers, SameNs, SameObj
<1> HIDE DEF q
<1>9. ById(t, b)
  <2>1. \A i \in 1..Len(t.bodyTx) :
           \E p \in t.bodyPend : p.id = t.bodyTx[i].id /\ (p.e.cid = 0 <=> t.bodyTx[i].cid = 0)
    BY <1>1, <1>2, <1>5 DEF ById
  <2>2. \A i, j \in 1..Len(t.bodyTx) : t.bodyTx[i].id = t.bodyTx[j].id => i = j
    <3>1. \A i, j \in 1..Len(s.bodyTx) : s.bodyTx[i].id = s.bodyTx[j].id => i = j
      BY <1>1 DEF ById
    <3>2. ASSUME NEW i \in 1..Len(t.bodyTx), NEW j \in 1..Len(t.bodyTx),
                 t.bodyTx[i].id = t.bodyTx[j].id
          PROVE  i = j
      <4>3. /\ i + 1 \in 1..Len(s.bodyTx) /\ t.bodyTx[i] = s.bodyTx[i + 1]
            /\ j + 1 \in 1..Len(s.bodyTx) /\ t.bodyTx[j] = s.bodyTx[j + 1]
        BY <1>5
      <4>4. s.bodyTx[i + 1].id = s.bodyTx[j + 1].id
        BY <3>2, <4>3
      <4>1. i + 1 = j + 1
        BY <3>1, <4>3, <4>4, Zenon
      <4>2. QED
        BY <1>5, <4>1
    <3>3. QED
      BY <3>2
  <2>3. \A i \in 1..Len(t.bodyTx) : t.bodyTx[i].id # q.id
    BY <1>1, <1>5 DEF ById
  <2>4. \A i \in 1..Len(t.bodyTx) : \A r \in b.body : r.id # t.bodyTx[i].id
    BY <1>1, <1>3, <1>4, <1>5, <2>3 DEF ById
  <2>5. \E p \in s.bodyPend : p.id = q.id
    BY <1>1, <1>5 DEF ById
  <2>6. \A r \in a.body : r.id # q.id
    BY <1>1, <1>5 DEF ById
  <2>7. \A r \in b.body : /\ \E p \in t.bodyPend : p.id = r.id
                          /\ \A u \in b.body : u.id = r.id => u = r
    BY <1>1, <1>2, <1>3, <1>4, <2>5, <2>6 DEF ById
  <2>8. QED
    BY <1>1, <1>2, <2>1, <2>2, <2>4, <2>7 DEF ById
<1>10. RawOne(t)
  BY <1>1, <1>2 DEF RawOne, SameNs
<1>11. ObjOne(t, n, b)
  BY <1>1, <1>2, <1>3, DutySame DEF ObjOne, SameObj
<1>14. NsOne(t, n, b)
  <2>1. \A j \in 1..Len(s.nsPend) : s.nsPend[j].cid = 0 =>
           /\ \A i \in 1..Len(s.nsPend) : s.nsPend[i].cid = 0 => i = j
           /\ \A p \in s.bodyPend : p.e.cid # 0
           /\ \A i \in 1..Len(s.objPend) : s.objPend[i].cid # 0
           /\ Duty(t, n, s.nsPend[j].op)
           /\ IF j <= Len(a.ns) THEN Hears(t, n, s.nsPend[j].op, a.ns[j])
              ELSE Asks(t, s.nsPend[j].op, s.nsTx[j - Len(a.ns)])
    BY <1>1, <1>2, DutySame DEF NsOne
  <2>2. /\ t.nsPend = s.nsPend /\ t.nsTx = s.nsTx /\ b.ns = a.ns /\ t.bodyPend = s.bodyPend
        /\ t.objPend = s.objPend
    BY <1>2, <1>3 DEF SameNs, SameObj
  <2>3. QED
    BY <2>1, <2>2 DEF NsOne
<1>12. BodyOne(t, n, b)
  <2> SUFFICES ASSUME NEW p \in t.bodyPend, p.e.cid = 0
      PROVE  /\ \A z \in t.bodyPend : z.e.cid = 0 => z = p
             /\ \A i \in 1..Len(t.objPend) : t.objPend[i].cid # 0
             /\ Duty(t, n, p.e.op)
             /\ \A i \in 1..Len(t.bodyTx) : t.bodyTx[i].id = p.id => Asks(t, p.e.op, t.bodyTx[i])
             /\ \A r \in b.body : r.id = p.id => Hears(t, n, p.e.op, r.a)
    BY DEF BodyOne
  <2>1. p \in s.bodyPend
    BY <1>2
  <2>2. /\ \A z \in s.bodyPend : z.e.cid = 0 => z = p
        /\ \A i \in 1..Len(s.objPend) : s.objPend[i].cid # 0
        /\ Duty(s, n, p.e.op)
        /\ \A i \in 1..Len(s.bodyTx) : s.bodyTx[i].id = p.id => Asks(s, p.e.op, s.bodyTx[i])
        /\ \A r \in a.body : r.id = p.id => Hears(s, n, p.e.op, r.a)
    BY <1>1, <2>1 DEF BodyOne
  <2>3. p.e.op \in GcBody
    BY <1>1, <2>1 DEF ById, BodyEntry
  <2>4. ASSUME q.id = p.id PROVE Hears(s, n, p.e.op, x)
    <3>1. Asks(s, p.e.op, q)
      BY <1>5, <2>2, <2>4
    <3>2. /\ p.e.op = "gc_scan" => q.op = "scan"
          /\ p.e.op = "gc_root" => q.op = "get" /\ q.dig = Head(s.gc.roots)
          /\ p.e.op = "gc_leaf" => q.op = "get" /\ q.dig = Head(s.gc.leaves)
      BY <3>1 DEF Asks
    <3>3. /\ q.op = "scan" => x.page \in Seq(Digest)
          /\ q.op = "get" => (x.v = "ok" => x.dig = q.dig)
      BY DEF q
    <3>4. QED
      BY <2>3, <3>2, <3>3 DEF Hears, GcBody
  <2>5. \A r \in b.body : r.id = p.id => Hears(s, n, p.e.op, r.a)
    BY <1>3, <1>4, <2>2, <2>4
  <2>6. \A i \in 1..Len(t.bodyTx) : t.bodyTx[i].id = p.id => Asks(s, p.e.op, t.bodyTx[i])
    BY <1>5, <2>2
  <2>7. QED
    BY <1>2, <2>2, <2>5, <2>6, DutySame DEF SameObj
<1>13. QED
  BY <1>1, <1>6, <1>7, <1>8, <1>9, <1>10, <1>11, <1>12, <1>14 DEF Core, Sweeps, t, b, y, q

-----------------------------------------------------------------------------
(* What the body plane and the index answer the sweep.                       *)

\* Digests are finitely many numbers.
LEMMA DigestsFinite ==
    ASSUME NEW S, S \subseteq Digest
    PROVE  S \in SUBSET Nat /\ IsFiniteSet(S)
<1>1. NDigests \in Nat
  BY SizesAssumption
<1>2. IsFiniteSet(Digest) /\ Digest \subseteq Nat
  BY <1>1, FS_Interval DEF Digest
<1>3. QED
  BY <1>2, FS_Subset

\* A sequence of some digests is one of digests.
LEMMA SeqWider ==
    ASSUME NEW S, NEW T, S \subseteq T, NEW x \in Seq(S)
    PROVE  x \in Seq(T) /\ Len(x) \in Nat
<1>1. Len(x) \in Nat /\ \A i \in 1..Len(x) : x[i] \in S
  BY LenProperties, ElementOfSeq
<1>2. x \in Seq(T)
  BY <1>1, LenProperties, SeqDef
<1>3. QED
  BY <1>1, <1>2

\* A page of names is a sequence of digests.
LEMMA PageDigests ==
    ASSUME NEW S, NEW at
    PROVE  PageOf(S, at) \in Seq(Digest) /\ ToSet(PageOf(S, at)) \subseteq Digest
<1> DEFINE T == {d \in Digest : d \in S /\ d > at}
           all == InOrder(T)
           p == IF Page < Len(all) THEN Page ELSE Len(all)
<1>1. T \in SUBSET Nat /\ IsFiniteSet(T) /\ T \subseteq Digest
  BY DigestsFinite
<1> HIDE DEF T
<1>2. all \in Seq(T)
  BY <1>1, InOrderLists
<1> HIDE DEF all
<1>3. all \in Seq(Digest) /\ Len(all) \in Nat
  BY <1>1, <1>2, SeqWider
<1>4. Page \in Nat
  BY SizesAssumption
<1>5. p \in 0..Len(all) /\ p \in Nat
  BY <1>3, <1>4
<1> HIDE DEF p
<1>6. SubSeq(all, 1, p) \in Seq(Digest)
  <2>1. \A i \in 1..p : all[i] \in Digest
    <3>1. \A i \in 1..Len(all) : all[i] \in Digest
      BY <1>3, ElementOfSeq
    <3>2. QED
      BY <1>3, <1>5, <3>1
  <2>2. QED
    BY <1>3, <1>5, <2>1
<1>7. PageOf(S, at) = SubSeq(all, 1, p)
  BY DEF PageOf, p, all, T
<1>8. ASSUME NEW w \in Seq(Digest) PROVE ToSet(w) \subseteq Digest
  BY <1>8, ElementOfSeq, LenProperties DEF ToSet
<1>9. QED
  BY <1>6, <1>7, <1>8

IsBodyAns(z) == z = [v |-> z.v, page |-> z.page, next |-> z.next, wid |-> z.wid, dig |-> z.dig]
IsObjAns(z) == z = [v |-> z.v, page |-> z.page, next |-> z.next]

\* The body plane's answers to a scan and to a read.
LEMMA BodyHears ==
    ASSUME NEW b, NEW q
    PROVE  /\ q.op = "scan" => BodyApply(b, q).a.page \in Seq(Digest)
           /\ q.op = "get" => (BodyApply(b, q).a.v = "ok" => BodyApply(b, q).a.dig = q.dig)
<1>1. ASSUME NEW v PROVE IsBodyAns(BodyAns(v)) /\ BodyAns(v).v = v
  BY DEF BodyAns, IsBodyAns
<1>2. ASSUME q.op = "scan" PROVE BodyApply(b, q).a.page \in Seq(Digest)
  <2> DEFINE S == ToSet(PageOf(b.held, q.dig)) \ b.keyed
             p == InOrder(S)
             m == NextOf(b.held, q.dig)
  <2>1. S \subseteq Digest
    BY PageDigests
  <2>2. BodyApply(b, q).a = [BodyAns("ok") EXCEPT !.page = p, !.next = m]
    BY <1>2 DEF BodyApply
  <2> HIDE DEF S
  <2>3. p \in Seq(S)
    BY <2>1, DigestsFinite, InOrderLists
  <2> HIDE DEF p, m
  <2>4. p \in Seq(Digest)
    BY <2>1, <2>3, SeqWider
  <2>5. \A z : IsBodyAns(z) => [z EXCEPT !.page = p, !.next = m].page = p
    BY DEF IsBodyAns
  <2>6. QED
    BY <1>1, <2>2, <2>4, <2>5
<1>3. ASSUME q.op = "get", BodyApply(b, q).a.v = "ok" PROVE BodyApply(b, q).a.dig = q.dig
  <2>1. BodyApply(b, q).a = IF q.dig \in b.held THEN [BodyAns("ok") EXCEPT !.dig = q.dig]
                            ELSE BodyAns("not_found")
    BY <1>3 DEF BodyApply
  <2>2. BodyAns("not_found").v # "ok"
    BY <1>1
  <2>3. \A z : IsBodyAns(z) => [z EXCEPT !.dig = q.dig].dig = q.dig
    BY DEF IsBodyAns
  <2>4. QED
    BY <1>1, <1>3, <2>1, <2>2, <2>3
<1>4. QED
  BY <1>2, <1>3

\* A failed request has an empty page.
LEMMA NoPage ==
    /\ \A v : ObjAns(v).page = <<>>
    /\ BodyAns("nak").page = <<>> /\ BodyAns("nak").v # "ok"
    /\ <<>> \in Seq(Digest)
<1>1. \A v : ObjAns(v).page = <<>>
  BY DEF ObjAns
<1>2. BodyAns("nak").page = <<>> /\ BodyAns("nak").v # "ok"
  BY DEF BodyAns
<1>3. <<>> \in Seq(Digest)
  OBVIOUS
<1>4. QED
  BY <1>1, <1>2, <1>3

\* The index's answer to a scan.
LEMMA ObjHears ==
    ASSUME NEW o, NEW q, q.op = "scan"
    PROVE  ObjApply(o, q).a.page \in Seq(Digest)
<1> DEFINE p == PageOf(o, q.dig)
           m == NextOf(o, q.dig)
<1>1. ObjApply(o, q).a = [ObjAns("ok") EXCEPT !.page = p, !.next = m]
  BY DEF ObjApply
<1>2. p \in Seq(Digest)
  BY PageDigests
<1>3. IsObjAns(ObjAns("ok"))
  BY DEF ObjAns, IsObjAns
<1> HIDE DEF p, m
<1>4. \A z : IsObjAns(z) => [z EXCEPT !.page = p, !.next = m].page = p
  BY DEF IsObjAns
<1>5. QED
  BY <1>1, <1>2, <1>3, <1>4

-----------------------------------------------------------------------------
(* The planes' steps.                                                        *)

\* The namespace carries out a request.
LEMMA NsStepKeeps == ASSUME IInv, NsStep PROVE IInv'
<1> DEFINE r == NsApply(ns, Head(ar.nsTx))
<1>1. /\ ar.nsTx # <<>> /\ ns' = r.n /\ ans' = [ans EXCEPT !.ns = Append(@, r.a)]
      /\ ar' = [ar EXCEPT !.nsTx = Tail(@)] /\ user' = user /\ cfg' = cfg
  BY DEF NsStep
<1>2. Core(ar, ns, ans) /\ Asking
  BY DEF IInv
<1>3. Core([ar EXCEPT !.nsTx = Tail(@)], r.n, [ans EXCEPT !.ns = Append(@, r.a)])
  BY <1>1, <1>2, NsCarries
<1> HIDE DEF r
<1>4. Core(ar', ns', ans')
  BY <1>1, <1>3
<1>5. Asking'
  BY <1>1, <1>2 DEF Asking
<1>6. QED
  BY <1>4, <1>5 DEF IInv

\* The body plane carries out a request, or fails it.
LEMMA BodyStepKeeps == ASSUME IInv, BodyStep PROVE IInv'
<1> DEFINE q == Head(ar.bodyTx)
<1>1. PICK x : /\ ans' = [ans EXCEPT !.body = @ \cup {[id |-> q.id, a |-> x]}]
               /\ x \in {BodyApply(bodies, q).a, BodyAns("nak")}
               /\ cfg' = cfg \/ (cfg.faults > 0 /\ cfg' = [cfg EXCEPT !.faults = @ - 1])
  BY DEF BodyStep
<1>2. ar.bodyTx # <<>> /\ ar' = [ar EXCEPT !.bodyTx = Tail(@)] /\ ns' = ns /\ user' = user
  BY DEF BodyStep, BodyCan
<1>3. Core(ar, ns, ans) /\ Asking
  BY DEF IInv
<1>4. /\ q.op = "scan" => x.page \in Seq(Digest)
      /\ q.op = "get" => (x.v = "ok" => x.dig = q.dig)
  <2>1. CASE x = BodyApply(bodies, q).a
    BY <2>1, BodyHears
  <2>2. CASE x = BodyAns("nak")
    BY <2>2, NoPage
  <2>3. QED
    BY <1>1, <2>1, <2>2
<1>5. Core([ar EXCEPT !.bodyTx = Tail(@)], ns,
           [ans EXCEPT !.body = @ \cup {[id |-> q.id, a |-> x]}])
  BY <1>2, <1>3, <1>4, BodyCarries
<1> DEFINE b == [ans EXCEPT !.body = @ \cup {[id |-> q.id, a |-> x]}]
<1>6. ans' = b /\ Core(ar', ns, b)
  BY <1>1, <1>2, <1>5
<1> HIDE DEF b
<1>7. Core(ar', ns', ans')
  BY <1>2, <1>6
<1>8. Asking'
  BY <1>1, <1>2, <1>3, CfgFewer DEF Asking
<1>9. QED
  BY <1>7, <1>8 DEF IInv

\* The index carries out a request, or fails it.
LEMMA ObjStepKeeps == ASSUME IInv, ObjStep PROVE IInv'
<1> DEFINE q == Head(ar.objTx)
<1>1. PICK x : /\ ans' = [ans EXCEPT !.obj = Append(@, x)]
               /\ x = ObjApply(objs, q).a \/ \E v : x = ObjAns(v)
               /\ cfg' = cfg \/ (cfg.faults > 0 /\ cfg' = [cfg EXCEPT !.faults = @ - 1])
  BY DEF ObjStep
<1>2. ar.objTx # <<>> /\ ar' = [ar EXCEPT !.objTx = Tail(@)] /\ ns' = ns /\ user' = user
  BY DEF ObjStep
<1>3. Core(ar, ns, ans) /\ Asking
  BY DEF IInv
<1>4. q.op = "scan" => x.page \in Seq(Digest)
  BY <1>1, ObjHears, NoPage
<1>5. Core([ar EXCEPT !.objTx = Tail(@)], ns, [ans EXCEPT !.obj = Append(@, x)])
  BY <1>2, <1>3, <1>4, ObjCarries
<1>6. Core(ar', ns', ans')
  BY <1>1, <1>2, <1>5
<1>7. Asking'
  BY <1>1, <1>2, <1>3, CfgFewer DEF Asking
<1>8. QED
  BY <1>6, <1>7 DEF IInv

\* A writer's lease lapses: the flush it leaves is still no clear one.
LEMMA LapseKeeps == ASSUME IInv, Lapse PROVE IInv'
<1>1. /\ ns.flush = "open" /\ ns' = [ns EXCEPT !.flush = "lapsed"]
      /\ ar' = ar /\ ans' = ans /\ user' = user /\ cfg' = cfg
  BY DEF Lapse
<1>2. Core(ar, ns, ans) /\ Asking /\ Names(ns)
  BY DEF IInv, Core
<1>3. ns' = [bind |-> ns.bind, reserved |-> ns.reserved, flush |-> "lapsed", view |-> ns.view]
  BY <1>1, <1>2 DEF Names
<1>4. Names(ns') /\ \A d \in Digest : Stays(ns, ns', d)
  BY <1>1, <1>2, <1>3 DEF Names, Stays, Frozen
<1>5. Core(ar, ns', ans)
  BY <1>2, <1>4, NamesMove
<1>6. QED
  BY <1>1, <1>2, <1>5 DEF IInv, Asking

\* The compactor's new generation changes no binding.
LEMMA CompactKeeps == ASSUME IInv, Compact PROVE IInv'
<1>1. /\ ns' = [ns EXCEPT !.view = @ + 1]
      /\ ar' = ar /\ ans' = ans /\ user' = user /\ cfg' = cfg
  BY DEF Compact
<1>2. Core(ar, ns, ans) /\ Asking /\ Names(ns)
  BY DEF IInv, Core
<1>3. \E v : ns' = [bind |-> ns.bind, reserved |-> ns.reserved, flush |-> ns.flush, view |-> v]
  BY <1>1, <1>2 DEF Names
<1>4. Names(ns') /\ \A d \in Digest : Stays(ns, ns', d)
  BY <1>2, <1>3 DEF Names, Stays, Frozen
<1>5. Core(ar, ns', ans)
  BY <1>2, <1>4, NamesMove
<1>6. QED
  BY <1>1, <1>2, <1>5 DEF IInv, Asking

-----------------------------------------------------------------------------
(* The theorems.                                                             *)

IsBodies(b) == b = [held |-> b.held, keyed |-> b.keyed, sess |-> b.sess]
SweepInv == IInv /\ IsBodies(bodies)

\* The router starts with nothing queued and nothing pending.
LEMMA InitKeeps == Init => SweepInv
<1> SUFFICES ASSUME Init PROVE SweepInv
  OBVIOUS
<1>1. cfg \in Config
  BY ConfigsAssumption DEF Init
<1>2. Len(<<>>) = 0 /\ <<>> \in Seq(Digest) /\ IsSeq(<<>>) /\ 1..0 = {}
  BY EmptySeq DEF IsSeq
<1>3. /\ ar.nsPend = <<>> /\ ar.nsTx = <<>> /\ ar.objPend = <<>> /\ ar.objTx = <<>>
      /\ ar.bodyTx = <<>> /\ ar.bodyPend = {} /\ ar.raw = IdleRaw /\ ar.gc = IdleGc
      /\ ar.put = [i \in 1..PutFiles |-> FreeSlot] /\ IsRouter(ar)
  BY DEF Init, NewRouter, IsRouter
<1>4. IsRaw(ar.raw) /\ ar.raw.stage = "idle"
  BY <1>3 DEF IdleRaw, IsRaw
<1>5. Gc(ar.gc)
  <2>1. /\ ar.gc.phase = "body" /\ ar.gc.queue = <<>> /\ ar.gc.roots = <<>> /\ ar.gc.leaves = <<>>
        /\ ar.gc.check = 0 /\ ar.gc.next = 0 /\ IsGc(ar.gc)
    BY <1>3 DEF IdleGc, IsGc
  <2>2. QED
    BY <1>2, <2>1 DEF Gc
<1>6. Puts(ar.put)
  <2>1. IsSlot(FreeSlot) /\ FreeSlot.op = "free"
    BY DEF IsSlot, FreeSlot, SlotField
  <2>2. \A i \in 1..PutFiles : ar.put[i] = FreeSlot
    BY <1>3
  <2>3. ar.put = [i \in 1..PutFiles |-> ar.put[i]]
    BY <1>3
  <2>4. QED
    BY <2>1, <2>2, <2>3 DEF Puts
<1>7. Tables(ar)
  BY <1>2, <1>3, <1>4, <1>5, <1>6, FS_EmptySet DEF Tables
<1>8. ans.ns = <<>> /\ ans.obj = <<>> /\ ans.body = {} /\ Answers(ans)
  BY <1>2 DEF Init, Answers
<1>9. Names(ns)
  <2>1. cfg.bound \in [Key -> Binding]
    BY <1>1 DEF Config
  <2>2. ASSUME NEW z, z = [bind |-> z.bind, reserved |-> z.reserved, flush |-> z.flush,
                           view |-> z.view], NEW f
        PROVE  [z EXCEPT !.bind = f] = [bind |-> f, reserved |-> z.reserved, flush |-> z.flush,
                                        view |-> z.view]
    BY <2>2
  <2>3. NewNamespace = [bind |-> NewNamespace.bind, reserved |-> NewNamespace.reserved,
                        flush |-> NewNamespace.flush, view |-> NewNamespace.view]
    BY DEF NewNamespace
  <2>4. /\ ns = [bind |-> ns.bind, reserved |-> ns.reserved, flush |-> ns.flush, view |-> ns.view]
        /\ ns.bind = cfg.bound
    BY <2>2, <2>3 DEF Init
  <2>5. \A b \in Binding : IsBound(b)
    BY DEF Binding, IsBound
  <2>6. QED
    BY <2>1, <2>4, <2>5 DEF Names
<1>10. InOrderAnswers(ar, ans)
  BY <1>2, <1>3, <1>8 DEF InOrderAnswers
<1>11. ById(ar, ans)
  BY <1>2, <1>3, <1>8 DEF ById
<1>12. RawOne(ar)
  BY <1>2, <1>3, <1>4 DEF RawOne
<1>13. Sweeps(ar, ns, ans)
  BY <1>2, <1>3 DEF Sweeps, NsOne, BodyOne, ObjOne
<1>14. Asking
  <2>1. /\ user = [c \in Client |-> user[c]]
        /\ \A c \in Client : user[c] = [at |-> 1, asking |-> FALSE, pf |-> None]
    BY DEF Init
  <2>2. \A c \in Client : user[c].at = 1 /\ IsUser(user[c])
    BY <2>1 DEF IsUser
  <2>3. QED
    BY <1>1, <2>1, <2>2 DEF Asking
<1>15. IsBodies(bodies)
  BY DEF Init, NewBodies, IsBodies
<1>16. QED
  BY <1>7, <1>8, <1>9, <1>10, <1>11, <1>12, <1>13, <1>14, <1>15 DEF SweepInv, IInv, Core

\* The body plane keeps its shape.
LEMMA BodiesShape ==
    ASSUME NEW b, IsBodies(b), NEW q
    PROVE  IsBodies(BodyApply(b, q).b)
<1>1. ASSUME NEW c, IsBodies(c), NEW x
      PROVE  /\ IsBodies([c EXCEPT !.held = x]) /\ IsBodies([c EXCEPT !.keyed = x])
             /\ IsBodies([c EXCEPT !.sess = x])
  BY <1>1 DEF IsBodies
<1>3. ASSUME NEW x, NEW y
      PROVE  IsBodies([b EXCEPT !.held = x, !.keyed = y]) /\ IsBodies([b EXCEPT !.held = x, !.sess = y])
  <2>1. /\ [b EXCEPT !.held = x, !.keyed = y] = [[b EXCEPT !.held = x] EXCEPT !.keyed = y]
        /\ [b EXCEPT !.held = x, !.sess = y] = [[b EXCEPT !.held = x] EXCEPT !.sess = y]
    OBVIOUS
  <2>2. QED
    BY <1>1, <2>1, Zenon
<1>2. QED
  BY <1>1, <1>3 DEF BodyApply

\* Every step keeps the invariant.
LEMMA NextKeeps == SweepInv /\ [Next]_vars => SweepInv'
<1> SUFFICES ASSUME SweepInv, [Next]_vars PROVE SweepInv'
  OBVIOUS
<1>1. IInv /\ IsBodies(bodies)
  BY DEF SweepInv
<1>2. IInv'
  <2>1. ASSUME NEW c \in Client, TakeRequest(c) PROVE IInv'
    BY <1>1, <2>1, TakeRequestKeeps
  <2>2. CASE TakeNs
    BY <1>1, <2>2, TakeNsKeeps
  <2>3. CASE TakeBody
    BY <1>1, <2>3, TakeBodyKeeps
  <2>4. CASE TakeObj
    BY <1>1, <2>4, TakeObjKeeps
  <2>5. CASE Kick
    BY <1>1, <2>5, KickKeeps
  <2>6. CASE Deliver
    BY <1>1, <2>6, DeliverKeeps
  <2>7. CASE NsStep
    BY <1>1, <2>7, NsStepKeeps
  <2>8. CASE BodyStep
    BY <1>1, <2>8, BodyStepKeeps
  <2>9. CASE ObjStep
    BY <1>1, <2>9, ObjStepKeeps
  <2>10. CASE Lapse
    BY <1>1, <2>10, LapseKeeps
  <2>11. CASE Compact
    BY <1>1, <2>11, CompactKeeps
  <2>12. CASE UNCHANGED vars
    <3>1. ar' = ar /\ ns' = ns /\ ans' = ans /\ user' = user /\ cfg' = cfg
      BY <2>12 DEF vars
    <3>2. QED
      BY <1>1, <3>1 DEF IInv, Asking
  <2>13. QED
    BY <2>1, <2>2, <2>3, <2>4, <2>5, <2>6, <2>7, <2>8, <2>9, <2>10, <2>11, <2>12 DEF Next
<1>3. bodies' = bodies \/ \E q : bodies' = BodyApply(bodies, q).b
  BY DEF Next, TakeRequest, TakeNs, TakeBody, TakeObj, Kick, Deliver, NsStep, BodyStep,
         ObjStep, Lapse, Compact, vars
<1>4. IsBodies(bodies')
  BY <1>1, <1>3, BodiesShape
<1>5. QED
  BY <1>2, <1>4 DEF SweepInv

\* Every reachable state has the sweep's proof for what it has asked.
THEOREM SweepInvariant == Spec => []SweepInv
<1>1. QED
  BY InitKeeps, NextKeeps, PTL DEF Spec

\* A digest that is proven is not reached.
LEMMA ProvenUnreached ==
    ASSUME NEW n, NEW d \in Digest, Proven(n, d)
    PROVE  d \notin Reached(n) /\ n.flush = "none"
<1>1. \A k \in Key : n.bind[k].obj # d
  BY SizesAssumption DEF Proven, Clear, Key
<1>2. \A k \in Key : n.bind[k].vol => Unlisted(n.bind[k].obj, d)
  BY DEF Proven
<1>3. QED
  BY <1>1, <1>2 DEF Reached, Unlisted, Proven, Frozen

\* At the body plane, a delete of the sweep names a digest that is proven.
LEMMA DeleteProven ==
    ASSUME SweepInv, ar.bodyTx # <<>>, Head(ar.bodyTx).op = "delete", Head(ar.bodyTx).cid = 0
    PROVE  Head(ar.bodyTx).dig \in Digest /\ Proven(ns, Head(ar.bodyTx).dig)
<1> DEFINE q == Head(ar.bodyTx)
<1>1. Tables(ar) /\ ById(ar, ans) /\ BodyOne(ar, ns, ans)
  BY DEF SweepInv, IInv, Core, Sweeps
<1>2. q = ar.bodyTx[1] /\ 1 \in 1..Len(ar.bodyTx)
  <2>1. IsSeq(ar.bodyTx)
    BY <1>1 DEF Tables
  <2>2. Head(ar.bodyTx) = ar.bodyTx[1] /\ Len(ar.bodyTx) \in Nat \ {0}
    BY <2>1, SeqTail
  <2>3. QED
    BY <2>2
<1>3. PICK p \in ar.bodyPend : p.id = q.id /\ p.e.cid = 0
  BY <1>1, <1>2 DEF ById
<1>4. p.e.op \in GcBody
  BY <1>1, <1>3 DEF ById, BodyEntry
<1>5. Duty(ar, ns, p.e.op) /\ Asks(ar, p.e.op, q)
  BY <1>1, <1>2, <1>3 DEF BodyOne
<1>6. p.e.op = "gc_delete"
  BY <1>4, <1>5 DEF Asks, GcBody
<1>7. q.dig = Candidate(ar) /\ Proven(ns, Candidate(ar)) /\ ar.gc.queue # <<>>
  BY <1>5, <1>6 DEF Asks, Duty
<1>8. QED
  BY <1>1, <1>7, CandidateDigest

\* The sweep's delete reaches the body plane only for a body that no binding
\* names, that no bound volume's map lists, and while no writer has a flush open
\* (gc_begin_current to gc_delete_body, with the namespace's reservation).
THEOREM SweepSparesAlways == Spec => SweepSpares
<1>1. SweepInv /\ [Next]_vars =>
         [Sweeping => /\ (bodies.held \ bodies'.held) \cap Reached(ns) = {}
                      /\ ns.flush # "open"]_vars
  <2> SUFFICES ASSUME SweepInv, Next, Sweeping
               PROVE  (bodies.held \ bodies'.held) \cap Reached(ns) = {} /\ ns.flush # "open"
    OBVIOUS
  <2> DEFINE q == Head(ar.bodyTx)
  <2>1. ar.bodyTx # <<>> /\ q.op = "delete" /\ q.cid = 0 /\ bodies'.held # bodies.held
    BY DEF Sweeping, Deleting
  <2>2. q.dig \in Digest /\ Proven(ns, q.dig)
    BY <2>1, DeleteProven
  <2>3. q.dig \notin Reached(ns) /\ ns.flush = "none"
    BY <2>2, ProvenUnreached
  <2>4. bodies' = BodyApply(bodies, q).b
    BY <2>1 DEF Next, TakeRequest, TakeNs, TakeBody, TakeObj, Kick, Deliver, NsStep, BodyStep,
                ObjStep, Lapse, Compact
  <2>5. bodies' = [bodies EXCEPT !.held = @ \ {q.dig}, !.keyed = @ \ {q.dig}]
    BY <2>1, <2>4 DEF BodyApply
  <2>6. bodies'.held = bodies.held \ {q.dig}
    <3>1. \A x, y : [bodies EXCEPT !.held = x, !.keyed = y].held = x
      BY DEF SweepInv, IsBodies
    <3>2. QED
      BY <2>5, <3>1
  <2>7. QED
    BY <2>3, <2>6
<1>2. QED
  BY <1>1, SweepInvariant, PTL DEF Spec, SweepSpares
=============================================================================
