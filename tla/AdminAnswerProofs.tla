------------------------- MODULE AdminAnswerProofs -------------------------
(***************************************************************************)
(* Proofs about AdminRouter's answers: each goes to a client that waits    *)
(* for one of its kind, and says OK of a write exactly when its plane      *)
(* carried that write out (AnswerExact), whatever requests, retries,       *)
(* refusals and faults come between.                                       *)
(*                                                                         *)
(* The invariant follows a client's request through the pending tables,    *)
(* the PutFile slots, the raw plane's record and the answer owed (Told):   *)
(* it is in one place at a time (Alone), and what is held there agrees     *)
(* with whether the write was carried out.  A handler takes the one entry  *)
(* of its client and answers, sends one request on, or drops it (Goes,     *)
(* RawGoes); each of these keeps the invariant, and so does each step of   *)
(* a plane.                                                                *)
(***************************************************************************)
EXTENDS AdminRouterProofs

-----------------------------------------------------------------------------
(* Who waits for what.                                                       *)

\* What each client asks of the router now.
Doing == [c \in Client |-> IF user[c].asking THEN Asked(c).op ELSE "none"]

\* The PutFile slots that work for client c.
Mine(s, c) == {i \in 1..PutFiles : s.put[i].op # "free" /\ s.put[i].cid = c}

\* An entry is part of what its client asks.
Fits(e, w) ==
    /\ e.cid \in Client /\ w[e.cid] # "none"
    /\ \/ e.op \in {w[e.cid], AckOf(w[e.cid])}
       \/ e.op = "raw" /\ w[e.cid] \in RawOp

\* A client has one slot at most, for what it asks.
SlotsFit(s, c, w) ==
    \A i \in Mine(s, c) : s.put[i].op = AckOf(w[c]) /\ \A k \in Mine(s, c) : k = i
SlotsTold(s, w) ==
    /\ \A i \in 1..PutFiles : s.put[i].op # "free" => s.put[i].cid \in Client
    /\ \A c \in Client : SlotsFit(s, c, w)

\* What is queued for the namespace under a client's entry: nothing is carried
\* out yet, and the stage of a composed write names the request.
NsAsked(s, e, q, d) ==
    IF e.op = "raw" THEN q.cid = 0
    ELSE /\ q.cid = e.cid /\ ~d[e.cid]
         /\ e.op \in Composed /\ HoldsSlot(s, e) =>
               q.op = s.put[e.i].stage /\ q.op \in {"lookup", "bind", "unbind", "retain"}
         /\ e.op \in {"bind", "commit"} => q.op = e.op
\* What is answered: OK exactly if the write was carried out.
NsSaid(s, e, z, d) ==
    /\ e.op \in Composed /\ HoldsSlot(s, e) =>
          IF s.put[e.i].stage = "lookup" THEN ~d[e.cid] ELSE (d[e.cid] <=> z.v = "ok")
    /\ e.op \in {"bind", "commit"} => (d[e.cid] <=> z.v = "ok")
NsOf(s, a, w, d, j) ==
    s.nsPend[j].cid # 0 =>
       /\ Fits(s.nsPend[j], w)
       /\ IF j <= Len(a.ns) THEN NsSaid(s, s.nsPend[j], a.ns[j], d)
          ELSE NsAsked(s, s.nsPend[j], s.nsTx[j - Len(a.ns)], d)
NsTold(s, a, w, d) == \A j \in 1..Len(s.nsPend) : NsOf(s, a, w, d, j)

\* The same of the body plane, where only the raw plane's requests are writes a
\* client is told of.
BodyFits(s, e, w, d) ==
    /\ Fits(e, w)
    /\ e.op \in RawOp => e.cid = s.raw.cid
    /\ e.op \notin {"delete_file", "retain", "bind", "commit", "raw"}
    /\ e.op \in {"put_file", "put_commit"} => ~d[e.cid]
    /\ e.op = "put_commit" => Mine(s, e.cid) = {}
BodyAsked(e, q, d) ==
    /\ q.cid = e.cid
    /\ e.op \in RawOp => q.op \in {"delete", "put_keyed"} /\ ~d[e.cid]
    /\ e.op \notin RawOp => q.op \notin Writes
BodyOf(s, a, w, d, p) ==
    p.e.cid # 0 =>
       /\ BodyFits(s, p.e, w, d)
       /\ \A i \in 1..Len(s.bodyTx) : s.bodyTx[i].id = p.id => BodyAsked(p.e, s.bodyTx[i], d)
       /\ \A r \in a.body : r.id = p.id /\ p.e.op \in RawOp => (d[p.e.cid] <=> r.a.v = "ok")
BodyTold(s, a, w, d) == \A p \in s.bodyPend : BodyOf(s, a, w, d, p)

\* The index is asked for what is no write of a client's.
ObjOf(s, w, d, j) == s.objPend[j].cid # 0 => Fits(s.objPend[j], w) /\ ~d[s.objPend[j].cid]
ObjTold(s, w, d) == \A j \in 1..Len(s.objPend) : ObjOf(s, w, d, j)

\* The raw plane works for the client it holds, and holds the truth for it.
RawFits(r, w, d) ==
    /\ r.cid \in Client /\ w[r.cid] = r.op /\ r.op \in RawOp
    /\ r.stage \in {"reserve", "check"} => ~d[r.cid]
    /\ r.stage = "release" => (d[r.cid] <=> r.status = "ok")
RawTold(s, w, d) ==
    /\ s.raw.stage # "idle" => RawFits(s.raw, w, d)
    /\ \A j \in 1..Len(s.nsPend) : s.nsPend[j].op = "raw" => s.nsPend[j].cid = s.raw.cid
NotRaws(s, c) == s.raw.stage # "idle" => s.raw.cid # c

\* The answer owed is the answer to what its client asks, and true.
Owes(s, c, w, d) ==
    /\ s.owed.cid = c /\ s.owed.op = AckOf(w[c])
    /\ s.owed.op \in WriteOps => (s.owed.status = "ok" <=> d[c])
    /\ Mine(s, c) = {}
OwedTold(s, w, d) ==
    s.owed # NoAnswer =>
       /\ s.owed.cid \in Client /\ w[s.owed.cid] # "none"
       /\ Owes(s, s.owed.cid, w, d) /\ NotRaws(s, s.owed.cid)

\* A client has one request or answer on the way at most.
NsHas(s, c) == \E j \in 1..Len(s.nsPend) : s.nsPend[j].cid = c
BodyHas(s, c) == \E p \in s.bodyPend : p.e.cid = c
ObjHas(s, c) == \E j \in 1..Len(s.objPend) : s.objPend[j].cid = c
OwedHas(s, c) == s.owed # NoAnswer /\ s.owed.cid = c
AloneNs(s, c) ==
    /\ \A j, k \in 1..Len(s.nsPend) : s.nsPend[j].cid = c /\ s.nsPend[k].cid = c => j = k
    /\ NsHas(s, c) => ~BodyHas(s, c) /\ ~ObjHas(s, c) /\ ~OwedHas(s, c)
AloneBody(s, c) ==
    /\ \A p, q \in s.bodyPend : p.e.cid = c /\ q.e.cid = c => p = q
    /\ BodyHas(s, c) => ~ObjHas(s, c) /\ ~OwedHas(s, c)
AloneObj(s, c) ==
    /\ \A j, k \in 1..Len(s.objPend) : s.objPend[j].cid = c /\ s.objPend[k].cid = c => j = k
    /\ ObjHas(s, c) => ~OwedHas(s, c)
Alone(s) == \A c \in Client : AloneNs(s, c) /\ AloneBody(s, c) /\ AloneObj(s, c)
Absent(s, c) == ~NsHas(s, c) /\ ~BodyHas(s, c) /\ ~ObjHas(s, c) /\ ~OwedHas(s, c)

\* All of it, of a router s, the answers a, what clients ask and what was carried
\* out.
Told(s, a, w, d) ==
    /\ SlotsTold(s, w) /\ NsTold(s, a, w, d) /\ BodyTold(s, a, w, d) /\ ObjTold(s, w, d)
    /\ RawTold(s, w, d) /\ OwedTold(s, w, d) /\ Alone(s)

\* The inductive invariant.
AnswerInv == Told(ar, ans, Doing, done) /\ done \in [Client -> BOOLEAN]

-----------------------------------------------------------------------------
(* What a handler does for a client c: 0 stands for the sweep.               *)

\* Slot i is free or c's; the other slots are as they were.
Yours(s, i, c) == s.put[i].op = "free" \/ s.put[i].cid = c
SlotFrame(s, t, c) ==
    \A i \in 1..PutFiles : t.put[i] = s.put[i] \/ (Yours(s, i, c) /\ Yours(t, i, c))

\* The raw plane's record changes only while nothing of it is on the way.
RawFrame(s, t, w, d) ==
    t.raw = s.raw \/ (NoRaw(s) /\ (t.raw.stage # "idle" => RawFits(t.raw, w, d)))

\* One request is sent, under an entry of c's, or none and c is answered, or nothing.
SendsNs(s, t, c, w, d) ==
    /\ SameBody(s, t) /\ SameObj(s, t) /\ t.owed = s.owed
    /\ \E e, q : /\ SentNs(s, t, e, q) /\ e.cid = c /\ (e.op = "raw" => c = t.raw.cid)
                 /\ c # 0 => Fits(e, w) /\ NsAsked(t, e, q, d)
SendsBody(s, t, c, w, d) ==
    /\ SameNs(s, t) /\ SameObj(s, t) /\ t.owed = s.owed
    /\ \E e, q : /\ SentBody(s, t, e, q) /\ e.cid = c
                 /\ c # 0 => BodyFits(t, e, w, d) /\ BodyAsked(e, q, d)
SendsObj(s, t, c, w, d) ==
    /\ SameNs(s, t) /\ SameBody(s, t) /\ t.owed = s.owed
    /\ \E e, q : /\ SentObj(s, t, e, q) /\ e.cid = c
                 /\ c # 0 => Fits(e, w) /\ ~d[c]
SendsNone(s, t) == SameNs(s, t) /\ SameBody(s, t) /\ SameObj(s, t)
Tells(s, t, c, w, d) == SendsNone(s, t) /\ Owes(t, c, w, d) /\ NotRaws(t, c) /\ c # 0
Outcome(s, t, c, w, d) ==
    \/ SendsNone(s, t) /\ t.owed = s.owed
    \/ Tells(s, t, c, w, d)
    \/ SendsNs(s, t, c, w, d) \/ SendsBody(s, t, c, w, d) \/ SendsObj(s, t, c, w, d)

Goes(s, t, c, w, d) ==
    /\ SlotFrame(s, t, c) /\ SlotsFit(t, c, w) /\ (c = 0 => t.put = s.put)
    /\ RawFrame(s, t, w, d)
    /\ Outcome(s, t, c, w, d)

\* Another client's slots are the ones they were.
LEMMA FrameMine ==
    ASSUME NEW s, NEW t, NEW c, SlotFrame(s, t, c), NEW b, b # c
    PROVE  Mine(t, b) = Mine(s, b)
  BY DEF SlotFrame, Yours, Mine

\* Slots still work for the clients that ask.
LEMMA FrameSlots ==
    ASSUME NEW s, NEW t, NEW c \in Client \cup {0}, NEW w, SlotsTold(s, w), SlotFrame(s, t, c),
           SlotsFit(t, c, w), c = 0 => t.put = s.put
    PROVE  SlotsTold(t, w)
<1>1. \A i \in 1..PutFiles : t.put[i].op # "free" => t.put[i].cid \in Client
  BY DEF SlotsTold, SlotFrame, Yours
<1>2. ASSUME NEW b \in Client PROVE SlotsFit(t, b, w)
  <2>1. CASE b = c
    BY <2>1
  <2>2. CASE b # c
    <3>1. Mine(t, b) = Mine(s, b)
      BY <2>2, FrameMine
    <3>2. \A i \in Mine(s, b) : t.put[i] = s.put[i]
      BY <2>2 DEF SlotFrame, Yours, Mine
    <3>3. SlotsFit(s, b, w)
      BY DEF SlotsTold
    <3>4. QED
      BY <3>1, <3>2, <3>3 DEF SlotsFit
  <2>3. QED
    BY <2>1, <2>2
<1>3. QED
  BY <1>1, <1>2 DEF SlotsTold

\* What the namespace is asked, or said, of another client's entry.
LEMMA FrameNs ==
    ASSUME NEW s, NEW t, NEW c, SlotFrame(s, t, c), NEW e, e.cid # c,
           e.op \in Composed => e.i \in 1..PutFiles, NEW z, NEW d
    PROVE  (NsSaid(s, e, z, d) => NsSaid(t, e, z, d)) /\ (NsAsked(s, e, z, d) => NsAsked(t, e, z, d))
<1>1. e.op \in Composed /\ HoldsSlot(t, e) => HoldsSlot(s, e) /\ t.put[e.i] = s.put[e.i]
  BY DEF SlotFrame, Yours, HoldsSlot
<1>2. NsSaid(s, e, z, d) => NsSaid(t, e, z, d)
  BY <1>1 DEF NsSaid
<1>3. NsAsked(s, e, z, d) => NsAsked(t, e, z, d)
  BY <1>1 DEF NsAsked
<1>4. QED
  BY <1>2, <1>3

\* Nothing of the client's was there.
LEMMA AbsentOther ==
    ASSUME NEW s, NEW c, Absent(s, c)
    PROVE  /\ \A j \in 1..Len(s.nsPend) : s.nsPend[j].cid # c
           /\ \A p \in s.bodyPend : p.e.cid # c
           /\ \A j \in 1..Len(s.objPend) : s.objPend[j].cid # c
  BY DEF Absent, NsHas, BodyHas, ObjHas

\* The namespace's entries after a handler.
LEMMA GoesNs ==
    ASSUME NEW s, NEW t, NEW a, NEW c, NEW w, NEW d, Tables(s), Answers(a), InOrderAnswers(s, a),
           NsTold(s, a, w, d), Absent(s, c), Goes(s, t, c, w, d)
    PROVE  NsTold(t, a, w, d)
<1>1. ASSUME NEW j \in 1..Len(s.nsPend), t.nsPend[j] = s.nsPend[j],
             ~(j <= Len(a.ns)) => t.nsTx[j - Len(a.ns)] = s.nsTx[j - Len(a.ns)]
      PROVE  NsOf(t, a, w, d, j)
  <2> DEFINE e == s.nsPend[j]
  <2>1. e.cid # c /\ (e.op \in Composed => e.i \in 1..PutFiles) /\ NsOf(s, a, w, d, j)
    BY AbsentOther DEF InOrderAnswers, NsEntry, NsTold
  <2>2. SlotFrame(s, t, c)
    BY DEF Goes
  <2>3. \A z : (NsSaid(s, e, z, d) => NsSaid(t, e, z, d)) /\ (NsAsked(s, e, z, d) => NsAsked(t, e, z, d))
    BY <2>1, <2>2, FrameNs
  <2>4. QED
    BY <1>1, <2>1, <2>3 DEF NsOf
<1>2. CASE SameNs(s, t)
  BY <1>1, <1>2 DEF NsTold, SameNs
<1>3. CASE SendsNs(s, t, c, w, d)
  <2>1. PICK e, q : SentNs(s, t, e, q) /\ e.cid = c /\ (c # 0 => Fits(e, w) /\ NsAsked(t, e, q, d))
    BY <1>3 DEF SendsNs
  <2>2. ASSUME NEW j \in 1..Len(t.nsPend) PROVE NsOf(t, a, w, d, j)
    <3>1. NsKept(s, t, a, j) \/ NsNew(s, t, a, e, q, j)
      BY <2>1, SentNsEntries
    <3>2. CASE NsKept(s, t, a, j)
      BY <1>1, <3>2 DEF NsKept
    <3>3. CASE NsNew(s, t, a, e, q, j)
      BY <2>1, <3>3 DEF NsNew, NsOf
    <3>4. QED
      BY <3>1, <3>2, <3>3
  <2>3. QED
    BY <2>2 DEF NsTold
<1>4. QED
  BY <1>2, <1>3 DEF Goes, Outcome, SendsNone, Tells, SendsBody, SendsObj

\* The index's entries after a handler.
LEMMA GoesObj ==
    ASSUME NEW s, NEW t, NEW a, NEW c, NEW w, NEW d, Tables(s), Answers(a), InOrderAnswers(s, a),
           ObjTold(s, w, d), Goes(s, t, c, w, d)
    PROVE  ObjTold(t, w, d)
<1>1. CASE SameObj(s, t)
  BY <1>1 DEF ObjTold, ObjOf, SameObj
<1>2. CASE SendsObj(s, t, c, w, d)
  <2>1. PICK e, q : SentObj(s, t, e, q) /\ e.cid = c /\ (c # 0 => Fits(e, w) /\ ~d[c])
    BY <1>2 DEF SendsObj
  <2>2. ASSUME NEW j \in 1..Len(t.objPend) PROVE ObjOf(t, w, d, j)
    <3>1. ObjKept(s, t, a, j) \/ ObjNew(s, t, a, e, q, j)
      BY <2>1, SentObjEntries
    <3>2. CASE ObjKept(s, t, a, j)
      BY <3>2 DEF ObjKept, ObjTold, ObjOf
    <3>3. CASE ObjNew(s, t, a, e, q, j)
      BY <2>1, <3>3 DEF ObjNew, ObjOf
    <3>4. QED
      BY <3>1, <3>2, <3>3
  <2>3. QED
    BY <2>2 DEF ObjTold
<1>3. QED
  BY <1>1, <1>2 DEF Goes, Outcome, SendsNone, Tells, SendsNs, SendsBody

\* The body plane's tables with entry e and request q added.
BodyAdds(s, t, a, e, q) ==
    /\ \A p \in t.bodyPend : p \in s.bodyPend \/ p = [id |-> q.id, e |-> e]
    /\ \A p \in s.bodyPend : p.id # q.id
    /\ \A i \in 1..Len(t.bodyTx) : \/ i \in 1..Len(s.bodyTx) /\ t.bodyTx[i] = s.bodyTx[i]
                                   \/ t.bodyTx[i] = q
    /\ \A i \in 1..Len(s.bodyTx) : s.bodyTx[i].id # q.id
    /\ \A r \in a.body : r.id # q.id

\* What was sent to the body plane is told from what was there by its id.
LEMMA SentBodyEntries ==
    ASSUME NEW s, NEW t, NEW a, Tables(s), ById(s, a), NEW e, NEW q, SentBody(s, t, e, q)
    PROVE  BodyAdds(s, t, a, e, q)
<1>1. IsSeq(s.bodyTx) /\ t.bodyTx = Append(s.bodyTx, q)
  BY DEF Tables, SentBody
<1>2. Len(s.bodyTx) \in Nat /\ Len(t.bodyTx) = Len(s.bodyTx) + 1
      /\ (\A i \in 1..Len(s.bodyTx) : t.bodyTx[i] = s.bodyTx[i])
      /\ t.bodyTx[Len(s.bodyTx) + 1] = q
  BY <1>1, SeqAppend, IsSeqLen
<1>3. \A i \in 1..Len(t.bodyTx) : i \in 1..Len(s.bodyTx) \/ i = Len(s.bodyTx) + 1
  BY <1>2
<1>4. \A p \in s.bodyPend : p.id # q.id
  BY DEF SentBody
<1>5. QED
  BY <1>2, <1>3, <1>4 DEF SentBody, ById, BodyAdds

\* The body plane's entries after a handler.
LEMMA GoesBody ==
    ASSUME NEW s, NEW t, NEW a, NEW c, NEW w, NEW d, Tables(s), ById(s, a),
           BodyTold(s, a, w, d), Absent(s, c), Goes(s, t, c, w, d)
    PROVE  BodyTold(t, a, w, d)
<1>1. ASSUME NEW p \in s.bodyPend,
             \A i \in 1..Len(t.bodyTx) :
                t.bodyTx[i].id = p.id => i \in 1..Len(s.bodyTx) /\ t.bodyTx[i] = s.bodyTx[i]
      PROVE  BodyOf(t, a, w, d, p)
  <2>1. p.e.cid # c /\ BodyOf(s, a, w, d, p)
    BY AbsentOther DEF BodyTold
  <2>2. Mine(t, p.e.cid) = Mine(s, p.e.cid)
    BY <2>1, FrameMine DEF Goes
  <2>3. p.e.op \in RawOp => t.raw = s.raw
    BY DEF Goes, RawFrame, NoRaw
  <2>4. p.e.cid # 0 => BodyFits(t, p.e, w, d)
    BY <2>1, <2>2, <2>3 DEF BodyOf, BodyFits
  <2>5. QED
    BY <1>1, <2>1, <2>4 DEF BodyOf
<1>2. CASE SameBody(s, t)
  BY <1>1, <1>2 DEF BodyTold, SameBody
<1>3. CASE SendsBody(s, t, c, w, d)
  <2>1. PICK e, q : /\ SentBody(s, t, e, q) /\ e.cid = c
                    /\ c # 0 => BodyFits(t, e, w, d) /\ BodyAsked(e, q, d)
    BY <1>3 DEF SendsBody
  <2> DEFINE n == [id |-> q.id, e |-> e]
  <2>2. BodyAdds(s, t, a, e, q)
    BY <2>1, SentBodyEntries
  <2>3. n.id = q.id /\ n.e = e
    OBVIOUS
  <2>4. \A p \in t.bodyPend : p \in s.bodyPend \/ p = n
    BY <2>2 DEF BodyAdds
  <2> HIDE DEF n
  <2>5. \A p \in s.bodyPend : BodyOf(t, a, w, d, p)
    BY <1>1, <2>2 DEF BodyAdds
  <2>6. BodyOf(t, a, w, d, n)
    <3>1. \A i \in 1..Len(t.bodyTx) : t.bodyTx[i].id = q.id => t.bodyTx[i] = q
      BY <2>2 DEF BodyAdds
    <3>2. \A r \in a.body : r.id # q.id
      BY <2>2 DEF BodyAdds
    <3>3. QED
      BY <2>1, <2>3, <3>1, <3>2 DEF BodyOf
  <2>7. QED
    BY <2>4, <2>5, <2>6 DEF BodyTold
<1>4. QED
  BY <1>2, <1>3 DEF Goes, Outcome, SendsNone, Tells, SendsNs, SendsObj

\* The raw plane after a handler.
LEMMA GoesRaw ==
    ASSUME NEW s, NEW t, NEW a, NEW c, NEW w, NEW d, Tables(s), Answers(a), InOrderAnswers(s, a),
           RawTold(s, w, d), Goes(s, t, c, w, d)
    PROVE  RawTold(t, w, d)
<1>1. t.raw.stage # "idle" => RawFits(t.raw, w, d)
  BY DEF Goes, RawFrame, RawTold
<1>2. ASSUME NEW j \in 1..Len(s.nsPend), s.nsPend[j].op = "raw" PROVE s.nsPend[j].cid = t.raw.cid
  BY <1>2 DEF Goes, RawFrame, RawTold, NoRaw
<1>3. CASE SameNs(s, t)
  BY <1>1, <1>2, <1>3 DEF SameNs, RawTold
<1>4. CASE SendsNs(s, t, c, w, d)
  <2>1. PICK e, q : SentNs(s, t, e, q) /\ e.cid = c /\ (e.op = "raw" => c = t.raw.cid)
    BY <1>4 DEF SendsNs
  <2>2. \A j \in 1..Len(t.nsPend) : NsKept(s, t, a, j) \/ NsNew(s, t, a, e, q, j)
    BY <2>1, SentNsEntries
  <2>3. QED
    BY <1>1, <1>2, <2>1, <2>2 DEF NsKept, NsNew, RawTold
<1>5. QED
  BY <1>3, <1>4 DEF Goes, Outcome, SendsNone, Tells, SendsBody, SendsObj

\* The answer owed after a handler that found none.
LEMMA GoesOwed ==
    ASSUME NEW s, NEW t, NEW c \in Client \cup {0}, NEW w, NEW d, c # 0 => w[c] # "none",
           s.owed = NoAnswer, Goes(s, t, c, w, d)
    PROVE  OwedTold(t, w, d) /\ (OwedHas(t, c) => Tells(s, t, c, w, d))
           /\ \A b : b # c => ~OwedHas(t, b)
<1>1. CASE Tells(s, t, c, w, d)
  BY <1>1 DEF Tells, Owes, OwedTold, OwedHas
<1>2. CASE t.owed = s.owed
  BY <1>2 DEF OwedTold, OwedHas
<1>3. QED
  BY <1>1, <1>2 DEF Goes, Outcome, SendsNs, SendsBody, SendsObj

\* An entry more under c, where c had none, and the others as they were.
LEMMA GoesHas ==
    ASSUME NEW s, NEW t, NEW a, NEW c, NEW w, NEW d, Tables(s), Answers(a), InOrderAnswers(s, a),
           ById(s, a), Absent(s, c), Goes(s, t, c, w, d)
    PROVE  /\ \A b : b # c => /\ NsHas(t, b) => NsHas(s, b)
                              /\ BodyHas(t, b) => BodyHas(s, b)
                              /\ ObjHas(t, b) => ObjHas(s, b)
           /\ NsHas(t, c) => SendsNs(s, t, c, w, d)
           /\ BodyHas(t, c) => SendsBody(s, t, c, w, d)
           /\ ObjHas(t, c) => SendsObj(s, t, c, w, d)
           /\ \A j, k \in 1..Len(t.nsPend) :
                 t.nsPend[j].cid = t.nsPend[k].cid =>
                    j = k \/ (/\ j \in 1..Len(s.nsPend) /\ k \in 1..Len(s.nsPend)
                              /\ t.nsPend[j] = s.nsPend[j] /\ t.nsPend[k] = s.nsPend[k])
           /\ \A p, q \in t.bodyPend :
                 p.e.cid = q.e.cid => p = q \/ (p \in s.bodyPend /\ q \in s.bodyPend)
           /\ \A j, k \in 1..Len(t.objPend) :
                 t.objPend[j].cid = t.objPend[k].cid =>
                    j = k \/ (/\ j \in 1..Len(s.objPend) /\ k \in 1..Len(s.objPend)
                              /\ t.objPend[j] = s.objPend[j] /\ t.objPend[k] = s.objPend[k])
<1>1. SameNs(s, t) \/ SendsNs(s, t, c, w, d)
  BY DEF Goes, Outcome, SendsNone, Tells, SendsBody, SendsObj
<1>2. SameBody(s, t) \/ SendsBody(s, t, c, w, d)
  BY DEF Goes, Outcome, SendsNone, Tells, SendsNs, SendsObj
<1>3. SameObj(s, t) \/ SendsObj(s, t, c, w, d)
  BY DEF Goes, Outcome, SendsNone, Tells, SendsNs, SendsBody
<1>4. /\ \A j \in 1..Len(s.nsPend) : s.nsPend[j].cid # c
      /\ \A p \in s.bodyPend : p.e.cid # c
      /\ \A j \in 1..Len(s.objPend) : s.objPend[j].cid # c
  BY AbsentOther
<1>5. \/ SameNs(s, t)
      \/ /\ SendsNs(s, t, c, w, d)
         /\ \A j \in 1..Len(t.nsPend) : \/ j \in 1..Len(s.nsPend) /\ t.nsPend[j] = s.nsPend[j]
                                        \/ j = Len(s.nsPend) + 1 /\ t.nsPend[j].cid = c
  <2>1. CASE SendsNs(s, t, c, w, d)
    <3>1. PICK e, q : SentNs(s, t, e, q) /\ e.cid = c
      BY <2>1 DEF SendsNs
    <3>2. \A j \in 1..Len(t.nsPend) : NsKept(s, t, a, j) \/ NsNew(s, t, a, e, q, j)
      BY <3>1, SentNsEntries
    <3>3. QED
      BY <2>1, <3>1, <3>2 DEF NsKept, NsNew
  <2>2. QED
    BY <1>1, <2>1
<1>6. \/ SameObj(s, t)
      \/ /\ SendsObj(s, t, c, w, d)
         /\ \A j \in 1..Len(t.objPend) : \/ j \in 1..Len(s.objPend) /\ t.objPend[j] = s.objPend[j]
                                         \/ j = Len(s.objPend) + 1 /\ t.objPend[j].cid = c
  <2>1. CASE SendsObj(s, t, c, w, d)
    <3>1. PICK e, q : SentObj(s, t, e, q) /\ e.cid = c
      BY <2>1 DEF SendsObj
    <3>2. \A j \in 1..Len(t.objPend) : ObjKept(s, t, a, j) \/ ObjNew(s, t, a, e, q, j)
      BY <3>1, SentObjEntries
    <3>3. QED
      BY <2>1, <3>1, <3>2 DEF ObjKept, ObjNew
  <2>2. QED
    BY <1>3, <2>1
<1>7. \/ SameBody(s, t)
      \/ /\ SendsBody(s, t, c, w, d)
         /\ \E n : n.e.cid = c /\ \A p \in t.bodyPend : p \in s.bodyPend \/ p = n
  <2>1. CASE SendsBody(s, t, c, w, d)
    <3>1. PICK e, q : SentBody(s, t, e, q) /\ e.cid = c
      BY <2>1 DEF SendsBody
    <3> DEFINE n == [id |-> q.id, e |-> e]
    <3>2. \A p \in t.bodyPend : p \in s.bodyPend \/ p = n
      BY <3>1, SentBodyEntries DEF BodyAdds
    <3>3. n.e.cid = c
      BY <3>1
    <3> HIDE DEF n
    <3>4. QED
      BY <2>1, <3>2, <3>3
  <2>2. QED
    BY <1>2, <2>1
<1>8. /\ \A b : b # c => (NsHas(t, b) => NsHas(s, b))
      /\ NsHas(t, c) => SendsNs(s, t, c, w, d)
  BY <1>4, <1>5 DEF NsHas, SameNs
<1>9. /\ \A b : b # c => (BodyHas(t, b) => BodyHas(s, b))
      /\ BodyHas(t, c) => SendsBody(s, t, c, w, d)
  BY <1>4, <1>7 DEF BodyHas, SameBody
<1>10. /\ \A b : b # c => (ObjHas(t, b) => ObjHas(s, b))
       /\ ObjHas(t, c) => SendsObj(s, t, c, w, d)
  BY <1>4, <1>6 DEF ObjHas, SameObj
<1>11. \A j, k \in 1..Len(t.nsPend) :
          t.nsPend[j].cid = t.nsPend[k].cid =>
             j = k \/ (/\ j \in 1..Len(s.nsPend) /\ k \in 1..Len(s.nsPend)
                       /\ t.nsPend[j] = s.nsPend[j] /\ t.nsPend[k] = s.nsPend[k])
  BY <1>4, <1>5 DEF SameNs
<1>12. \A j, k \in 1..Len(t.objPend) :
          t.objPend[j].cid = t.objPend[k].cid =>
             j = k \/ (/\ j \in 1..Len(s.objPend) /\ k \in 1..Len(s.objPend)
                       /\ t.objPend[j] = s.objPend[j] /\ t.objPend[k] = s.objPend[k])
  BY <1>4, <1>6 DEF SameObj
<1>13. \A p, q \in t.bodyPend :
          p.e.cid = q.e.cid => p = q \/ (p \in s.bodyPend /\ q \in s.bodyPend)
  BY <1>4, <1>7 DEF SameBody
<1>14. QED
  BY <1>8, <1>9, <1>10, <1>11, <1>12, <1>13

\* A client has still one request or answer on the way at most.
LEMMA GoesAlone ==
    ASSUME NEW s, NEW t, NEW a, NEW c \in Client \cup {0}, NEW w, NEW d, c # 0 => w[c] # "none",
           Tables(s), Answers(a), InOrderAnswers(s, a), ById(s, a), Alone(s), Absent(s, c),
           s.owed = NoAnswer, Goes(s, t, c, w, d)
    PROVE  Alone(t)
<1>1. ASSUME NEW b, b # c
      PROVE  /\ NsHas(t, b) => NsHas(s, b)
             /\ BodyHas(t, b) => BodyHas(s, b)
             /\ ObjHas(t, b) => ObjHas(s, b)
             /\ ~OwedHas(t, b)
  <2>1. \A x : x # c => ~OwedHas(t, x)
    BY GoesOwed
  <2>2. \A x : x # c => /\ NsHas(t, x) => NsHas(s, x)
                        /\ BodyHas(t, x) => BodyHas(s, x)
                        /\ ObjHas(t, x) => ObjHas(s, x)
    BY GoesHas
  <2>3. QED
    BY <1>1, <2>1, <2>2
<1>2. /\ NsHas(t, c) => SendsNs(s, t, c, w, d)
      /\ BodyHas(t, c) => SendsBody(s, t, c, w, d)
      /\ ObjHas(t, c) => SendsObj(s, t, c, w, d)
      /\ OwedHas(t, c) => Tells(s, t, c, w, d)
  BY GoesHas, GoesOwed
<1>3. /\ SameNs(s, t) => ~NsHas(t, c)
      /\ SameBody(s, t) => ~BodyHas(t, c)
      /\ SameObj(s, t) => ~ObjHas(t, c)
      /\ t.owed = s.owed => ~OwedHas(t, c)
  BY DEF SameNs, SameBody, SameObj, NsHas, BodyHas, ObjHas, OwedHas, Absent
<1>4. ASSUME NEW b \in Client PROVE AloneNs(t, b) /\ AloneBody(t, b) /\ AloneObj(t, b)
  <2>1. \A j, k \in 1..Len(t.nsPend) : t.nsPend[j].cid = b /\ t.nsPend[k].cid = b => j = k
    <3>1. \A j, k \in 1..Len(t.nsPend) :
             t.nsPend[j].cid = t.nsPend[k].cid =>
                j = k \/ (/\ j \in 1..Len(s.nsPend) /\ k \in 1..Len(s.nsPend)
                          /\ t.nsPend[j] = s.nsPend[j] /\ t.nsPend[k] = s.nsPend[k])
      BY GoesHas
    <3>2. QED
      BY <3>1 DEF Alone, AloneNs
  <2>2. \A j, k \in 1..Len(t.objPend) : t.objPend[j].cid = b /\ t.objPend[k].cid = b => j = k
    <3>1. \A j, k \in 1..Len(t.objPend) :
             t.objPend[j].cid = t.objPend[k].cid =>
                j = k \/ (/\ j \in 1..Len(s.objPend) /\ k \in 1..Len(s.objPend)
                          /\ t.objPend[j] = s.objPend[j] /\ t.objPend[k] = s.objPend[k])
      BY GoesHas
    <3>2. QED
      BY <3>1 DEF Alone, AloneObj
  <2>3. \A p, q \in t.bodyPend : p.e.cid = b /\ q.e.cid = b => p = q
    <3>1. \A p, q \in t.bodyPend :
             p.e.cid = q.e.cid => p = q \/ (p \in s.bodyPend /\ q \in s.bodyPend)
      BY GoesHas
    <3>2. QED
      BY <3>1 DEF Alone, AloneBody
  <2>4. /\ NsHas(t, b) => ~BodyHas(t, b) /\ ~ObjHas(t, b) /\ ~OwedHas(t, b)
        /\ BodyHas(t, b) => ~ObjHas(t, b) /\ ~OwedHas(t, b)
        /\ ObjHas(t, b) => ~OwedHas(t, b)
    <3>1. CASE b # c
      BY <1>1, <3>1 DEF Alone, AloneNs, AloneBody, AloneObj
    <3>2. CASE b = c
      <4>1. /\ NsHas(t, c) => SameBody(s, t) /\ SameObj(s, t) /\ t.owed = s.owed
            /\ BodyHas(t, c) => SameNs(s, t) /\ SameObj(s, t) /\ t.owed = s.owed
            /\ ObjHas(t, c) => SameNs(s, t) /\ SameBody(s, t) /\ t.owed = s.owed
        BY <1>2 DEF SendsNs, SendsBody, SendsObj
      <4>2. QED
        BY <1>3, <3>2, <4>1
    <3>3. QED
      BY <3>1, <3>2
  <2>5. QED
    BY <2>1, <2>2, <2>3, <2>4 DEF AloneNs, AloneBody, AloneObj
<1>5. QED
  BY <1>4 DEF Alone

\* What a handler does keeps what is told.
LEMMA GoesTold ==
    ASSUME NEW s, NEW t, NEW n, NEW a, NEW c \in Client \cup {0}, NEW w, NEW d,
           c # 0 => w[c] # "none", Core(s, n, a), Told(s, a, w, d), Absent(s, c),
           s.owed = NoAnswer, Goes(s, t, c, w, d)
    PROVE  Told(t, a, w, d)
<1>1. Tables(s) /\ Answers(a) /\ InOrderAnswers(s, a) /\ ById(s, a)
  BY DEF Core
<1>2. SlotsTold(t, w)
  BY FrameSlots DEF Goes, Told
<1>3. NsTold(t, a, w, d) /\ ObjTold(t, w, d)
  BY <1>1, GoesNs, GoesObj DEF Told
<1>4. BodyTold(t, a, w, d) /\ RawTold(t, w, d)
  BY <1>1, GoesBody, GoesRaw DEF Told
<1>5. OwedTold(t, w, d)
  BY GoesOwed
<1>6. Alone(t)
  BY <1>1, GoesAlone DEF Told
<1>7. QED
  BY <1>2, <1>3, <1>4, <1>5, <1>6 DEF Told

-----------------------------------------------------------------------------
(* Composed operations.                                                      *)

\* Client c waits, and the raw plane works for another or for none.
Waits(s, c, w) ==
    Tables(s) /\ c \in Client /\ w[c] # "none" /\ SlotsFit(s, c, w) /\ NotRaws(s, c)
\* Slot i is the one that works for c.
Works(s, i, c, w) ==
    /\ Waits(s, c, w) /\ Live(s, i) /\ s.put[i].cid = c /\ s.put[i].op = AckOf(w[c])
    /\ \A k \in Mine(s, c) : k = i
\* Slots of c are written and nothing else.
Sets(s, t, c) == Still(s, t) /\ t.owed = s.owed /\ SlotFrame(s, t, c)

\* Clients are numbered from 1.
LEMMA ClientNot0 == ASSUME NEW c \in Client PROVE c # 0
  BY RouterAssumption DEF Client

\* Writing slots and then what a handler does is what a handler does.
LEMMA SetsThen ==
    ASSUME NEW s, NEW t, NEW u, NEW c \in Client, NEW w, NEW d, Sets(s, t, c), Goes(t, u, c, w, d)
    PROVE  Goes(s, u, c, w, d)
<1>1. SameNs(s, t) /\ SameBody(s, t) /\ SameObj(s, t) /\ t.raw = s.raw /\ t.owed = s.owed
  BY DEF Sets, Still
<1>2. SlotFrame(s, u, c)
  BY DEF Sets, Goes, SlotFrame, Yours
<1>3. RawFrame(s, u, w, d)
  BY <1>1 DEF Goes, RawFrame, NoRaw, SameNs, SameBody
<1>4. \A e, q : /\ SentNs(t, u, e, q) => SentNs(s, u, e, q)
                /\ SentBody(t, u, e, q) => SentBody(s, u, e, q)
                /\ SentObj(t, u, e, q) => SentObj(s, u, e, q)
  BY <1>1 DEF SentNs, SentBody, SentObj, SameNs, SameBody, SameObj
<1>5. /\ SameNs(t, u) => SameNs(s, u)
      /\ SameBody(t, u) => SameBody(s, u)
      /\ SameObj(t, u) => SameObj(s, u)
  BY <1>1 DEF SameNs, SameBody, SameObj
<1>6. /\ SendsNs(t, u, c, w, d) => SendsNs(s, u, c, w, d)
      /\ SendsBody(t, u, c, w, d) => SendsBody(s, u, c, w, d)
      /\ SendsObj(t, u, c, w, d) => SendsObj(s, u, c, w, d)
      /\ SendsNone(t, u) => SendsNone(s, u)
  BY <1>1, <1>4, <1>5 DEF SendsNs, SendsBody, SendsObj, SendsNone
<1>7. Outcome(s, u, c, w, d)
  BY <1>1, <1>6 DEF Goes, Outcome, Tells
<1>8. QED
  BY <1>2, <1>3, <1>7, ClientNot0 DEF Goes

\* A slot whose operation and client stay still works for c.
LEMMA KeptWorks ==
    ASSUME NEW s, NEW t, NEW i, NEW c, NEW w, Works(s, i, c, w), Still(s, t), Live(t, i),
           Kept(s, t, i)
    PROVE  Works(t, i, c, w) /\ Sets(s, t, c)
<1>1. PICK p : Slotted(s, t, i, p) /\ p.op = s.put[i].op /\ p.cid = s.put[i].cid
  BY DEF Kept
<1>2. i \in 1..PutFiles /\ s.put[i].op # "free" /\ s.put[i].cid = c
  BY DEF Works, Live, Composed
<1>3. SlotFrame(s, t, c)
  BY <1>1, <1>2 DEF Slotted, SlotFrame, Yours
<1>4. Mine(t, c) = Mine(s, c)
  BY <1>1, <1>2 DEF Slotted, Mine
<1>5. t.put[i].cid = c /\ t.put[i].op = AckOf(w[c])
  BY <1>1 DEF Slotted, Works
<1>6. SlotsFit(t, c, w)
  BY <1>4, <1>5 DEF SlotsFit, Works
<1>7. Waits(t, c, w)
  BY <1>6 DEF Works, Waits, Still, NotRaws
<1>8. QED
  BY <1>1, <1>3, <1>4, <1>5, <1>7 DEF Works, Sets, Slotted

\* An answer owed to c, once its slots are free.
LEMMA ReplyGoes ==
    ASSUME NEW s, NEW c, NEW w, NEW d, Waits(s, c, w), Mine(s, c) = {}, NEW op, op = AckOf(w[c]),
           NEW status, op \in WriteOps => (status = "ok" <=> d[c]), NEW x
    PROVE  Goes(s, Reply(s, c, op, status, x), c, w, d)
<1> DEFINE u == Reply(s, c, op, status, x)
<1>1. Still(s, u) /\ u.put = s.put /\ u.owed = Answer(c, op, status, x)
  BY ReplyStill DEF Waits
<1>2. u.owed.cid = c /\ u.owed.op = op /\ u.owed.status = status
  BY <1>1 DEF Answer
<1> HIDE DEF u
<1>3. Mine(u, c) = {} /\ SlotFrame(s, u, c)
  BY <1>1 DEF Mine, SlotFrame
<1>4. SlotsFit(u, c, w)
  BY <1>3 DEF SlotsFit
<1>5. Owes(u, c, w, d) /\ NotRaws(u, c)
  BY <1>1, <1>2, <1>3 DEF Owes, NotRaws, Waits, Still
<1>6. Tells(s, u, c, w, d)
  BY <1>1, <1>5, ClientNot0 DEF Tells, SendsNone, Still, Waits
<1>7. QED
  BY <1>1, <1>3, <1>4, <1>6, ClientNot0 DEF Goes, Outcome, RawFrame, Still, u, Waits

\* Nothing happens.
LEMMA SameGoes ==
    ASSUME NEW s, NEW c, NEW w, NEW d, Waits(s, c, w)
    PROVE  Goes(s, s, c, w, d)
  BY ClientNot0 DEF Goes, Outcome, SendsNone, SameNs, SameBody, SameObj, RawFrame, SlotFrame, Waits

\* composed_finish answers what was carried out.
LEMMA FinishGoes ==
    ASSUME NEW s, NEW i, NEW c, NEW w, NEW d, Works(s, i, c, w), NEW status, status = "ok" <=> d[c]
    PROVE  Goes(s, ComposedFinish(s, i, status), c, w, d)
<1> DEFINE t == [s EXCEPT !.put[i] = FreeSlot]
           x == IF status = "ok" THEN s.put[i].dig ELSE None
<1>1. i \in 1..PutFiles /\ Tables(s) /\ s.put[i].cid = c /\ s.put[i].op = AckOf(w[c])
  BY DEF Works, Waits, Live
<1>2. GoodSlot(FreeSlot)
  BY DEF GoodSlot, FreeSlot, IsSlot, SlotField
<1>3. Still(s, t) /\ Slotted(s, t, i, FreeSlot)
  BY <1>1, <1>2, SlotStill
<1>4. ComposedFinish(s, i, status) = Reply(t, c, AckOf(w[c]), status, x)
  BY <1>1 DEF ComposedFinish
<1>5. FreeSlot.op = "free"
  BY DEF FreeSlot
<1> HIDE DEF t, x
<1>6. SlotFrame(s, t, c)
  BY <1>1, <1>3, <1>5 DEF Slotted, SlotFrame, Yours
<1>7. Mine(t, c) = {}
  BY <1>1, <1>3, <1>5 DEF Slotted, Mine, Works
<1>8. Waits(t, c, w)
  BY <1>3, <1>7 DEF Works, Waits, Still, NotRaws, SlotsFit
<1>9. Goes(t, Reply(t, c, AckOf(w[c]), status, x), c, w, d)
  BY <1>7, <1>8, ReplyGoes
<1>10. QED
  BY <1>3, <1>4, <1>6, <1>9, SetsThen DEF Sets, Slotted, Works, Waits

\* A composed write that was not carried out yet goes on with a request that its
\* stage names, or ends.
LEMMA ServesNs ==
    ASSUME NEW s, NEW i, NEW c, NEW w, NEW d, Works(s, i, c, w), ~d[c], NEW e, NEW q,
           e.cid = c, e.op = s.put[i].op, e.i = i,
           q.cid = c, q.op = s.put[i].stage, q.op \in {"lookup", "bind", "unbind", "retain"}
    PROVE  Goes(s, OrFinish(ForwardNs(s, e, q), i, "busy"), c, w, d)
<1> DEFINE f == ForwardNs(s, e, q)
<1>1. Tables(s) /\ e.op \in Composed /\ e.op = AckOf(w[c]) /\ c \in Client /\ w[c] # "none"
  BY DEF Works, Waits, Live
<1>2. /\ f.ok \in BOOLEAN
      /\ ~f.ok => f.s = s
      /\ f.ok => /\ SentNs(s, f.s, e, q) /\ SameBody(s, f.s) /\ SameObj(s, f.s)
                 /\ f.s.raw = s.raw /\ f.s.put = s.put /\ f.s.owed = s.owed
  BY <1>1, ForwardsNs
<1>3. OrFinish(f, i, "busy") = IF f.ok THEN f.s ELSE ComposedFinish(f.s, i, "busy")
  BY DEF OrFinish
<1> HIDE DEF f
<1>4. CASE ~f.ok
  BY <1>2, <1>3, <1>4, FinishGoes DEF f
<1>5. CASE f.ok
  <2> DEFINE t == f.s
  <2>1. Fits(e, w) /\ e.op # "raw" /\ e.op \notin {"bind", "commit"}
    BY <1>1 DEF Fits, Composed
  <2>2. NsAsked(t, e, q, d)
    BY <1>2, <1>5, <2>1 DEF NsAsked
  <2>3. SendsNs(s, t, c, w, d)
    BY <1>2, <1>5, <2>1, <2>2 DEF SendsNs
  <2>4. SlotFrame(s, t, c) /\ SlotsFit(t, c, w)
    BY <1>2, <1>5 DEF SlotFrame, SlotsFit, Mine, Works, Waits
  <2>5. Goes(s, t, c, w, d)
    BY <1>1, <1>2, <1>5, <2>3, <2>4, ClientNot0 DEF Goes, Outcome, RawFrame
  <2>6. QED
    BY <1>3, <1>5, <2>5 DEF f
<1>6. QED
  BY <1>2, <1>4, <1>5

\* The same, with a request to the object index.
LEMMA ServesObj ==
    ASSUME NEW s, NEW i, NEW c, NEW w, NEW d, Works(s, i, c, w), ~d[c], NEW e, NEW q,
           e.cid = c, e.op = s.put[i].op
    PROVE  Goes(s, OrFinish(ForwardObj(s, e, q), i, "busy"), c, w, d)
<1> DEFINE f == ForwardObj(s, e, q)
<1>1. Tables(s) /\ e.op = AckOf(w[c]) /\ c \in Client /\ w[c] # "none"
  BY DEF Works, Waits, Live
<1>2. /\ f.ok \in BOOLEAN
      /\ ~f.ok => f.s = s
      /\ f.ok => /\ SentObj(s, f.s, e, q) /\ SameBody(s, f.s) /\ SameNs(s, f.s)
                 /\ f.s.raw = s.raw /\ f.s.put = s.put /\ f.s.owed = s.owed
  BY <1>1, ForwardsObj
<1>3. OrFinish(f, i, "busy") = IF f.ok THEN f.s ELSE ComposedFinish(f.s, i, "busy")
  BY DEF OrFinish
<1> HIDE DEF f
<1>4. CASE ~f.ok
  BY <1>2, <1>3, <1>4, FinishGoes DEF f
<1>5. CASE f.ok
  <2> DEFINE t == f.s
  <2>1. Fits(e, w)
    BY <1>1 DEF Fits
  <2>2. SendsObj(s, t, c, w, d)
    BY <1>2, <1>5, <2>1 DEF SendsObj
  <2>3. SlotFrame(s, t, c) /\ SlotsFit(t, c, w)
    BY <1>2, <1>5 DEF SlotFrame, SlotsFit, Mine, Works, Waits
  <2>4. Goes(s, t, c, w, d)
    BY <1>1, <1>2, <1>5, <2>2, <2>3, ClientNot0 DEF Goes, Outcome, RawFrame
  <2>5. QED
    BY <1>3, <1>5, <2>4 DEF f
<1>6. QED
  BY <1>2, <1>4, <1>5

\* composed_lookup, for a write not carried out.
LEMMA LookupGoes ==
    ASSUME NEW s, NEW i, NEW c, NEW w, NEW d, Works(s, i, c, w), ~d[c]
    PROVE  Goes(s, ComposedLookup(s, i), c, w, d)
<1> DEFINE t == Staged(s, i, "lookup")
           e == SlotEntry(s, i)
           q == [NsReq("lookup", s.put[i].cid) EXCEPT !.key = s.put[i].key]
<1>1. Still(s, t) /\ Live(t, i) /\ Kept(s, t, i) /\ t.put[i].stage = "lookup"
  BY StageStill DEF Staged, Works, Waits
<1>2. q.op = "lookup" /\ q.cid = c
  BY DEF NsReq, Works
<1>3. e.cid = c /\ e.op = s.put[i].op /\ e.i = i
  BY DEF SlotEntry, Entry, Works
<1>4. ComposedLookup(s, i) = OrFinish(ForwardNs(t, e, q), i, "busy")
  BY DEF ComposedLookup
<1> HIDE DEF t, e, q
<1>5. Works(t, i, c, w) /\ Sets(s, t, c)
  BY <1>1, KeptWorks
<1>6. t.put[i].op = s.put[i].op
  BY <1>5 DEF Works
<1>7. Goes(t, OrFinish(ForwardNs(t, e, q), i, "busy"), c, w, d)
  BY <1>1, <1>2, <1>3, <1>5, <1>6, ServesNs
<1>8. QED
  BY <1>4, <1>5, <1>7, SetsThen DEF Works, Waits

\* composed_bind, composed_unbind and composed_retain, likewise.
LEMMA WriteGoes ==
    ASSUME NEW s, NEW i, NEW c, NEW w, NEW d, Works(s, i, c, w), ~d[c],
           NEW op \in {"bind", "unbind", "retain"}
    PROVE  Goes(s, ComposedWrite(s, i, op), c, w, d)
<1> DEFINE t == Staged(s, i, op)
           e == SlotEntry(s, i)
           p == s.put[i]
           q == [NsReq(op, p.cid) EXCEPT !.key = p.key, !.dig = p.dig, !.cond = TRUE,
                                         !.rev = p.rev + 1, !.held = p.held]
<1>1. Still(s, t) /\ Live(t, i) /\ Kept(s, t, i) /\ t.put[i].stage = op
  BY StageStill DEF Staged, Works, Waits
<1>2. q.op = op /\ q.cid = c
  BY DEF NsReq, Works
<1>3. e.cid = c /\ e.op = s.put[i].op /\ e.i = i
  BY DEF SlotEntry, Entry, Works
<1>4. ComposedWrite(s, i, op) = OrFinish(ForwardNs(t, e, q), i, "busy")
  BY DEF ComposedWrite
<1> HIDE DEF t, e, q
<1>5. Works(t, i, c, w) /\ Sets(s, t, c)
  BY <1>1, KeptWorks
<1>6. t.put[i].op = s.put[i].op
  BY <1>5 DEF Works
<1>7. Goes(t, OrFinish(ForwardNs(t, e, q), i, "busy"), c, w, d)
  BY <1>1, <1>2, <1>3, <1>5, <1>6, ServesNs
<1>8. QED
  BY <1>4, <1>5, <1>7, SetsThen DEF Works, Waits

\* The descriptor stage, likewise.
LEMMA ObjectGoes ==
    ASSUME NEW s, NEW i, NEW c, NEW w, NEW d, Works(s, i, c, w), ~d[c]
    PROVE  Goes(s, ObjectStage(s, i), c, w, d)
<1> DEFINE t == Staged(s, i, "object")
           e == SlotEntry(s, i)
           q == ObjReq("put", s.put[i].dig)
<1>1. Still(s, t) /\ Live(t, i) /\ Kept(s, t, i)
  BY StageStill DEF Staged, Works, Waits
<1>2. e.cid = c /\ e.op = s.put[i].op
  BY DEF SlotEntry, Entry, Works
<1>3. ObjectStage(s, i) = OrFinish(ForwardObj(t, e, q), i, "busy")
  BY DEF ObjectStage
<1> HIDE DEF t, e, q
<1>4. Works(t, i, c, w) /\ Sets(s, t, c)
  BY <1>1, KeptWorks
<1>5. t.put[i].op = s.put[i].op
  BY <1>4 DEF Works
<1>6. Goes(t, OrFinish(ForwardObj(t, e, q), i, "busy"), c, w, d)
  BY <1>2, <1>4, <1>5, ServesObj
<1>7. QED
  BY <1>3, <1>4, <1>6, SetsThen DEF Works, Waits

\* A composed write decided against the binding it read: refused, or made.
LEMMA DecideGoes ==
    ASSUME NEW s, NEW i, NEW c, NEW w, NEW d, Works(s, i, c, w), ~d[c], NEW a
    PROVE  Goes(s, ComposedDecide(s, i, a), c, w, d)
<1> DEFINE t == [s EXCEPT !.put[i].rev = a.rev]
<1>1. /\ Goes(s, ComposedFinish(s, i, "exists"), c, w, d)
      /\ Goes(s, ComposedFinish(s, i, "conflict"), c, w, d)
      /\ Goes(s, ComposedFinish(s, i, "not_found"), c, w, d)
  BY FinishGoes
<1>2. Still(s, t) /\ Live(t, i) /\ Kept(s, t, i)
  BY RevStill DEF Works, Waits
<1>3. s.put[i].op \in {"put_file", "delete_file", "retain"}
  BY DEF Works, Live, Composed
<1> HIDE DEF t
<1>4. Works(t, i, c, w) /\ Sets(s, t, c)
  BY <1>2, KeptWorks
<1>5. Goes(t, ComposedRetain(t, i), c, w, d) /\ Goes(t, ComposedUnbind(t, i), c, w, d)
      /\ Goes(t, ComposedBind(t, i), c, w, d) /\ Goes(t, ObjectStage(t, i), c, w, d)
  BY <1>4, WriteGoes, ObjectGoes DEF ComposedRetain, ComposedUnbind, ComposedBind
<1>6. Goes(s, ComposedRetain(t, i), c, w, d) /\ Goes(s, ComposedUnbind(t, i), c, w, d)
      /\ Goes(s, ComposedBind(t, i), c, w, d) /\ Goes(s, ObjectStage(t, i), c, w, d)
  BY <1>4, <1>5, SetsThen DEF Works, Waits
<1>7. QED
  BY <1>1, <1>3, <1>6 DEF ComposedDecide, t

\* The slot an answer finds works for its client.
LEMMA HeldWorks ==
    ASSUME NEW s, NEW e, NEW w, Waits(s, e.cid, w), e.i \in 1..PutFiles, HoldsSlot(s, e)
    PROVE  Works(s, e.i, e.cid, w)
<1>1. e.i \in Mine(s, e.cid) /\ Live(s, e.i)
  BY HeldLive DEF Waits, HoldsSlot, Mine
<1>2. QED
  BY <1>1 DEF Works, Waits, SlotsFit, HoldsSlot

\* The namespace's answer to a composed write: decided, tried again, or told.
LEMMA NsAnswerGoes ==
    ASSUME NEW s, NEW e, NEW w, NEW d, Waits(s, e.cid, w), e.i \in 1..PutFiles,
           e.op \in Composed, NEW a, NsSaid(s, e, a, d)
    PROVE  Goes(s, ComposedNsAnswer(s, e, a), e.cid, w, d)
<1> DEFINE i == e.i
           t == [s EXCEPT !.put[i].attempts = @ + 1]
<1>1. CASE ~HoldsSlot(s, e)
  BY <1>1, SameGoes DEF ComposedNsAnswer
<1>2. CASE HoldsSlot(s, e)
  <2>1. Works(s, i, e.cid, w)
    BY <1>2, HeldWorks
  <2>2. CASE s.put[i].stage = "lookup"
    <3>1. ~d[e.cid]
      BY <1>2, <2>2 DEF NsSaid
    <3>2. Goes(s, ComposedDecide(s, i, a), e.cid, w, d)
      BY <2>1, <3>1, DecideGoes
    <3>3. QED
      BY <1>2, <2>2, <3>2 DEF ComposedNsAnswer
  <2>3. CASE s.put[i].stage # "lookup"
    <3>1. d[e.cid] <=> a.v = "ok"
      BY <1>2, <2>3 DEF NsSaid
    <3>2. NsWriteStatus(a.v) = "ok" <=> a.v = "ok"
      BY DEF NsWriteStatus
    <3>3. Goes(s, ComposedFinish(s, i, NsWriteStatus(a.v)), e.cid, w, d)
      BY <2>1, <3>1, <3>2, FinishGoes
    <3>4. Still(s, t) /\ Live(t, i) /\ Kept(s, t, i)
      BY <2>1, AttemptsStill DEF Works, Waits
    <3> HIDE DEF t
    <3>5. Works(t, i, e.cid, w) /\ Sets(s, t, e.cid)
      BY <2>1, <3>4, KeptWorks
    <3>6. a.v \in {"stale", "condition"} =>
             /\ Goes(t, ComposedFinish(t, i, "busy"), e.cid, w, d)
             /\ Goes(t, ComposedLookup(t, i), e.cid, w, d)
      BY <3>1, <3>5, FinishGoes, LookupGoes
    <3>7. a.v \in {"stale", "condition"} =>
             /\ Goes(s, ComposedFinish(t, i, "busy"), e.cid, w, d)
             /\ Goes(s, ComposedLookup(t, i), e.cid, w, d)
      BY <3>5, <3>6, SetsThen DEF Waits
    <3>8. QED
      BY <1>2, <2>3, <3>3, <3>7 DEF ComposedNsAnswer, t
  <2>4. QED
    BY <2>2, <2>3
<1>3. QED
  BY <1>1, <1>2

\* The index's answer to a put: refused, or on to the bind.
LEMMA ObjectAnswerGoes ==
    ASSUME NEW s, NEW e, NEW w, NEW d, Waits(s, e.cid, w), e.i \in 1..PutFiles, ~d[e.cid], NEW a
    PROVE  Goes(s, PutFileObjectAnswer(s, e, a), e.cid, w, d)
<1> DEFINE t == [s EXCEPT !.put[e.i].described = TRUE]
<1>1. CASE ~HoldsSlot(s, e)
  BY <1>1, SameGoes DEF PutFileObjectAnswer
<1>2. CASE HoldsSlot(s, e)
  <2>1. Works(s, e.i, e.cid, w)
    BY <1>2, HeldWorks
  <2>2. /\ Goes(s, ComposedFinish(s, e.i, "quota"), e.cid, w, d)
        /\ Goes(s, ComposedFinish(s, e.i, "nak"), e.cid, w, d)
    BY <2>1, FinishGoes
  <2>3. Still(s, t) /\ Live(t, e.i) /\ Kept(s, t, e.i)
    BY <2>1, DescribedStill DEF Works, Waits
  <2> HIDE DEF t
  <2>4. Works(t, e.i, e.cid, w) /\ Sets(s, t, e.cid)
    BY <2>1, <2>3, KeptWorks
  <2>5. Goes(t, ComposedBind(t, e.i), e.cid, w, d)
    BY <2>4, WriteGoes DEF ComposedBind
  <2>6. Goes(s, ComposedBind(t, e.i), e.cid, w, d)
    BY <2>4, <2>5, SetsThen DEF Waits
  <2>7. QED
    BY <1>2, <2>2, <2>6 DEF PutFileObjectAnswer, t
<1>3. QED
  BY <1>1, <1>2

\* The body plane's answer to a put: refused, or on to the lookup.
LEMMA BodyAnswerGoes ==
    ASSUME NEW s, NEW e, NEW w, NEW d, Waits(s, e.cid, w), e.i \in 1..PutFiles, ~d[e.cid], NEW a
    PROVE  Goes(s, PutFileBodyAnswer(s, e, a), e.cid, w, d)
<1> DEFINE t == [s EXCEPT !.put[e.i].dig = a.dig]
<1>1. CASE ~HoldsSlot(s, e)
  BY <1>1, SameGoes DEF PutFileBodyAnswer
<1>2. CASE HoldsSlot(s, e)
  <2>1. Works(s, e.i, e.cid, w)
    BY <1>2, HeldWorks
  <2>2. Goes(s, ComposedFinish(s, e.i, "nak"), e.cid, w, d)
    BY <2>1, FinishGoes
  <2>3. Still(s, t) /\ Live(t, e.i) /\ Kept(s, t, e.i)
    BY <2>1, DigStill DEF Works, Waits
  <2> HIDE DEF t
  <2>4. Works(t, e.i, e.cid, w) /\ Sets(s, t, e.cid)
    BY <2>1, <2>3, KeptWorks
  <2>5. Goes(t, ComposedLookup(t, e.i), e.cid, w, d)
    BY <2>4, LookupGoes
  <2>6. Goes(s, ComposedLookup(t, e.i), e.cid, w, d)
    BY <2>4, <2>5, SetsThen DEF Waits
  <2>7. QED
    BY <1>2, <2>2, <2>6 DEF PutFileBodyAnswer, t
<1>3. QED
  BY <1>1, <1>2

-----------------------------------------------------------------------------
(* Requests to the body plane, and streamed writes.                          *)

\* A client whose operation is not composed holds no slot.
LEMMA NoSlots ==
    ASSUME NEW s, NEW c, NEW w, Waits(s, c, w), AckOf(w[c]) \notin Composed
    PROVE  Mine(s, c) = {}
  BY DEF Waits, SlotsFit, Mine, Tables, Puts

\* A client's request to the body plane, which writes nothing.
LEMMA BodySentGoes ==
    ASSUME NEW s, NEW c, NEW w, NEW d, Waits(s, c, w), NEW e, e.cid = c, BodyFits(s, e, w, d),
           e.op \notin RawOp, NEW q, "id" \in DOMAIN q, q = [x \in DOMAIN q |-> q[x]],
           "cid" \in DOMAIN q, "op" \in DOMAIN q, q.cid = c, q.op \notin Writes
    PROVE  LET f == ForwardBody(s, e, q)
           IN  (f.ok => Goes(s, f.s, c, w, d)) /\ (~f.ok => f.s = s)
<1> DEFINE f == ForwardBody(s, e, q)
           r == [q EXCEPT !.id = FreshId(s)]
<1>1. /\ ~f.ok => f.s = s
      /\ f.ok => /\ Tables(f.s) /\ SentBody(s, f.s, e, r)
                 /\ SameNs(s, f.s) /\ SameObj(s, f.s) /\ f.s.raw = s.raw
                 /\ f.s.put = s.put /\ f.s.owed = s.owed
  BY ForwardsBody DEF Waits
<1>2. r.cid = c /\ r.op \notin Writes
  OBVIOUS
<1> HIDE DEF f, r
<1>3. ASSUME f.ok PROVE Goes(s, f.s, c, w, d)
  <2> DEFINE t == f.s
  <2>1. BodyFits(t, e, w, d)
    BY <1>1, <1>3 DEF BodyFits, Mine
  <2>2. BodyAsked(e, r, d)
    BY <1>2 DEF BodyAsked
  <2>3. SendsBody(s, t, c, w, d)
    BY <1>1, <1>3, <2>1, <2>2 DEF SendsBody
  <2>4. SlotFrame(s, t, c) /\ SlotsFit(t, c, w)
    BY <1>1, <1>3 DEF SlotFrame, SlotsFit, Mine, Waits
  <2>5. QED
    BY <1>1, <1>3, <2>3, <2>4, ClientNot0 DEF Goes, Outcome, RawFrame, Waits
<1>4. QED
  BY <1>1, <1>3 DEF f

\* The same, of the requests the router makes.
LEMMA BodyReqGoes ==
    ASSUME NEW s, NEW c, NEW w, NEW d, Waits(s, c, w), NEW e, e.cid = c, BodyFits(s, e, w, d),
           e.op \notin RawOp, NEW op, op \notin Writes, NEW g, NEW x
    PROVE  /\ LET f == ForwardBody(s, e, BodyReq(op, c, g))
              IN  (f.ok => Goes(s, f.s, c, w, d)) /\ (~f.ok => f.s = s)
           /\ LET f == ForwardBody(s, e, [BodyReq(op, c, g) EXCEPT !.wid = x])
              IN  (f.ok => Goes(s, f.s, c, w, d)) /\ (~f.ok => f.s = s)
<1> DEFINE q == BodyReq(op, c, g)
           v == [BodyReq(op, c, g) EXCEPT !.wid = x]
<1>1. /\ "id" \in DOMAIN q /\ q = [y \in DOMAIN q |-> q[y]] /\ "cid" \in DOMAIN q
      /\ "op" \in DOMAIN q /\ q.cid = c /\ q.op = op
  BY DEF BodyReq
<1>2. /\ "id" \in DOMAIN v /\ v = [y \in DOMAIN v |-> v[y]] /\ "cid" \in DOMAIN v
      /\ "op" \in DOMAIN v /\ v.cid = c /\ v.op = op
  BY DEF BodyReq
<1> HIDE DEF q, v
<1>3. LET f == ForwardBody(s, e, q) IN (f.ok => Goes(s, f.s, c, w, d)) /\ (~f.ok => f.s = s)
  BY <1>1, BodySentGoes
<1>4. LET f == ForwardBody(s, e, v) IN (f.ok => Goes(s, f.s, c, w, d)) /\ (~f.ok => f.s = s)
  BY <1>2, BodySentGoes
<1>5. QED
  BY <1>3, <1>4 DEF q, v

\* The least free slot is free.
LEMMA FreePutFree ==
    ASSUME NEW s, FreePuts(s) # {}
    PROVE  Least(FreePuts(s)) \in 1..PutFiles /\ s.put[Least(FreePuts(s))].op = "free"
<1>1. FreePuts(s) \subseteq Nat
  BY RouterAssumption DEF FreePuts
<1>2. QED
  BY <1>1, LeastNat DEF FreePuts

\* A free slot is taken for the operation its client asks.
LEMMA TakenWorks ==
    ASSUME NEW s, NEW c, NEW w, Waits(s, c, w), Mine(s, c) = {}, NEW i \in 1..PutFiles,
           s.put[i].op = "free", NEW p, IsSlot(p), p.op = AckOf(w[c]), p.op \in Composed, p.cid = c
    PROVE  LET t == [s EXCEPT !.put[i] = p] IN Works(t, i, c, w) /\ Sets(s, t, c)
<1> DEFINE t == [s EXCEPT !.put[i] = p]
<1>1. c # 0
  BY ClientNot0 DEF Waits
<1>2. Still(s, t) /\ Slotted(s, t, i, p)
  BY <1>1, SlotStill DEF GoodSlot, Waits
<1> HIDE DEF t
<1>3. t.put[i] = p /\ \A j \in 1..PutFiles : j # i => t.put[j] = s.put[j]
  BY <1>2 DEF Slotted
<1>4. SlotFrame(s, t, c)
  BY <1>3 DEF SlotFrame, Yours
<1>5. Mine(t, c) = {i}
  BY <1>3 DEF Mine, Composed
<1>6. SlotsFit(t, c, w)
  BY <1>3, <1>5 DEF SlotsFit
<1>7. Waits(t, c, w)
  BY <1>2, <1>6 DEF Waits, Still, NotRaws
<1>8. Live(t, i)
  BY <1>1, <1>3 DEF Live
<1>9. QED
  BY <1>2, <1>3, <1>4, <1>5, <1>7, <1>8 DEF Works, Sets, Slotted, t

\* What slot_for a request holds.
LEMMA SlotHolds ==
    ASSUME NEW c, NEW q, NEW stage
    PROVE  IsSlot(Slot(c, q, stage)) /\ Slot(c, q, stage).op = q.op /\ Slot(c, q, stage).cid = c
  BY DEF Slot, FreeSlot, IsSlot, SlotField

\* A request refused, or an answer of no write, to a client that holds no slot.
LEMMA RefuseGoes ==
    ASSUME NEW s, NEW c, NEW w, NEW d, Waits(s, c, w), Mine(s, c) = {}, NEW op, op = AckOf(w[c]),
           ~d[c]
    PROVE  \A status, x : status # "ok" \/ op \notin WriteOps =>
              Goes(s, Reply(s, c, op, status, x), c, w, d)
  BY ReplyGoes

\* PUT_FILE, DELETE_FILE and RETAIN.
LEMMA PutFileGoes ==
    ASSUME NEW s, NEW c, NEW w, NEW d, Waits(s, c, w), Mine(s, c) = {}, ~d[c], NEW q,
           q.op \in Composed, w[c] = q.op
    PROVE  /\ q.op = "put_file" => Goes(s, HandlePutFile(s, c, q), c, w, d)
           /\ Goes(s, HandleDeleteFile(s, c, q), c, w, d)
           /\ Goes(s, HandleRetain(s, c, q), c, w, d)
<1> DEFINE i == Least(FreePuts(s))
<1>0. AckOf(w[c]) = q.op /\ c \in Client
  BY DEF AckOf, Composed, Waits
<1>1. \A status : status # "ok" => Goes(s, Reply(s, c, q.op, status, None), c, w, d)
  BY <1>0, RefuseGoes
<1>2. ASSUME FreePuts(s) # {}
      PROVE  Goes(s, ComposedLookup([s EXCEPT !.put[i] = Slot(c, q, "lookup")], i), c, w, d)
  <2> DEFINE p == Slot(c, q, "lookup")
             t == [s EXCEPT !.put[i] = p]
  <2>1. i \in 1..PutFiles /\ s.put[i].op = "free"
    BY <1>2, FreePutFree
  <2>2. IsSlot(p) /\ p.op = q.op /\ p.cid = c
    BY SlotHolds
  <2> HIDE DEF i, p
  <2>3. Works(t, i, c, w) /\ Sets(s, t, c)
    BY <1>0, <2>1, <2>2, TakenWorks
  <2> HIDE DEF t
  <2>4. Goes(t, ComposedLookup(t, i), c, w, d)
    BY <2>3, LookupGoes
  <2>5. Goes(s, ComposedLookup(t, i), c, w, d)
    BY <1>0, <2>3, <2>4, SetsThen
  <2>6. QED
    BY <2>5 DEF t, p
<1>3. ASSUME FreePuts(s) # {}, q.op = "put_file"
      PROVE  LET f == ForwardBody([s EXCEPT !.put[i] = Slot(c, q, "body")],
                                  Entry(c, "put_file", i, None), BodyReq("put", c, q.dig))
             IN  f.ok => Goes(s, f.s, c, w, d)
  <2> DEFINE p == Slot(c, q, "body")
             t == [s EXCEPT !.put[i] = p]
             e == Entry(c, "put_file", i, None)
             f == ForwardBody(t, e, BodyReq("put", c, q.dig))
  <2>1. i \in 1..PutFiles /\ s.put[i].op = "free"
    BY <1>3, FreePutFree
  <2>2. IsSlot(p) /\ p.op = q.op /\ p.cid = c
    BY SlotHolds
  <2>3. e.cid = c /\ e.op = "put_file"
    BY DEF Entry
  <2> HIDE DEF i, p
  <2>4. Works(t, i, c, w) /\ Sets(s, t, c)
    BY <1>0, <2>1, <2>2, TakenWorks
  <2> HIDE DEF t, e
  <2>5. Waits(t, c, w)
    BY <2>4 DEF Works
  <2>6. BodyFits(t, e, w, d) /\ e.op \notin RawOp
    BY <1>0, <1>3, <2>3, <2>5 DEF BodyFits, Fits, Waits, RawOp
  <2>7. f.ok => Goes(t, f.s, c, w, d)
    BY <2>3, <2>5, <2>6, BodyReqGoes DEF Writes
  <2> HIDE DEF f
  <2>8. f.ok => Goes(s, f.s, c, w, d)
    BY <1>0, <2>4, <2>7, SetsThen
  <2>9. QED
    BY <2>8 DEF t, p, e, f
<1> HIDE DEF i
<1>4. q.op = "put_file" => Goes(s, HandlePutFile(s, c, q), c, w, d)
  BY <1>1, <1>3 DEF HandlePutFile, i
<1>5. Goes(s, HandleDeleteFile(s, c, q), c, w, d)
  BY <1>1, <1>2 DEF HandleDeleteFile, i
<1>6. Goes(s, HandleRetain(s, c, q), c, w, d)
  BY <1>1, <1>2 DEF HandleRetain, i
<1>7. QED
  BY <1>4, <1>5, <1>6

\* What a handler does and then a change that no client's answer hangs on.
LEMMA GoesStill ==
    ASSUME NEW s, NEW t, NEW u, NEW c, NEW w, NEW d, Goes(s, t, c, w, d), Still(t, u),
           u.put = t.put, u.owed = t.owed
    PROVE  Goes(s, u, c, w, d)
<1>1. SameNs(t, u) /\ SameBody(t, u) /\ SameObj(t, u) /\ u.raw = t.raw
  BY DEF Still
<1>2. SlotFrame(s, u, c) /\ SlotsFit(u, c, w) /\ (c = 0 => u.put = s.put)
  BY DEF Goes, SlotFrame, Yours, SlotsFit, Mine
<1>3. RawFrame(s, u, w, d)
  BY <1>1 DEF Goes, RawFrame
<1>4. \A e, q : /\ SentNs(s, t, e, q) => SentNs(s, u, e, q)
                /\ SentBody(s, t, e, q) => SentBody(s, u, e, q)
                /\ SentObj(s, t, e, q) => SentObj(s, u, e, q)
                /\ NsAsked(t, e, q, d) => NsAsked(u, e, q, d)
                /\ BodyFits(t, e, w, d) => BodyFits(u, e, w, d)
  BY <1>1 DEF SentNs, SentBody, SentObj, SameNs, SameBody, SameObj, NsAsked, HoldsSlot, BodyFits, Mine
<1>5. /\ SameNs(s, t) => SameNs(s, u)
      /\ SameBody(s, t) => SameBody(s, u)
      /\ SameObj(s, t) => SameObj(s, u)
  BY <1>1 DEF SameNs, SameBody, SameObj
<1>6. /\ SendsNs(s, t, c, w, d) => SendsNs(s, u, c, w, d)
      /\ SendsBody(s, t, c, w, d) => SendsBody(s, u, c, w, d)
      /\ SendsObj(s, t, c, w, d) => SendsObj(s, u, c, w, d)
      /\ SendsNone(s, t) => SendsNone(s, u)
  BY <1>1, <1>4, <1>5 DEF SendsNs, SendsBody, SendsObj, SendsNone
<1>7. Tells(s, t, c, w, d) => Tells(s, u, c, w, d)
  BY <1>1, <1>6 DEF Tells, Owes, Mine, NotRaws
<1>8. QED
  BY <1>2, <1>3, <1>6, <1>7 DEF Goes, Outcome

\* What writes only the streams' table is nothing to the waiting clients.
LEMMA StreamSets ==
    ASSUME NEW s, NEW t, NEW c, NEW w, Waits(s, c, w), Still(s, t), t.put = s.put, t.owed = s.owed
    PROVE  Sets(s, t, c) /\ Waits(t, c, w) /\ Mine(t, c) = Mine(s, c)
  BY DEF Sets, SlotFrame, Waits, Still, SlotsFit, Mine, NotRaws

\* An answer owed before or after a stream's slot is freed.
LEMMA FreeSpfReplyGoes ==
    ASSUME NEW s, NEW c, NEW w, NEW d, Waits(s, c, w), Mine(s, c) = {}, NEW op, op = AckOf(w[c]),
           NEW status, op \in WriteOps => (status = "ok" <=> d[c]), NEW x, NEW i
    PROVE  /\ Goes(s, Reply(FreeSpf(s, i), c, op, status, x), c, w, d)
           /\ Goes(s, FreeSpf(Reply(s, c, op, status, x), i), c, w, d)
<1> DEFINE t == FreeSpf(s, i)
           u == Reply(t, c, op, status, x)
           v == Reply(s, c, op, status, x)
           y == FreeSpf(v, i)
<1>1. Still(s, t) /\ t.put = s.put /\ t.owed = s.owed
  BY FreeSpfStill DEF Waits
<1>2. Tables(v) /\ Goes(s, v, c, w, d)
  BY ReplyStill, ReplyGoes DEF Still, Waits
<1> HIDE DEF t, v
<1>3. Still(v, y) /\ y.put = v.put /\ y.owed = v.owed
  BY <1>2, FreeSpfStill
<1> HIDE DEF y
<1>4. Waits(t, c, w) /\ Mine(t, c) = {} /\ Sets(s, t, c)
  BY <1>1, StreamSets
<1>5. Goes(t, u, c, w, d)
  BY <1>4, ReplyGoes
<1> HIDE DEF u
<1>6. Goes(s, u, c, w, d)
  BY <1>4, <1>5, SetsThen DEF Waits
<1>7. Goes(s, y, c, w, d)
  BY <1>2, <1>3, GoesStill
<1>8. QED
  BY <1>6, <1>7 DEF t, u, v, y

\* PUT_FILE_OPEN.
LEMMA OpenGoes ==
    ASSUME NEW s, NEW c, NEW w, NEW d, Waits(s, c, w), Mine(s, c) = {}, ~d[c], NEW q,
           q.op = "put_open", w[c] = q.op
    PROVE  Goes(s, HandlePutFileOpen(s, c, q), c, w, d)
<1> DEFINE i == Least(FreeSpfs(s))
           x == [open |-> TRUE, wid |-> None, key |-> q.key, dig |-> q.dig, mode |-> q.mode,
                 expect |-> q.expect, held |-> q.held]
           t == [s EXCEPT !.spf[i] = x]
           e == Entry(c, q.op, i, None)
           f == ForwardBody(t, e, BodyReq("wopen", c, q.dig))
<1>0. AckOf(w[c]) = q.op /\ c \in Client
  BY DEF AckOf, Waits
<1>1. Goes(s, Reply(s, c, q.op, "busy", None), c, w, d)
  BY <1>0, RefuseGoes
<1>1a. Goes(s, Reply(FreeSpf(s, i), c, q.op, "busy", None), c, w, d)
  <2> HIDE DEF i
  <2>1. QED
    BY <1>0, FreeSpfReplyGoes
<1>2. Still(s, t) /\ t.put = s.put /\ t.owed = s.owed
  <2> HIDE DEF x, i
  <2>1. QED
    BY StreamStill DEF Waits
<1>3. e.cid = c /\ e.op = "put_open"
  BY DEF Entry
<1> HIDE DEF t, e, i
<1>4. Sets(s, t, c) /\ Waits(t, c, w)
  BY <1>2, StreamSets
<1>5. BodyFits(t, e, w, d) /\ e.op \notin RawOp
  BY <1>0, <1>3, <1>4 DEF BodyFits, Fits, Waits, RawOp
<1>6. f.ok => Goes(t, f.s, c, w, d)
  BY <1>3, <1>4, <1>5, BodyReqGoes DEF Writes
<1> HIDE DEF f
<1>7. f.ok => Goes(s, f.s, c, w, d)
  BY <1>0, <1>4, <1>6, SetsThen
<1>8. HandlePutFileOpen(s, c, q) =
         IF FreeSpfs(s) = {} THEN Reply(s, c, q.op, "busy", None)
         ELSE IF f.ok THEN f.s ELSE Reply(FreeSpf(s, i), c, q.op, "busy", None)
  BY DEF HandlePutFileOpen, f, t, e, i
<1>9. QED
  BY <1>1, <1>1a, <1>7, <1>8

\* PUT_FILE_CHUNK and PUT_FILE_COMMIT.
LEMMA ChunkGoes ==
    ASSUME NEW s, NEW c, NEW w, NEW d, Waits(s, c, w), Mine(s, c) = {}, ~d[c], NEW q,
           q.op \in {"put_chunk", "put_commit"}, w[c] = q.op, NEW i
    PROVE  /\ q.op = "put_chunk" => Goes(s, HandlePutFileChunk(s, c, q, i), c, w, d)
           /\ q.op = "put_commit" => Goes(s, HandlePutFileCommit(s, c, q, i), c, w, d)
<1> DEFINE e == Entry(c, q.op, i, None)
           v == s.spf[i].wid
           f == ForwardBody(s, e, [BodyReq("wappend", c, None) EXCEPT !.wid = v])
           g == ForwardBody(s, e, [BodyReq("wcommit", c, None) EXCEPT !.wid = v])
<1>1. AckOf(w[c]) = IF q.op = "put_commit" THEN "put_file" ELSE q.op
  BY DEF AckOf
<1>2. q.op = "put_chunk" => Goes(s, Reply(s, c, q.op, "nak", None), c, w, d)
  BY <1>1, RefuseGoes
<1>3. q.op = "put_commit" => /\ Goes(s, Reply(s, c, "put_file", "nak", None), c, w, d)
                             /\ Goes(s, Reply(FreeSpf(s, i), c, "put_file", "nak", None), c, w, d)
  BY <1>1, RefuseGoes, FreeSpfReplyGoes
<1>4. e.cid = c /\ e.op = q.op
  BY DEF Entry
<1> HIDE DEF e, v
<1>5. BodyFits(s, e, w, d) /\ e.op \notin RawOp
  BY <1>4 DEF BodyFits, Fits, Waits, RawOp
<1>6. f.ok => Goes(s, f.s, c, w, d)
  BY <1>4, <1>5, BodyReqGoes DEF Writes
<1>7. g.ok => Goes(s, g.s, c, w, d)
  BY <1>4, <1>5, BodyReqGoes DEF Writes
<1> HIDE DEF f, g
<1>8. HandlePutFileChunk(s, c, q, i) =
         IF s.spf[i].wid # None /\ f.ok THEN f.s ELSE Reply(s, c, q.op, "nak", None)
  BY DEF HandlePutFileChunk, f, e, v
<1>9. HandlePutFileCommit(s, c, q, i) =
         CASE s.spf[i].wid = None -> Reply(s, c, "put_file", "nak", None)
           [] s.spf[i].wid # None /\ ~g.ok -> Reply(FreeSpf(s, i), c, "put_file", "nak", None)
           [] OTHER -> g.s
  BY DEF HandlePutFileCommit, g, e, v
<1>10. QED
  BY <1>2, <1>3, <1>6, <1>7, <1>8, <1>9

\* The body plane's answers to an OPEN and a CHUNK.
LEMMA SpfAnswerGoes ==
    ASSUME NEW s, NEW e, NEW w, NEW d, Waits(s, e.cid, w), Mine(s, e.cid) = {},
           e.op = AckOf(w[e.cid]), e.op \notin WriteOps, NEW a
    PROVE  /\ Goes(s, SpfOpenAnswer(s, e, a), e.cid, w, d)
           /\ Goes(s, SpfChunkAnswer(s, e, a), e.cid, w, d)
<1>1. \A st, y : /\ Goes(s, Reply(s, e.cid, e.op, st, y), e.cid, w, d)
                 /\ Goes(s, Reply(FreeSpf(s, e.i), e.cid, e.op, st, y), e.cid, w, d)
                 /\ Goes(s, FreeSpf(Reply(s, e.cid, e.op, st, y), e.i), e.cid, w, d)
  BY ReplyGoes, FreeSpfReplyGoes
<1>2. Goes(s, SpfOpenAnswer(s, e, a), e.cid, w, d)
  <2> DEFINE t == [s EXCEPT !.spf[e.i].wid = a.wid]
  <2>1. Still(s, t) /\ t.put = s.put /\ t.owed = s.owed
    BY WidStill DEF Waits
  <2> HIDE DEF t
  <2>2. Sets(s, t, e.cid) /\ Waits(t, e.cid, w) /\ Mine(t, e.cid) = {}
    BY <2>1, StreamSets
  <2>3. Goes(t, Reply(t, e.cid, e.op, "ok", e.i), e.cid, w, d)
    BY <2>2, ReplyGoes
  <2>4. Goes(s, Reply(t, e.cid, e.op, "ok", e.i), e.cid, w, d)
    BY <2>2, <2>3, SetsThen DEF Waits
  <2>5. QED
    BY <1>1, <2>4 DEF SpfOpenAnswer, t
<1>3. Goes(s, SpfChunkAnswer(s, e, a), e.cid, w, d)
  BY <1>1 DEF SpfChunkAnswer
<1>4. QED
  BY <1>2, <1>3

\* The body plane's answer to a COMMIT: refused, or a composed write begins.
LEMMA SpfCommitGoes ==
    ASSUME NEW s, NEW e, NEW w, NEW d, Waits(s, e.cid, w), Mine(s, e.cid) = {},
           "put_file" = AckOf(w[e.cid]), ~d[e.cid], NEW a
    PROVE  Goes(s, SpfCommitAnswer(s, e, a), e.cid, w, d)
<1> DEFINE c == e.cid
           t == FreeSpf(s, e.i)
           i == Least(FreePuts(s))
           p == [FreeSlot EXCEPT !.op = "put_file", !.cid = e.cid, !.dig = a.dig,
                                 !.key = s.spf[e.i].key, !.mode = s.spf[e.i].mode,
                                 !.expect = s.spf[e.i].expect, !.held = s.spf[e.i].held]
           u == [t EXCEPT !.put[i] = p]
<1>1. Still(s, t) /\ t.put = s.put /\ t.owed = s.owed
  BY FreeSpfStill DEF Waits
<1>2. p.op = "put_file" /\ p.cid = c
  BY DEF FreeSlot
<1>3. IsSlot(p)
  BY DEF FreeSlot, IsSlot, SlotField
<1>4. \A st : st # "ok" => Goes(s, Reply(t, c, "put_file", st, None), c, w, d)
  BY FreeSpfReplyGoes
<1> HIDE DEF t, p
<1>5. Sets(s, t, c) /\ Waits(t, c, w) /\ Mine(t, c) = {}
  BY <1>1, StreamSets
<1>6. ASSUME FreePuts(s) # {} PROVE Goes(s, ComposedLookup(u, i), c, w, d)
  <2>1. i \in 1..PutFiles /\ t.put[i].op = "free"
    BY <1>1, <1>6, FreePutFree
  <2> HIDE DEF i
  <2>2. Works(u, i, c, w) /\ Sets(t, u, c)
    BY <1>2, <1>3, <1>5, <2>1, TakenWorks DEF Composed
  <2> HIDE DEF u
  <2>3. Goes(u, ComposedLookup(u, i), c, w, d)
    BY <2>2, LookupGoes
  <2>4. Goes(t, ComposedLookup(u, i), c, w, d)
    BY <2>2, <2>3, SetsThen DEF Waits
  <2>5. QED
    BY <1>5, <2>4, SetsThen DEF Waits
<1> HIDE DEF u, i
<1>7. SpfCommitAnswer(s, e, a) =
        CASE a.v # "ok" \/ a.dig # s.spf[e.i].dig -> Reply(t, e.cid, "put_file", "nak", None)
          [] a.v = "ok" /\ a.dig = s.spf[e.i].dig /\ FreePuts(s) = {} ->
                Reply(t, e.cid, "put_file", "busy", None)
          [] OTHER -> ComposedLookup(u, i)
  BY DEF SpfCommitAnswer, u, t, i, p
<1>8. QED
  BY <1>4, <1>6, <1>7

-----------------------------------------------------------------------------
(* Operations of one or two requests, and every handler for a client.        *)

\* A request to the namespace, or the refusal it could not be sent with.
LEMMA SimpleNsGoes ==
    ASSUME NEW s, NEW c, NEW w, NEW d, Waits(s, c, w), Mine(s, c) = {}, ~d[c], NEW q,
           w[c] = q.op, q.op \notin Composed \cup {"put_commit", "raw"}, NEW x,
           NEW r, r.cid = c, q.op \in {"bind", "commit"} => r.op = q.op
    PROVE  Goes(s, OrReply(ForwardNs(s, Entry(c, q.op, 0, x), r), c, q, "busy"), c, w, d)
<1> DEFINE e == Entry(c, q.op, 0, x)
           f == ForwardNs(s, e, r)
<1>1. /\ ~f.ok => f.s = s
      /\ f.ok => /\ Tables(f.s) /\ SentNs(s, f.s, e, r) /\ SameBody(s, f.s)
                 /\ SameObj(s, f.s) /\ f.s.raw = s.raw /\ f.s.put = s.put /\ f.s.owed = s.owed
  BY ForwardsNs DEF Waits
<1>2. e.cid = c /\ e.op = q.op
  BY DEF Entry
<1>3. AckOf(w[c]) = q.op
  BY DEF AckOf
<1> HIDE DEF e, f
<1>4. ASSUME f.ok PROVE Goes(s, f.s, c, w, d)
  <2> DEFINE t == f.s
  <2>1. Fits(e, w)
    BY <1>2, <1>3 DEF Fits, Waits
  <2>2. NsAsked(t, e, r, d)
    BY <1>2 DEF NsAsked
  <2>3. SendsNs(s, t, c, w, d)
    BY <1>1, <1>2, <1>4, <2>1, <2>2 DEF SendsNs
  <2>4. SlotFrame(s, t, c) /\ SlotsFit(t, c, w)
    BY <1>1, <1>4 DEF SlotFrame, SlotsFit, Mine, Waits
  <2>5. QED
    BY <1>1, <1>4, <2>3, <2>4, ClientNot0 DEF Goes, Outcome, RawFrame, Waits
<1>5. ~f.ok => Goes(s, Reply(f.s, c, q.op, "busy", None), c, w, d)
  BY <1>1, <1>3, RefuseGoes
<1>6. QED
  BY <1>4, <1>5 DEF OrReply, f, e

\* The operations of one request to the namespace.
LEMMA SimpleGoes ==
    ASSUME NEW s, NEW c, NEW w, NEW d, Waits(s, c, w), Mine(s, c) = {}, ~d[c], NEW q, w[c] = q.op
    PROVE  /\ q.op = "bind" => Goes(s, HandleBind(s, c, q), c, w, d)
           /\ q.op = "lease" => Goes(s, HandleLease(s, c, q), c, w, d)
           /\ q.op \in {"begin", "commit"} => Goes(s, HandleVolume(s, c, q), c, w, d)
           /\ q.op = "lookup" => Goes(s, HandleLookup(s, c, q), c, w, d)
           /\ q.op = "list" => Goes(s, HandleListFiles(s, c, q), c, w, d)
           /\ q.op = "get_file" => Goes(s, HandleGetFile(s, c, q), c, w, d)
           /\ q.op \in {"stat", "range"} => Goes(s, HandlePathRead(s, c, q), c, w, d)
<1>1. ASSUME NEW x, NEW r, r.cid = c, q.op \in {"bind", "commit"} => r.op = q.op,
             q.op \in {"get_file", "stat", "range", "bind", "begin", "commit", "lookup",
                       "lease", "list"}
      PROVE  Goes(s, OrReply(ForwardNs(s, Entry(c, q.op, 0, x), r), c, q, "busy"), c, w, d)
  BY <1>1, SimpleNsGoes DEF Composed
<1> DEFINE r1 == [NsReq("bind", c) EXCEPT !.key = q.key, !.dig = q.dig, !.rev = q.rev]
           r2 == [NsReq(q.op, c) EXCEPT !.key = q.key, !.dig = q.dig, !.rev = q.rev]
           r3 == [NsReq("lookup", c) EXCEPT !.key = q.key]
<1>2. /\ r1.cid = c /\ r1.op = "bind" /\ r2.cid = c /\ r2.op = q.op
      /\ r3.cid = c /\ r3.op = "lookup" /\ NsReq("lease", c).cid = c /\ NsReq("list", c).cid = c
  BY DEF NsReq
<1>3. /\ HandleBind(s, c, q) = OrReply(ForwardNs(s, Entry(c, q.op, 0, None), r1), c, q, "busy")
      /\ HandleVolume(s, c, q) = OrReply(ForwardNs(s, Entry(c, q.op, 0, None), r2), c, q, "busy")
      /\ HandleLookup(s, c, q) = OrReply(ForwardNs(s, Entry(c, q.op, 0, None), r3), c, q, "busy")
      /\ HandleGetFile(s, c, q) = OrReply(ForwardNs(s, Entry(c, q.op, 0, q.dig), r3), c, q, "busy")
      /\ HandlePathRead(s, c, q) = OrReply(ForwardNs(s, Entry(c, q.op, 0, q.dig), r3), c, q, "busy")
  BY DEF HandleBind, HandleVolume, HandleLookup, HandleGetFile, HandlePathRead
<1> HIDE DEF r1, r2, r3
<1>4. q.op = "bind" => Goes(s, HandleBind(s, c, q), c, w, d)
  BY <1>1, <1>2, <1>3
<1>5. q.op = "lease" => Goes(s, HandleLease(s, c, q), c, w, d)
  BY <1>1, <1>2 DEF HandleLease
<1>6. q.op \in {"begin", "commit"} => Goes(s, HandleVolume(s, c, q), c, w, d)
  BY <1>1, <1>2, <1>3
<1>7. q.op = "lookup" => Goes(s, HandleLookup(s, c, q), c, w, d)
  BY <1>1, <1>2, <1>3
<1>8. q.op = "list" => Goes(s, HandleListFiles(s, c, q), c, w, d)
  BY <1>1, <1>2 DEF HandleListFiles
<1>9. q.op = "get_file" => Goes(s, HandleGetFile(s, c, q), c, w, d)
  BY <1>1, <1>2, <1>3
<1>10. q.op \in {"stat", "range"} => Goes(s, HandlePathRead(s, c, q), c, w, d)
  BY <1>1, <1>2, <1>3
<1>11. QED
  BY <1>4, <1>5, <1>6, <1>7, <1>8, <1>9, <1>10

\* PUT_BODY and GET_BODY.
LEMMA SimpleBodyGoes ==
    ASSUME NEW s, NEW c, NEW w, NEW d, Waits(s, c, w), Mine(s, c) = {}, ~d[c], NEW q,
           w[c] = q.op, q.op \in {"put_body", "get_body"}, NEW op, op \notin Writes, NEW g
    PROVE  Goes(s, OrReply(ForwardBody(s, Entry(c, q.op, 0, None), BodyReq(op, c, g)),
                           c, q, "nak"), c, w, d)
<1> DEFINE e == Entry(c, q.op, 0, None)
           f == ForwardBody(s, e, BodyReq(op, c, g))
<1>1. e.cid = c /\ e.op = q.op
  BY DEF Entry
<1> HIDE DEF e
<1>2. BodyFits(s, e, w, d) /\ e.op \notin RawOp
  BY <1>1 DEF BodyFits, Fits, Waits, RawOp
<1>3. (f.ok => Goes(s, f.s, c, w, d)) /\ (~f.ok => f.s = s)
  BY <1>1, <1>2, BodyReqGoes
<1> HIDE DEF f
<1>4. AckOf(w[c]) = q.op
  BY DEF AckOf
<1>5. ~f.ok => Goes(s, Reply(f.s, c, q.op, "nak", None), c, w, d)
  BY <1>3, <1>4, RefuseGoes
<1>6. QED
  BY <1>3, <1>5 DEF OrReply, f, e

\* The lookup behind a read through a path.
LEMMA LookupAnswerGoes ==
    ASSUME NEW s, NEW e, NEW w, NEW d, Waits(s, e.cid, w), Mine(s, e.cid) = {},
           w[e.cid] = e.op, e.op \in {"get_file", "stat", "range"}, NEW a
    PROVE  /\ Goes(s, GetFileLookupAnswer(s, e, a), e.cid, w, d)
           /\ Goes(s, PathReadLookupAnswer(s, e, a), e.cid, w, d)
<1> DEFINE g == Entry(e.cid, e.op, 0, None)
           f == ForwardBody(s, g, BodyReq("get", e.cid, a.obj))
<1>1. g.cid = e.cid /\ g.op = e.op
  BY DEF Entry
<1> HIDE DEF g
<1>2. BodyFits(s, g, w, d) /\ g.op \notin RawOp
  BY <1>1 DEF BodyFits, Fits, Waits, RawOp
<1>3. f.ok => Goes(s, f.s, e.cid, w, d)
  BY <1>1, <1>2, BodyReqGoes DEF Writes
<1> HIDE DEF f
<1>4. AckOf(w[e.cid]) = e.op /\ e.op \notin WriteOps
  BY DEF AckOf, WriteOps
<1>5. \A st : Goes(s, Reply(s, e.cid, e.op, st, None), e.cid, w, d)
  BY <1>4, ReplyGoes
<1>6. GetFileLookupAnswer(s, e, a) =
        CASE ResolveRead(e, a) # "ok" -> Reply(s, e.cid, e.op, ResolveRead(e, a), None)
          [] ResolveRead(e, a) = "ok" /\ ~f.ok -> Reply(s, e.cid, e.op, "busy", None)
          [] OTHER -> f.s
  BY DEF GetFileLookupAnswer, f, g
<1>7. PathReadLookupAnswer(s, e, a) =
        CASE ResolveRead(e, a) # "ok" -> Reply(s, e.cid, e.op, ResolveRead(e, a), None)
          [] ResolveRead(e, a) = "ok" /\ ~f.ok -> Reply(s, e.cid, e.op, "nak", None)
          [] OTHER -> f.s
  BY DEF PathReadLookupAnswer, f, g
<1>8. QED
  BY <1>3, <1>5, <1>6, <1>7

\* A client's request outside the raw plane.
LEMMA HandleGoes ==
    ASSUME NEW s, NEW c, NEW w, NEW d, Waits(s, c, w), Mine(s, c) = {}, ~d[c], NEW q,
           w[c] = q.op, q.op \in AskOp \ RawOp, NEW i
    PROVE  Goes(s, Handle(s, c, q, i), c, w, d)
<1>1. CASE q.op \in Composed
  <2>1. /\ q.op = "put_file" => Goes(s, HandlePutFile(s, c, q), c, w, d)
        /\ Goes(s, HandleDeleteFile(s, c, q), c, w, d)
        /\ Goes(s, HandleRetain(s, c, q), c, w, d)
    BY <1>1, PutFileGoes
  <2>2. QED
    BY <1>1, <2>1 DEF Handle, Composed
<1>2. CASE q.op \in {"put_body", "get_body"}
  <2>1. Goes(s, HandlePutBody(s, c, q), c, w, d)
    BY <1>2, SimpleBodyGoes DEF HandlePutBody, Writes
  <2>2. Goes(s, HandleGetBody(s, c, q), c, w, d)
    BY <1>2, SimpleBodyGoes DEF HandleGetBody, Writes
  <2>3. QED
    BY <1>2, <2>1, <2>2 DEF Handle
<1>3. CASE q.op = "put_open"
  BY <1>3, OpenGoes DEF Handle
<1>4. CASE q.op \in {"put_chunk", "put_commit"}
  <2>1. /\ q.op = "put_chunk" => Goes(s, HandlePutFileChunk(s, c, q, i), c, w, d)
        /\ q.op = "put_commit" => Goes(s, HandlePutFileCommit(s, c, q, i), c, w, d)
    BY <1>4, ChunkGoes
  <2>2. QED
    BY <1>4, <2>1 DEF Handle
<1>5. CASE q.op \in {"bind", "lease", "begin", "commit", "lookup", "list", "get_file", "stat",
                     "range"}
  <2>1. /\ q.op = "bind" => Goes(s, HandleBind(s, c, q), c, w, d)
        /\ q.op = "lease" => Goes(s, HandleLease(s, c, q), c, w, d)
        /\ q.op \in {"begin", "commit"} => Goes(s, HandleVolume(s, c, q), c, w, d)
        /\ q.op = "lookup" => Goes(s, HandleLookup(s, c, q), c, w, d)
        /\ q.op = "list" => Goes(s, HandleListFiles(s, c, q), c, w, d)
        /\ q.op = "get_file" => Goes(s, HandleGetFile(s, c, q), c, w, d)
        /\ q.op \in {"stat", "range"} => Goes(s, HandlePathRead(s, c, q), c, w, d)
    BY SimpleGoes
  <2>2. QED
    BY <1>5, <2>1 DEF Handle
<1>6. QED
  BY <1>1, <1>2, <1>3, <1>4, <1>5 DEF AskOp, RawOp, Composed

\* An entry names the operation its client's answer is of.
LEMMA FitsAck ==
    ASSUME NEW e, NEW w, Fits(e, w), e.op \notin {"raw", "put_commit"}
    PROVE  e.op = AckOf(w[e.cid]) /\ (e.op # "put_file" => e.op = w[e.cid])
  BY DEF Fits, AckOf

\* An answer of the namespace's for a client outside the raw plane.
LEMMA HandleNsGoes ==
    ASSUME NEW s, NEW e, NEW w, NEW d, Waits(s, e.cid, w), NsEntry(e), Fits(e, w), e.op # "raw",
           NEW a, NsSaid(s, e, a, d)
    PROVE  Goes(s, HandleNs(s, e, a), e.cid, w, d)
<1>0. e.cid # 0
  BY ClientNot0 DEF Waits
<1>1. CASE e.op \in Composed
  <2>1. Goes(s, ComposedNsAnswer(s, e, a), e.cid, w, d)
    BY <1>1, NsAnswerGoes DEF NsEntry
  <2>2. QED
    BY <1>1, <2>1 DEF HandleNs, Composed
<1>2. ASSUME e.op \notin Composed
      PROVE  e.op = AckOf(w[e.cid]) /\ e.op = w[e.cid] /\ Mine(s, e.cid) = {}
  <2>1. e.op \notin {"put_commit", "put_file"}
    BY <1>0, <1>2 DEF NsEntry, Composed, GcNs
  <2>2. e.op = AckOf(w[e.cid]) /\ e.op = w[e.cid]
    BY <2>1, FitsAck
  <2>3. QED
    BY <1>2, <2>2, NoSlots
<1>3. CASE e.op \in {"get_file", "stat", "range"}
  <2>1. e.op \notin Composed
    BY <1>3 DEF Composed
  <2>2. Goes(s, GetFileLookupAnswer(s, e, a), e.cid, w, d)
        /\ Goes(s, PathReadLookupAnswer(s, e, a), e.cid, w, d)
    BY <1>2, <1>3, <2>1, LookupAnswerGoes
  <2>3. QED
    BY <1>3, <2>2 DEF HandleNs
<1>4. CASE e.op \in {"bind", "begin", "commit", "lookup", "lease", "list"}
  <2>1. e.op \notin Composed
    BY <1>4 DEF Composed
  <2>2. \A st, x : (e.op \in WriteOps => (st = "ok" <=> d[e.cid])) =>
                      Goes(s, Reply(s, e.cid, e.op, st, x), e.cid, w, d)
    BY <1>2, <2>1, ReplyGoes
  <2>3. (NsWriteStatus(a.v) = "ok" <=> a.v = "ok") /\ (VolumeStatus(a.v) = "ok" <=> a.v = "ok")
    BY DEF NsWriteStatus, VolumeStatus
  <2>4. e.op \in {"bind", "commit"} => (d[e.cid] <=> a.v = "ok")
    BY DEF NsSaid
  <2>5. e.op \in WriteOps => e.op \in {"bind", "commit"}
    BY <1>4 DEF WriteOps
  <2>6. QED
    BY <1>4, <2>2, <2>3, <2>4, <2>5 DEF HandleNs
<1>5. QED
  BY <1>0, <1>1, <1>3, <1>4 DEF NsEntry

\* The same, of the body plane's answers.
LEMMA HandleBodyGoes ==
    ASSUME NEW s, NEW e, NEW w, NEW d, Waits(s, e.cid, w), BodyEntry(e), BodyFits(s, e, w, d),
           e.op \notin RawOp \cup {"raw"}, NEW a
    PROVE  Goes(s, HandleBody(s, e, a), e.cid, w, d)
<1>0. e.cid # 0
  BY ClientNot0 DEF Waits
<1>1. CASE e.op = "put_file"
  <2>1. Goes(s, PutFileBodyAnswer(s, e, a), e.cid, w, d)
    BY <1>1, BodyAnswerGoes DEF BodyEntry, Composed, BodyFits
  <2>2. QED
    BY <1>1, <2>1 DEF HandleBody
<1>2. CASE e.op = "put_commit"
  <2>1. "put_file" = AckOf(w[e.cid]) /\ Mine(s, e.cid) = {} /\ ~d[e.cid]
    BY <1>2 DEF BodyFits, Fits, AckOf
  <2>2. Goes(s, SpfCommitAnswer(s, e, a), e.cid, w, d)
    BY <2>1, SpfCommitGoes
  <2>3. QED
    BY <1>2, <2>2 DEF HandleBody
<1>3. CASE e.op \notin {"put_file", "put_commit"}
  <2>1. e.op = AckOf(w[e.cid])
    BY <1>3, FitsAck DEF BodyFits
  <2>2. e.op \notin Composed /\ e.op \notin WriteOps
    BY <1>3 DEF Composed, WriteOps, BodyFits, RawOp
  <2>3. Mine(s, e.cid) = {}
    BY <2>1, <2>2, NoSlots
  <2>4. CASE e.op \in {"put_open", "put_chunk"}
    <3>1. /\ Goes(s, SpfOpenAnswer(s, e, a), e.cid, w, d)
          /\ Goes(s, SpfChunkAnswer(s, e, a), e.cid, w, d)
      BY <2>1, <2>2, <2>3, SpfAnswerGoes
    <3>2. QED
      BY <2>4, <3>1 DEF HandleBody
  <2>5. CASE e.op \notin {"put_open", "put_chunk"}
    <3>1. e.op \notin {"delete_body", "put_keyed", "gc_scan", "gc_root", "gc_leaf", "gc_delete"}
      BY <1>0 DEF BodyEntry, GcBody, RawOp
    <3>2. HandleBody(s, e, a) = Reply(s, e.cid, e.op, BodyStatus(a.v), a.dig)
      BY <1>3, <2>5, <3>1 DEF HandleBody
    <3>3. \A st, x : Goes(s, Reply(s, e.cid, e.op, st, x), e.cid, w, d)
      BY <2>1, <2>2, <2>3, ReplyGoes
    <3>4. QED
      BY <3>2, <3>3
  <2>6. QED
    BY <2>4, <2>5
<1>4. QED
  BY <1>1, <1>2, <1>3

\* The same, of the index's answers.
LEMMA HandleObjGoes ==
    ASSUME NEW s, NEW e, NEW w, NEW d, Waits(s, e.cid, w), ObjEntry(e), ~d[e.cid], NEW a
    PROVE  Goes(s, HandleObj(s, e, a), e.cid, w, d)
<1>0. e.cid # 0
  BY ClientNot0 DEF Waits
<1>1. Goes(s, PutFileObjectAnswer(s, e, a), e.cid, w, d)
  BY <1>0, ObjectAnswerGoes DEF ObjEntry
<1>2. QED
  BY <1>0, <1>1 DEF HandleObj, ObjEntry, GcObj

-----------------------------------------------------------------------------
(* The raw plane.                                                            *)

\* The raw plane works for client c and has no request out.
RawWorks(s, c, w) ==
    /\ Tables(s) /\ c \in Client /\ SlotsFit(s, c, w) /\ NoRaw(s)
    /\ s.raw.cid = c /\ s.raw.op = w[c] /\ w[c] \in RawOp
\* What it does for c, and what it holds then.
RawGoes(s, u, c, w, d) ==
    Goes(s, u, c, w, d) /\ (u.raw.stage # "idle" => RawFits(u.raw, w, d))

\* Its record is set: it still works for c.
LEMMA RawSetWorks ==
    ASSUME NEW s, NEW t, NEW c, NEW w, RawWorks(s, c, w), RawSet(s, t),
           t.raw.cid = s.raw.cid, t.raw.op = s.raw.op
    PROVE  RawWorks(t, c, w)
  BY DEF RawWorks, RawSet, SlotsFit, Mine, NoRaw, SameNs, SameBody

\* Setting its record and then what it does is what it does.
LEMMA RawSetGoes ==
    ASSUME NEW s, NEW t, NEW u, NEW c \in Client, NEW w, NEW d, NoRaw(s), RawSet(s, t),
           RawGoes(t, u, c, w, d)
    PROVE  RawGoes(s, u, c, w, d)
<1>1. SameNs(s, t) /\ SameBody(s, t) /\ SameObj(s, t) /\ t.put = s.put /\ t.owed = s.owed
  BY DEF RawSet
<1>2. SlotFrame(s, u, c)
  BY <1>1 DEF RawGoes, Goes, SlotFrame, Yours
<1>3. RawFrame(s, u, w, d)
  BY DEF RawGoes, RawFrame
<1>4. \A e, q : /\ SentNs(t, u, e, q) => SentNs(s, u, e, q)
                /\ SentBody(t, u, e, q) => SentBody(s, u, e, q)
                /\ SentObj(t, u, e, q) => SentObj(s, u, e, q)
  BY <1>1 DEF SentNs, SentBody, SentObj, SameNs, SameBody, SameObj
<1>5. /\ SameNs(t, u) => SameNs(s, u)
      /\ SameBody(t, u) => SameBody(s, u)
      /\ SameObj(t, u) => SameObj(s, u)
  BY <1>1 DEF SameNs, SameBody, SameObj
<1>6. /\ SendsNs(t, u, c, w, d) => SendsNs(s, u, c, w, d)
      /\ SendsBody(t, u, c, w, d) => SendsBody(s, u, c, w, d)
      /\ SendsObj(t, u, c, w, d) => SendsObj(s, u, c, w, d)
      /\ SendsNone(t, u) => SendsNone(s, u)
  BY <1>1, <1>4, <1>5 DEF SendsNs, SendsBody, SendsObj, SendsNone
<1>7. Outcome(s, u, c, w, d)
  BY <1>1, <1>6 DEF RawGoes, Goes, Outcome, Tells
<1>8. QED
  BY <1>2, <1>3, <1>7, ClientNot0 DEF RawGoes, Goes

\* A client of the raw plane holds no slot.
LEMMA RawNoSlots ==
    ASSUME NEW s, NEW c, NEW w, Tables(s), SlotsFit(s, c, w), w[c] \in RawOp
    PROVE  Mine(s, c) = {} /\ AckOf(w[c]) = w[c] /\ w[c] # "none"
<1>1. AckOf(w[c]) = w[c] /\ w[c] # "none" /\ w[c] \notin Composed
  BY DEF RawOp, AckOf, Composed
<1>2. QED
  BY <1>1 DEF SlotsFit, Mine, Tables, Puts

\* raw_finish answers what was carried out.
LEMMA RawFinishGoes ==
    ASSUME NEW s, NEW c, NEW w, NEW d, RawWorks(s, c, w), s.raw.status = "ok" <=> d[c]
    PROVE  RawGoes(s, RawFinish(s), c, w, d)
<1> DEFINE t == [s EXCEPT !.raw = IdleRaw]
           u == RawFinish(s)
<1>0. Tables(s) /\ c \in Client /\ NoRaw(s) /\ s.raw.cid = c /\ s.raw.op = w[c] /\ w[c] \in RawOp
  BY DEF RawWorks
<1>1. IsRaw(IdleRaw) /\ IdleRaw.stage = "idle"
  BY DEF IsRaw, IdleRaw
<1>2. RawSet(s, t) /\ t.raw = IdleRaw
  BY <1>0, <1>1, RawWith
<1>3. u = Reply(t, c, w[c], s.raw.status, None)
  BY <1>0 DEF RawFinish
<1> HIDE DEF t, u
<1>4. Tables(t) /\ SlotsFit(t, c, w)
  BY <1>2 DEF RawSet, RawWorks, SlotsFit, Mine
<1>5. Mine(t, c) = {} /\ AckOf(w[c]) = w[c] /\ w[c] # "none"
  BY <1>0, <1>4, RawNoSlots
<1>6. Waits(t, c, w)
  BY <1>0, <1>1, <1>2, <1>4, <1>5 DEF Waits, NotRaws
<1>7. Goes(t, u, c, w, d)
  BY <1>3, <1>5, <1>6, ReplyGoes
<1>8. Still(t, u)
  BY <1>3, <1>4, ReplyStill
<1>9. RawGoes(t, u, c, w, d)
  BY <1>1, <1>2, <1>7, <1>8 DEF RawGoes, Still
<1>10. QED
  BY <1>0, <1>2, <1>9, RawSetGoes DEF u

\* A request to the namespace under the raw plane's entry.
LEMMA RawNsGoes ==
    ASSUME NEW s, NEW c, NEW w, NEW d, RawWorks(s, c, w), RawFits(s.raw, w, d), NEW q, q.cid = 0
    PROVE  LET f == ForwardNs(s, RawHeld(c), q)
           IN  (f.ok => RawGoes(s, f.s, c, w, d)) /\ (~f.ok => f.s = s) /\ f.ok \in BOOLEAN
<1> DEFINE e == RawHeld(c)
           f == ForwardNs(s, e, q)
<1>0. Tables(s) /\ c \in Client /\ s.raw.cid = c /\ w[c] \in RawOp /\ w[c] # "none"
  BY RawNoSlots DEF RawWorks
<1>1. /\ ~f.ok => f.s = s
      /\ f.ok \in BOOLEAN
      /\ f.ok => /\ Tables(f.s) /\ SentNs(s, f.s, e, q) /\ SameBody(s, f.s)
                 /\ SameObj(s, f.s) /\ f.s.raw = s.raw /\ f.s.put = s.put /\ f.s.owed = s.owed
  BY <1>0, ForwardsNs
<1>2. e.cid = c /\ e.op = "raw"
  BY DEF RawHeld, Entry
<1> HIDE DEF e, f
<1>3. ASSUME f.ok PROVE RawGoes(s, f.s, c, w, d)
  <2> DEFINE t == f.s
  <2>1. Fits(e, w) /\ NsAsked(t, e, q, d)
    BY <1>0, <1>2 DEF Fits, NsAsked
  <2>2. SendsNs(s, t, c, w, d)
    BY <1>0, <1>1, <1>2, <1>3, <2>1 DEF SendsNs
  <2>3. SlotFrame(s, t, c) /\ SlotsFit(t, c, w)
    BY <1>1, <1>3 DEF SlotFrame, SlotsFit, Mine, RawWorks
  <2>4. Goes(s, t, c, w, d)
    BY <1>0, <1>1, <1>3, <2>2, <2>3, ClientNot0 DEF Goes, Outcome, RawFrame
  <2>5. QED
    BY <1>1, <1>3, <2>4 DEF RawGoes
<1>4. QED
  BY <1>1, <1>3 DEF f, e

\* The release of the digest, or the end when it cannot be sent.
LEMMA RawReleaseGoes ==
    ASSUME NEW s, NEW c, NEW w, NEW d, RawWorks(s, c, w), s.raw.status = "ok" <=> d[c]
    PROVE  RawGoes(s, RawRelease(s), c, w, d)
<1> DEFINE t == [s EXCEPT !.raw.stage = "release"]
           q == [NsReq("release", 0) EXCEPT !.dig = s.raw.dig]
           f == ForwardNs(t, RawHeld(c), q)
           u == RawRelease(s)
<1>0. Tables(s) /\ c \in Client /\ NoRaw(s) /\ s.raw.cid = c /\ s.raw.op = w[c] /\ w[c] \in RawOp
  BY DEF RawWorks
<1>1. /\ RawSet(s, t) /\ t.raw.stage = "release" /\ t.raw.cid = s.raw.cid /\ t.raw.op = s.raw.op
      /\ t.raw.status = s.raw.status
  BY <1>0, RawStageSet
<1>2. u = IF f.ok THEN f.s ELSE RawFinish(t)
  BY <1>0 DEF RawRelease
<1>3. q.cid = 0
  BY DEF NsReq
<1> HIDE DEF t, u, q
<1>4. RawWorks(t, c, w)
  BY <1>1, RawSetWorks
<1>5. RawFits(t.raw, w, d)
  BY <1>0, <1>1 DEF RawFits
<1>6. (f.ok => RawGoes(t, f.s, c, w, d)) /\ f.ok \in BOOLEAN
  BY <1>3, <1>4, <1>5, RawNsGoes
<1> HIDE DEF f
<1>7. RawGoes(t, RawFinish(t), c, w, d)
  BY <1>1, <1>4, RawFinishGoes
<1>8. RawGoes(t, u, c, w, d)
  BY <1>2, <1>6, <1>7
<1>9. QED
  BY <1>0, <1>1, <1>8, RawSetGoes DEF u

\* The raw plane holds its status, which is what was carried out, and releases.
LEMMA RawEndGoes ==
    ASSUME NEW s, NEW c, NEW w, NEW d, RawWorks(s, c, w), NEW status, status = "ok" <=> d[c]
    PROVE  RawGoes(s, RawEnd(s, status), c, w, d)
<1> DEFINE t == [s EXCEPT !.raw.status = status]
<1>0. Tables(s) /\ c \in Client /\ NoRaw(s)
  BY DEF RawWorks
<1>1. RawSet(s, t) /\ t.raw.cid = s.raw.cid /\ t.raw.op = s.raw.op /\ t.raw.status = status
  BY <1>0, RawStatusSet
<1> HIDE DEF t
<1>2. RawWorks(t, c, w)
  BY <1>1, RawSetWorks
<1>3. RawGoes(t, RawRelease(t), c, w, d)
  BY <1>1, <1>2, RawReleaseGoes
<1>4. QED
  BY <1>0, <1>1, <1>3, RawSetGoes DEF RawEnd, t

\* The raw plane asks for a page of the namespace's retentions.
LEMMA RawCheckGoes ==
    ASSUME NEW s, NEW c, NEW w, NEW d, RawWorks(s, c, w), ~d[c], s.raw.stage = "check", NEW at
    PROVE  RawGoes(s, RawCheck(s, at), c, w, d)
<1> DEFINE q == [NsReq("retained", 0) EXCEPT !.dig = s.raw.dig, !.at = at]
           f == ForwardNs(s, RawHeld(c), q)
           u == RawCheck(s, at)
<1>0. c \in Client /\ s.raw.cid = c /\ s.raw.op = w[c] /\ w[c] \in RawOp
  BY DEF RawWorks
<1>1. u = IF f.ok THEN f.s ELSE RawEnd(s, "busy")
  BY <1>0 DEF RawCheck
<1>2. q.cid = 0
  BY DEF NsReq
<1> HIDE DEF u, q
<1>3. RawFits(s.raw, w, d)
  BY <1>0 DEF RawFits
<1>4. (f.ok => RawGoes(s, f.s, c, w, d)) /\ f.ok \in BOOLEAN
  BY <1>2, <1>3, RawNsGoes
<1> HIDE DEF f
<1>5. RawGoes(s, RawEnd(s, "busy"), c, w, d)
  BY RawEndGoes
<1>6. QED
  BY <1>1, <1>4, <1>5 DEF u

\* The raw plane forwards the request it served.
LEMMA RawForwardGoes ==
    ASSUME NEW s, NEW c, NEW w, NEW d, RawWorks(s, c, w), ~d[c]
    PROVE  RawGoes(s, RawForward(s), c, w, d)
<1> DEFINE op == IF s.raw.op = "delete_body" THEN "delete" ELSE "put_keyed"
           q == BodyReq(op, s.raw.cid, s.raw.dig)
           e == Entry(s.raw.cid, s.raw.op, 0, None)
           f == ForwardBody(s, e, q)
           r == [q EXCEPT !.id = FreshId(s)]
           v == [f.s EXCEPT !.raw.stage = "body"]
           u == RawForward(s)
<1>0. Tables(s) /\ c \in Client /\ NoRaw(s) /\ s.raw.cid = c /\ s.raw.op = w[c] /\ w[c] \in RawOp
      /\ w[c] # "none"
  BY RawNoSlots DEF RawWorks
<1>1. u = IF f.ok THEN v ELSE RawEnd(s, "busy")
  BY DEF RawForward
<1>2. /\ "id" \in DOMAIN q /\ q = [x \in DOMAIN q |-> q[x]] /\ r.cid = s.raw.cid
      /\ r.op \in {"delete", "put_keyed"}
  BY DEF BodyReq
<1>3. e.cid = c /\ e.op = w[c]
  BY <1>0 DEF Entry
<1> HIDE DEF u, q, r, e
<1>4. f.ok \in BOOLEAN
  BY <1>0, <1>2, ForwardsBody
<1>5. f.ok => /\ Tables(f.s) /\ SentBody(s, f.s, e, [q EXCEPT !.id = FreshId(s)])
              /\ SameNs(s, f.s) /\ SameObj(s, f.s) /\ f.s.raw = s.raw
              /\ f.s.put = s.put /\ f.s.owed = s.owed
  BY <1>0, <1>2, ForwardsBody
<1> HIDE DEF f
<1>6. ASSUME f.ok PROVE RawGoes(s, u, c, w, d)
  <2>1. /\ Tables(f.s) /\ SentBody(s, f.s, e, r) /\ SameNs(s, f.s) /\ SameObj(s, f.s)
        /\ f.s.raw = s.raw /\ f.s.put = s.put /\ f.s.owed = s.owed
    BY <1>5, <1>6 DEF r
  <2>2. /\ RawSet(f.s, v) /\ v.raw.stage = "body" /\ v.raw.cid = f.s.raw.cid
        /\ v.raw.op = f.s.raw.op
    BY <2>1, RawStageSet
  <2> HIDE DEF v
  <2>3. /\ SentBody(s, v, e, r) /\ SameNs(s, v) /\ SameObj(s, v) /\ v.put = s.put /\ v.owed = s.owed
    BY <2>1, <2>2 DEF RawSet, SentBody, SameNs, SameBody, SameObj
  <2>4. v.raw.cid = c /\ v.raw.op = w[c]
    BY <1>0, <2>1, <2>2
  <2>5. RawFits(v.raw, w, d)
    BY <1>0, <2>2, <2>4 DEF RawFits
  <2>6. e.op \notin {"delete_file", "retain", "bind", "commit", "raw", "put_file", "put_commit"}
    BY <1>0, <1>3 DEF RawOp
  <2>7. BodyFits(v, e, w, d)
    BY <1>0, <1>3, <2>4, <2>6 DEF BodyFits, Fits
  <2>8. BodyAsked(e, r, d)
    BY <1>0, <1>2, <1>3 DEF BodyAsked
  <2>9. SendsBody(s, v, c, w, d)
    BY <1>3, <2>3, <2>7, <2>8 DEF SendsBody
  <2>10. SlotFrame(s, v, c) /\ SlotsFit(v, c, w)
    BY <2>3 DEF SlotFrame, SlotsFit, Mine, RawWorks
  <2>11. RawFrame(s, v, w, d)
    BY <1>0, <2>5 DEF RawFrame
  <2>12. Goes(s, v, c, w, d)
    BY <1>0, <2>9, <2>10, <2>11, ClientNot0 DEF Goes, Outcome
  <2>13. QED
    BY <1>1, <1>6, <2>5, <2>12 DEF RawGoes
<1>7. ASSUME ~f.ok PROVE RawGoes(s, u, c, w, d)
  <2>1. RawGoes(s, RawEnd(s, "busy"), c, w, d)
    BY RawEndGoes
  <2>2. QED
    BY <1>1, <1>7, <2>1
<1>8. QED
  BY <1>4, <1>6, <1>7 DEF u

\* The namespace's answers to the raw plane.
LEMMA RawNsAnswerGoes ==
    ASSUME NEW s, NEW c, NEW w, NEW d, RawWorks(s, c, w), RawFits(s.raw, w, d),
           s.raw.stage \in {"reserve", "check", "release"}, NEW a
    PROVE  RawGoes(s, RawNsAnswer(s, a), c, w, d)
<1>0. Tables(s) /\ c \in Client /\ NoRaw(s) /\ s.raw.cid = c
  BY DEF RawWorks
<1>1. CASE s.raw.stage = "reserve"
  <2>0. ~d[c]
    BY <1>0, <1>1 DEF RawFits
  <2>1. RawNsAnswer(s, a) = IF a.yes THEN RawCheck([s EXCEPT !.raw.stage = "check"], 0)
                            ELSE RawFinish([s EXCEPT !.raw.status = "busy"])
    BY <1>1 DEF RawNsAnswer
  <2> DEFINE t == [s EXCEPT !.raw.stage = "check"]
             v == [s EXCEPT !.raw.status = "busy"]
  <2>2. RawSet(s, t) /\ t.raw.stage = "check" /\ t.raw.cid = s.raw.cid /\ t.raw.op = s.raw.op
    BY <1>0, RawStageSet
  <2>3. RawSet(s, v) /\ v.raw.status = "busy" /\ v.raw.cid = s.raw.cid /\ v.raw.op = s.raw.op
    BY <1>0, RawStatusSet
  <2> HIDE DEF t, v
  <2>4. RawWorks(t, c, w) /\ RawWorks(v, c, w)
    BY <2>2, <2>3, RawSetWorks
  <2>5. RawGoes(t, RawCheck(t, 0), c, w, d)
    BY <2>0, <2>2, <2>4, RawCheckGoes
  <2>6. RawGoes(v, RawFinish(v), c, w, d)
    BY <2>0, <2>3, <2>4, RawFinishGoes
  <2>7. RawGoes(s, RawCheck(t, 0), c, w, d) /\ RawGoes(s, RawFinish(v), c, w, d)
    BY <1>0, <2>2, <2>3, <2>5, <2>6, RawSetGoes
  <2>8. QED
    BY <2>1, <2>7 DEF t, v
<1>2. CASE s.raw.stage = "check"
  <2>0. ~d[c]
    BY <1>0, <1>2 DEF RawFits
  <2>1. RawNsAnswer(s, a) = CASE a.yes -> RawEnd(s, "retained")
                              [] ~a.yes /\ a.next # 0 -> RawCheck(s, a.next)
                              [] OTHER -> RawForward(s)
    BY <1>2 DEF RawNsAnswer
  <2>2. \/ RawNsAnswer(s, a) = RawEnd(s, "retained") \/ RawNsAnswer(s, a) = RawCheck(s, a.next)
        \/ RawNsAnswer(s, a) = RawForward(s)
    BY <2>1
  <2>3. QED
    BY <1>2, <2>0, <2>2, RawEndGoes, RawCheckGoes, RawForwardGoes
<1>3. CASE s.raw.stage = "release"
  <2>1. RawNsAnswer(s, a) = RawFinish(s)
    BY <1>3 DEF RawNsAnswer
  <2>2. s.raw.status = "ok" <=> d[c]
    BY <1>0, <1>3 DEF RawFits
  <2>3. QED
    BY <2>1, <2>2, RawFinishGoes
<1>4. QED
  BY <1>1, <1>2, <1>3

\* The body plane's answer to the raw plane.
LEMMA RawBodyAnswerGoes ==
    ASSUME NEW s, NEW c, NEW w, NEW d, RawWorks(s, c, w), NEW a, d[c] <=> a.v = "ok"
    PROVE  RawGoes(s, RawBodyAnswer(s, a), c, w, d)
<1> DEFINE x == IF a.v = "ok" THEN "ok" ELSE "nak"
<1>1. x = "ok" <=> d[c]
  OBVIOUS
<1> HIDE DEF x
<1>2. RawGoes(s, RawEnd(s, x), c, w, d)
  BY <1>1, RawEndGoes
<1>3. QED
  BY <1>2 DEF RawBodyAnswer, x

\* DELETE_BODY and PUT_KEYED.
LEMMA RawBeginGoes ==
    ASSUME NEW s, NEW c, NEW w, NEW d, Waits(s, c, w), Mine(s, c) = {}, ~d[c], RawOne(s), NEW q,
           q.op \in RawOp, w[c] = q.op
    PROVE  Goes(s, RawBegin(s, c, q), c, w, d)
<1> DEFINE e == RawHeld(c)
           x == [NsReq("reserve", 0) EXCEPT !.dig = q.dig]
           f == ForwardNs(s, e, x)
           r == [stage |-> "reserve", op |-> q.op, cid |-> c, dig |-> q.dig, status |-> "nak"]
           v == [f.s EXCEPT !.raw = r]
           no == \/ s.raw.stage # "idle" \/ s.gc.queue # <<>> \/ s.gc.asked \/ ~f.ok
           u == RawBegin(s, c, q)
<1>0. Tables(s) /\ c \in Client /\ AckOf(w[c]) = q.op /\ w[c] # "none" /\ c # 0
  BY RawNoSlots, ClientNot0 DEF Waits
<1>1. u = IF no THEN Reply(s, c, q.op, "busy", None) ELSE v
  BY DEF RawBegin
<1>2. e.cid = c /\ e.op = "raw" /\ x.cid = 0
  BY DEF RawHeld, Entry, NsReq
<1>3. IsRaw(r) /\ r.stage = "reserve" /\ r.op = q.op /\ r.cid = c
  BY DEF IsRaw
<1> HIDE DEF u, x, e, r
<1>4. f.ok => /\ Tables(f.s) /\ SentNs(s, f.s, e, x) /\ SameBody(s, f.s) /\ SameObj(s, f.s)
              /\ f.s.put = s.put /\ f.s.owed = s.owed
  BY <1>0, ForwardsNs
<1> HIDE DEF f
<1>5. ASSUME no PROVE Goes(s, u, c, w, d)
  <2>1. u = Reply(s, c, q.op, "busy", None)
    BY <1>1, <1>5
  <2>2. QED
    BY <1>0, <2>1, RefuseGoes
<1>6. ASSUME ~no PROVE Goes(s, u, c, w, d)
  <2>1. u = v /\ f.ok /\ s.raw.stage = "idle"
    BY <1>1, <1>6
  <2>2. RawSet(f.s, v) /\ v.raw = r
    BY <1>3, <1>4, <2>1, RawWith
  <2> HIDE DEF v
  <2>3. SentNs(s, v, e, x) /\ SameBody(s, v) /\ SameObj(s, v) /\ v.put = s.put /\ v.owed = s.owed
    BY <1>4, <2>1, <2>2 DEF RawSet, SentNs, SameNs, SameBody, SameObj
  <2>4. NoRaw(s)
    BY <2>1 DEF RawOne, NoRaw
  <2>5. RawFits(v.raw, w, d)
    BY <1>0, <1>3, <2>2 DEF RawFits
  <2>6. Fits(e, w) /\ NsAsked(v, e, x, d) /\ v.raw.cid = c
    BY <1>0, <1>2, <1>3, <2>2 DEF Fits, NsAsked
  <2>7. SendsNs(s, v, c, w, d)
    BY <1>2, <2>3, <2>6 DEF SendsNs
  <2>8. SlotFrame(s, v, c) /\ SlotsFit(v, c, w)
    BY <2>3 DEF SlotFrame, SlotsFit, Mine, Waits
  <2>9. Goes(s, v, c, w, d)
    BY <1>0, <2>4, <2>5, <2>7, <2>8 DEF Goes, Outcome, RawFrame
  <2>10. QED
    BY <2>1, <2>9
<1>7. QED
  BY <1>5, <1>6 DEF u

-----------------------------------------------------------------------------
(* The sweep, and answers taken from the planes.                             *)

\* What the sweep does is nothing to the waiting clients.
LEMMA GcGoes ==
    ASSUME NEW s, NEW t, NEW n, NEW w, NEW d, GcMoves(s, t, n)
    PROVE  Goes(s, t, 0, w, d)
<1>1. /\ Tables(t) /\ t.raw = s.raw /\ t.put = s.put /\ t.owed = s.owed
      /\ \/ SameNs(s, t) /\ SameBody(s, t) /\ SameObj(s, t)
         \/ GcSendsNs(s, t, n) /\ SameBody(s, t) /\ SameObj(s, t)
         \/ SameNs(s, t) /\ GcSendsBody(s, t, n) /\ SameObj(s, t)
         \/ SameNs(s, t) /\ SameBody(s, t) /\ GcSendsObj(s, t, n)
  BY DEF GcMoves
<1>2. \A op : Sweeper(op).cid = 0 /\ Sweeper(op).op = op
  BY DEF Sweeper, Entry
<1>3. GcSendsNs(s, t, n) /\ SameBody(s, t) /\ SameObj(s, t) => SendsNs(s, t, 0, w, d)
  <2>1. \A op \in GcNs : op # "raw"
    BY DEF GcNs
  <2>2. QED
    BY <1>1, <1>2, <2>1 DEF GcSendsNs, SendsNs
<1>4. SameNs(s, t) /\ GcSendsBody(s, t, n) /\ SameObj(s, t) => SendsBody(s, t, 0, w, d)
  BY <1>1, <1>2 DEF GcSendsBody, SendsBody
<1>5. SameNs(s, t) /\ SameBody(s, t) /\ GcSendsObj(s, t, n) => SendsObj(s, t, 0, w, d)
  BY <1>1, <1>2 DEF GcSendsObj, SendsObj
<1>6. Outcome(s, t, 0, w, d)
  BY <1>1, <1>3, <1>4, <1>5 DEF Outcome, SendsNone
<1>7. SlotFrame(s, t, 0)
  BY <1>1 DEF SlotFrame
<1>8. Mine(t, 0) = {}
  BY <1>1 DEF Mine, Tables, Puts
<1>9. SlotsFit(t, 0, w)
  BY <1>8 DEF SlotsFit
<1>10. QED
  BY <1>1, <1>6, <1>7, <1>9 DEF Goes, RawFrame

\* What reads the slots, the raw plane's record and the answer owed alone.
LEMMA HoldsSame ==
    ASSUME NEW s, NEW t, t.put = s.put, t.raw = s.raw, t.owed = s.owed, NEW w, NEW d
    PROVE  /\ \A e, z : NsSaid(s, e, z, d) => NsSaid(t, e, z, d)
           /\ \A e, z : NsAsked(s, e, z, d) => NsAsked(t, e, z, d)
           /\ \A e : BodyFits(s, e, w, d) => BodyFits(t, e, w, d)
           /\ \A c : OwedHas(t, c) => OwedHas(s, c)
           /\ OwedTold(s, w, d) => OwedTold(t, w, d)
           /\ SlotsTold(s, w) => SlotsTold(t, w)
<1>1. \A c : Mine(t, c) = Mine(s, c)
  BY DEF Mine
<1>2. \A e, z : NsSaid(s, e, z, d) => NsSaid(t, e, z, d)
  BY DEF NsSaid, HoldsSlot
<1>3. \A e, z : NsAsked(s, e, z, d) => NsAsked(t, e, z, d)
  BY DEF NsAsked, HoldsSlot
<1>4. \A e : BodyFits(s, e, w, d) => BodyFits(t, e, w, d)
  BY <1>1 DEF BodyFits
<1>5. \A c : OwedHas(t, c) => OwedHas(s, c)
  BY DEF OwedHas
<1>6. OwedTold(s, w, d) => OwedTold(t, w, d)
  BY <1>1 DEF OwedTold, Owes, NotRaws
<1>7. SlotsTold(s, w) => SlotsTold(t, w)
  BY <1>1 DEF SlotsTold, SlotsFit
<1>8. QED
  BY <1>2, <1>3, <1>4, <1>5, <1>6, <1>7

\* A client whose entry is not the raw plane's does not wait for the raw plane.
LEMMA FitsNotRaw ==
    ASSUME NEW s, NEW w, NEW d, RawTold(s, w, d), NEW e, Fits(e, w), e.op \notin RawOp, e.op # "raw"
    PROVE  NotRaws(s, e.cid)
<1>1. \A op \in RawOp : AckOf(op) = op
  BY DEF RawOp, AckOf
<1>2. QED
  BY <1>1 DEF RawTold, RawFits, Fits, NotRaws

\* So its handler works for a client that waits.
LEMMA FitsWaits ==
    ASSUME NEW s, NEW w, NEW d, Tables(s), SlotsTold(s, w), RawTold(s, w, d), NEW e, Fits(e, w),
           e.op \notin RawOp, e.op # "raw"
    PROVE  Waits(s, e.cid, w)
<1>1. NotRaws(s, e.cid)
  BY FitsNotRaw
<1>2. e.cid \in Client /\ w[e.cid] # "none"
  BY DEF Fits
<1>3. QED
  BY <1>1, <1>2 DEF Waits, SlotsTold

\* The namespace's oldest answer, with its entry: what is left, and what the answer
\* says.
LEMMA PopNs ==
    ASSUME NEW s, NEW n, NEW a, NEW w, NEW d, Core(s, n, a), Told(s, a, w, d), s.owed = NoAnswer,
           a.ns # <<>>
    PROVE  LET t == [s EXCEPT !.nsPend = Tail(@)]
               b == [a EXCEPT !.ns = Tail(@)]
               e == Head(s.nsPend)
           IN  /\ Told(t, b, w, d) /\ t.owed = NoAnswer
               /\ e.cid # 0 => Absent(t, e.cid) /\ Fits(e, w) /\ NsSaid(t, e, Head(a.ns), d)
               /\ e.op = "raw" => e.cid = t.raw.cid
<1> DEFINE t == [s EXCEPT !.nsPend = Tail(@)]
           b == [a EXCEPT !.ns = Tail(@)]
           e == Head(s.nsPend)
<1>1. Tables(s) /\ Answers(a) /\ InOrderAnswers(s, a)
  BY DEF Core
<1>2. /\ t.nsPend = Tail(s.nsPend) /\ t.nsTx = s.nsTx /\ SameBody(s, t) /\ SameObj(s, t)
      /\ t.put = s.put /\ t.raw = s.raw /\ t.owed = s.owed
  BY <1>1 DEF Tables, IsRouter, SameBody, SameObj
<1>3. b.ns = Tail(a.ns) /\ b.body = a.body /\ b.obj = a.obj
  BY <1>1 DEF Answers
<1>4. Shifted(s.nsPend, s.nsTx, a.ns, t.nsPend, b.ns)
  <2>1. InStep(s.nsPend, s.nsTx, a.ns)
    BY <1>1 DEF InStep, Tables, Answers, InOrderAnswers
  <2> HIDE DEF t, b
  <2>2. QED
    BY <1>2, <1>3, <2>1, Shifts
<1> HIDE DEF t, b
<1>5. \A j \in 1..Len(t.nsPend) : NsShift(s, a, t, b, j)
  BY <1>4, Zenon DEF Shifted, NsShift
<1>6. \A i, j \in 1..Len(t.nsPend) : i + 1 = j + 1 => i = j
  BY <1>4 DEF Shifted
<1>7. e = s.nsPend[1] /\ Head(a.ns) = a.ns[1] /\ 1 \in 1..Len(s.nsPend) /\ 1 <= Len(a.ns)
  BY <1>4 DEF Shifted
<1> HIDE DEF e
<1>8. /\ SlotsTold(s, w) /\ NsTold(s, a, w, d) /\ BodyTold(s, a, w, d) /\ ObjTold(s, w, d)
      /\ RawTold(s, w, d) /\ OwedTold(s, w, d) /\ Alone(s)
  BY DEF Told
<1>9. /\ \A x, z : NsSaid(s, x, z, d) => NsSaid(t, x, z, d)
      /\ \A x, z : NsAsked(s, x, z, d) => NsAsked(t, x, z, d)
      /\ \A x : BodyFits(s, x, w, d) => BodyFits(t, x, w, d)
      /\ \A c : OwedHas(t, c) => OwedHas(s, c)
      /\ OwedTold(t, w, d) /\ SlotsTold(t, w)
  BY <1>2, <1>8, HoldsSame
<1>10. ASSUME NEW j \in 1..Len(t.nsPend) PROVE NsOf(t, b, w, d, j)
  <2>1. NsShift(s, a, t, b, j)
    BY <1>5
  <2>2. j + 1 \in 1..Len(s.nsPend)
    BY <2>1 DEF NsShift
  <2>3. NsOf(s, a, w, d, j + 1)
    BY <1>8, <2>2 DEF NsTold
  <2>4. QED
    BY <1>2, <1>9, <2>1, <2>3 DEF NsOf, NsShift
<1>11. BodyTold(t, b, w, d) /\ ObjTold(t, w, d)
  BY <1>2, <1>3, <1>8, <1>9 DEF BodyTold, BodyOf, ObjTold, ObjOf, SameBody, SameObj
<1>12. RawTold(t, w, d)
  BY <1>2, <1>5, <1>8 DEF RawTold, NsShift
<1>13. \A c : /\ NsHas(t, c) => NsHas(s, c)
              /\ BodyHas(t, c) => BodyHas(s, c)
              /\ ObjHas(t, c) => ObjHas(s, c)
  BY <1>2, <1>5 DEF NsHas, BodyHas, ObjHas, NsShift, SameBody, SameObj
<1>14. ASSUME NEW c \in Client PROVE AloneNs(t, c) /\ AloneBody(t, c) /\ AloneObj(t, c)
  <2>1. AloneNs(s, c) /\ AloneBody(s, c) /\ AloneObj(s, c)
    BY <1>8 DEF Alone
  <2>2. ASSUME NEW j \in 1..Len(t.nsPend), NEW k \in 1..Len(t.nsPend),
               t.nsPend[j].cid = c, t.nsPend[k].cid = c
        PROVE  j + 1 = k + 1
    <3>1. /\ j + 1 \in 1..Len(s.nsPend) /\ t.nsPend[j] = s.nsPend[j + 1]
          /\ k + 1 \in 1..Len(s.nsPend) /\ t.nsPend[k] = s.nsPend[k + 1]
      BY <1>5 DEF NsShift
    <3>2. QED
      BY <2>1, <2>2, <3>1 DEF AloneNs
  <2>3. \A j, k \in 1..Len(t.nsPend) : t.nsPend[j].cid = c /\ t.nsPend[k].cid = c => j = k
    BY <1>6, <2>2
  <2>4. AloneNs(t, c)
    BY <1>9, <1>13, <2>1, <2>3 DEF AloneNs
  <2>5. AloneBody(t, c) /\ AloneObj(t, c)
    BY <1>2, <1>9, <1>13, <2>1 DEF AloneBody, AloneObj, SameBody, SameObj
  <2>6. QED
    BY <2>4, <2>5
<1>15. Told(t, b, w, d)
  BY <1>9, <1>10, <1>11, <1>12, <1>14 DEF Told, NsTold, Alone
<1>16. ASSUME e.cid # 0 PROVE Absent(t, e.cid) /\ Fits(e, w) /\ NsSaid(t, e, Head(a.ns), d)
  <2>1. NsOf(s, a, w, d, 1)
    BY <1>7, <1>8 DEF NsTold
  <2>2. Fits(e, w) /\ NsSaid(t, e, Head(a.ns), d)
    BY <1>7, <1>9, <1>16, <2>1 DEF NsOf
  <2>3. AloneNs(s, e.cid) /\ NsHas(s, e.cid)
    BY <1>7, <1>8, <2>2 DEF Alone, Fits, NsHas
  <2>4. ~NsHas(t, e.cid)
    BY <1>5, <1>7, <2>3 DEF NsHas, NsShift, AloneNs
  <2>5. QED
    BY <1>9, <1>13, <2>2, <2>3, <2>4 DEF Absent, AloneNs
<1>17. e.op = "raw" => e.cid = t.raw.cid
  BY <1>2, <1>7, <1>8 DEF RawTold
<1>18. QED
  BY <1>2, <1>15, <1>16, <1>17 DEF t, b, e

\* The index's oldest answer, likewise.
LEMMA PopObj ==
    ASSUME NEW s, NEW n, NEW a, NEW w, NEW d, Core(s, n, a), Told(s, a, w, d), s.owed = NoAnswer,
           a.obj # <<>>
    PROVE  LET t == [s EXCEPT !.objPend = Tail(@)]
               b == [a EXCEPT !.obj = Tail(@)]
               e == Head(s.objPend)
           IN  /\ Told(t, b, w, d) /\ t.owed = NoAnswer
               /\ e.cid # 0 => Absent(t, e.cid) /\ Fits(e, w) /\ ~d[e.cid]
<1> DEFINE t == [s EXCEPT !.objPend = Tail(@)]
           b == [a EXCEPT !.obj = Tail(@)]
           e == Head(s.objPend)
<1>1. Tables(s) /\ Answers(a) /\ InOrderAnswers(s, a)
  BY DEF Core
<1>2. /\ t.objPend = Tail(s.objPend) /\ t.objTx = s.objTx /\ SameBody(s, t) /\ SameNs(s, t)
      /\ t.put = s.put /\ t.raw = s.raw /\ t.owed = s.owed
  BY <1>1 DEF Tables, IsRouter, SameBody, SameNs
<1>3. b.obj = Tail(a.obj) /\ b.body = a.body /\ b.ns = a.ns
  BY <1>1 DEF Answers
<1>4. Shifted(s.objPend, s.objTx, a.obj, t.objPend, b.obj)
  <2>1. InStep(s.objPend, s.objTx, a.obj)
    BY <1>1 DEF InStep, Tables, Answers, InOrderAnswers
  <2> HIDE DEF t, b
  <2>2. QED
    BY <1>2, <1>3, <2>1, Shifts
<1> HIDE DEF t, b
<1>5. \A j \in 1..Len(t.objPend) : ObjShift(s, a, t, b, j)
  BY <1>4, Zenon DEF Shifted, ObjShift
<1>6. \A i, j \in 1..Len(t.objPend) : i + 1 = j + 1 => i = j
  BY <1>4 DEF Shifted
<1>7. e = s.objPend[1] /\ 1 \in 1..Len(s.objPend)
  BY <1>4 DEF Shifted
<1> HIDE DEF e
<1>8. /\ SlotsTold(s, w) /\ NsTold(s, a, w, d) /\ BodyTold(s, a, w, d) /\ ObjTold(s, w, d)
      /\ RawTold(s, w, d) /\ OwedTold(s, w, d) /\ Alone(s)
  BY DEF Told
<1>9. /\ \A x, z : NsSaid(s, x, z, d) => NsSaid(t, x, z, d)
      /\ \A x, z : NsAsked(s, x, z, d) => NsAsked(t, x, z, d)
      /\ \A x : BodyFits(s, x, w, d) => BodyFits(t, x, w, d)
      /\ \A c : OwedHas(t, c) => OwedHas(s, c)
      /\ OwedTold(t, w, d) /\ SlotsTold(t, w)
  BY <1>2, <1>8, HoldsSame
<1>10. NsTold(t, b, w, d)
  BY <1>2, <1>3, <1>8, <1>9 DEF NsTold, NsOf, SameNs
<1>11. BodyTold(t, b, w, d)
  BY <1>2, <1>3, <1>8, <1>9 DEF BodyTold, BodyOf, SameBody
<1>12. RawTold(t, w, d)
  BY <1>2, <1>8 DEF RawTold, SameNs
<1>13. ASSUME NEW j \in 1..Len(t.objPend) PROVE ObjOf(t, w, d, j)
  <2>1. j + 1 \in 1..Len(s.objPend) /\ t.objPend[j] = s.objPend[j + 1]
    BY <1>5 DEF ObjShift
  <2>2. ObjOf(s, w, d, j + 1)
    BY <1>8, <2>1 DEF ObjTold
  <2>3. QED
    BY <2>1, <2>2 DEF ObjOf
<1>14. \A c : /\ NsHas(t, c) => NsHas(s, c)
              /\ BodyHas(t, c) => BodyHas(s, c)
              /\ ObjHas(t, c) => ObjHas(s, c)
  BY <1>2, <1>5 DEF NsHas, BodyHas, ObjHas, ObjShift, SameBody, SameNs
<1>15. ASSUME NEW c \in Client PROVE AloneNs(t, c) /\ AloneBody(t, c) /\ AloneObj(t, c)
  <2>1. AloneNs(s, c) /\ AloneBody(s, c) /\ AloneObj(s, c)
    BY <1>8 DEF Alone
  <2>2. ASSUME NEW j \in 1..Len(t.objPend), NEW k \in 1..Len(t.objPend),
               t.objPend[j].cid = c, t.objPend[k].cid = c
        PROVE  j + 1 = k + 1
    <3>1. /\ j + 1 \in 1..Len(s.objPend) /\ t.objPend[j] = s.objPend[j + 1]
          /\ k + 1 \in 1..Len(s.objPend) /\ t.objPend[k] = s.objPend[k + 1]
      BY <1>5 DEF ObjShift
    <3>2. QED
      BY <2>1, <2>2, <3>1 DEF AloneObj
  <2>3. \A j, k \in 1..Len(t.objPend) : t.objPend[j].cid = c /\ t.objPend[k].cid = c => j = k
    BY <1>6, <2>2
  <2>4. AloneObj(t, c)
    BY <1>9, <1>14, <2>1, <2>3 DEF AloneObj
  <2>5. AloneBody(t, c) /\ AloneNs(t, c)
    BY <1>2, <1>9, <1>14, <2>1 DEF AloneBody, AloneNs, SameBody, SameNs
  <2>6. QED
    BY <2>4, <2>5
<1>16. Told(t, b, w, d)
  BY <1>9, <1>10, <1>11, <1>12, <1>13, <1>15 DEF Told, Alone, ObjTold
<1>17. ASSUME e.cid # 0 PROVE Absent(t, e.cid) /\ Fits(e, w) /\ ~d[e.cid]
  <2>1. ObjOf(s, w, d, 1)
    BY <1>7, <1>8 DEF ObjTold
  <2>2. Fits(e, w) /\ ~d[e.cid]
    BY <1>7, <1>17, <2>1 DEF ObjOf
  <2>3. AloneNs(s, e.cid) /\ AloneBody(s, e.cid) /\ AloneObj(s, e.cid) /\ ObjHas(s, e.cid)
    BY <1>7, <1>8, <2>2 DEF Alone, Fits, ObjHas
  <2>4. ~ObjHas(t, e.cid)
    BY <1>5, <1>7, <2>3 DEF ObjHas, ObjShift, AloneObj
  <2>5. QED
    BY <1>9, <1>14, <2>2, <2>3, <2>4 DEF Absent, AloneNs, AloneBody, AloneObj
<1>18. QED
  BY <1>2, <1>16, <1>17 DEF t, b, e

\* An answer of the body plane's, with the entry that has its id, likewise.
LEMMA PopBody ==
    ASSUME NEW s, NEW n, NEW a, NEW w, NEW d, Core(s, n, a), Told(s, a, w, d), s.owed = NoAnswer,
           NEW r \in a.body, NEW p \in s.bodyPend, p.id = r.id
    PROVE  LET t == [s EXCEPT !.bodyPend = @ \ {p}]
               b == [a EXCEPT !.body = @ \ {r}]
               e == p.e
           IN  /\ Told(t, b, w, d) /\ t.owed = NoAnswer /\ t.raw = s.raw
               /\ e.cid # 0 => Absent(t, e.cid) /\ BodyFits(t, e, w, d)
               /\ e.cid # 0 /\ e.op \in RawOp => (d[e.cid] <=> r.a.v = "ok")
<1> DEFINE t == [s EXCEPT !.bodyPend = @ \ {p}]
           b == [a EXCEPT !.body = @ \ {r}]
           e == p.e
<1>1. Tables(s) /\ Answers(a)
  BY DEF Core
<1>2. /\ t.bodyPend = s.bodyPend \ {p} /\ t.bodyTx = s.bodyTx /\ SameNs(s, t) /\ SameObj(s, t)
      /\ t.put = s.put /\ t.raw = s.raw /\ t.owed = s.owed
  BY <1>1 DEF Tables, IsRouter, SameNs, SameObj
<1>3. b.body = a.body \ {r} /\ b.ns = a.ns /\ b.obj = a.obj
  BY <1>1 DEF Answers
<1> HIDE DEF t, b
<1>4. /\ SlotsTold(s, w) /\ NsTold(s, a, w, d) /\ BodyTold(s, a, w, d) /\ ObjTold(s, w, d)
      /\ RawTold(s, w, d) /\ OwedTold(s, w, d) /\ Alone(s)
  BY DEF Told
<1>5. /\ \A x, z : NsSaid(s, x, z, d) => NsSaid(t, x, z, d)
      /\ \A x, z : NsAsked(s, x, z, d) => NsAsked(t, x, z, d)
      /\ \A x : BodyFits(s, x, w, d) => BodyFits(t, x, w, d)
      /\ \A c : OwedHas(t, c) => OwedHas(s, c)
      /\ OwedTold(t, w, d) /\ SlotsTold(t, w)
  BY <1>2, <1>4, HoldsSame
<1>6. NsTold(t, b, w, d)
  BY <1>2, <1>3, <1>4, <1>5 DEF NsTold, NsOf, SameNs
<1>7. ASSUME NEW x \in t.bodyPend PROVE BodyOf(t, b, w, d, x)
  <2>1. BodyOf(s, a, w, d, x)
    BY <1>2, <1>4 DEF BodyTold
  <2>2. QED
    BY <1>2, <1>3, <1>5, <2>1 DEF BodyOf
<1>8. ObjTold(t, w, d)
  BY <1>2, <1>4 DEF ObjTold, ObjOf, SameObj
<1>9. RawTold(t, w, d)
  BY <1>2, <1>4 DEF RawTold, SameNs
<1>10. \A c : /\ NsHas(t, c) => NsHas(s, c)
              /\ BodyHas(t, c) => BodyHas(s, c)
              /\ ObjHas(t, c) => ObjHas(s, c)
  BY <1>2 DEF NsHas, BodyHas, ObjHas, SameObj, SameNs
<1>11. ASSUME NEW c \in Client PROVE AloneNs(t, c) /\ AloneBody(t, c) /\ AloneObj(t, c)
  <2>1. AloneNs(s, c) /\ AloneBody(s, c) /\ AloneObj(s, c)
    BY <1>4 DEF Alone
  <2>2. AloneBody(t, c)
    BY <1>2, <1>5, <1>10, <2>1 DEF AloneBody
  <2>3. AloneNs(t, c) /\ AloneObj(t, c)
    BY <1>2, <1>5, <1>10, <2>1 DEF AloneNs, AloneObj, SameNs, SameObj
  <2>4. QED
    BY <2>2, <2>3
<1>12. Told(t, b, w, d)
  BY <1>5, <1>6, <1>7, <1>8, <1>9, <1>11 DEF Told, BodyTold, Alone
<1>13. ASSUME e.cid # 0
       PROVE  /\ Absent(t, e.cid) /\ BodyFits(t, e, w, d)
              /\ e.op \in RawOp => (d[e.cid] <=> r.a.v = "ok")
  <2>1. BodyOf(s, a, w, d, p)
    BY <1>4 DEF BodyTold
  <2>2. BodyFits(s, e, w, d) /\ (e.op \in RawOp => (d[e.cid] <=> r.a.v = "ok"))
    BY <1>13, <2>1 DEF BodyOf
  <2>3. AloneNs(s, e.cid) /\ AloneBody(s, e.cid) /\ AloneObj(s, e.cid) /\ BodyHas(s, e.cid)
    BY <1>4, <2>2 DEF Alone, BodyFits, Fits, BodyHas
  <2>4. ~BodyHas(t, e.cid)
    BY <1>2, <2>3 DEF BodyHas, AloneBody
  <2>5. QED
    BY <1>5, <1>10, <2>2, <2>3, <2>4 DEF Absent, AloneNs, AloneBody
<1>14. QED
  BY <1>2, <1>12, <1>13 DEF t, b

-----------------------------------------------------------------------------
(* What clients ask, and what was carried out, change.                       *)

\* Of an entry, only what its client asks and had carried out is told.
LEMMA Agree ==
    ASSUME NEW s, NEW e, NEW w, NEW v, NEW d, NEW f, v[e.cid] = w[e.cid], f[e.cid] = d[e.cid]
    PROVE  /\ Fits(e, w) => Fits(e, v)
           /\ \A z : NsSaid(s, e, z, d) => NsSaid(s, e, z, f)
           /\ \A z : NsAsked(s, e, z, d) => NsAsked(s, e, z, f)
           /\ BodyFits(s, e, w, d) => BodyFits(s, e, v, f)
           /\ \A z : BodyAsked(e, z, d) => BodyAsked(e, z, f)
<1>1. Fits(e, w) => Fits(e, v)
  BY DEF Fits
<1>2. \A z : NsSaid(s, e, z, d) => NsSaid(s, e, z, f)
  BY DEF NsSaid
<1>3. \A z : NsAsked(s, e, z, d) => NsAsked(s, e, z, f)
  BY DEF NsAsked
<1>4. BodyFits(s, e, w, d) => BodyFits(s, e, v, f)
  BY <1>1 DEF BodyFits
<1>5. \A z : BodyAsked(e, z, d) => BodyAsked(e, z, f)
  BY DEF BodyAsked
<1>6. QED
  BY <1>1, <1>2, <1>3, <1>4, <1>5

\* The same of a whole place: each entry's client asks what it asked.
Alike(s, w, v, d, f, c) ==
    /\ \A b \in Client : b # c => v[b] = w[b] /\ f[b] = d[b]
    /\ \A j \in 1..Len(s.nsPend) : s.nsPend[j].cid # c
    /\ \A p \in s.bodyPend : p.e.cid # c
    /\ \A j \in 1..Len(s.objPend) : s.objPend[j].cid # c

\* A client that waits for nothing may change its mind.
LEMMA Unheard ==
    ASSUME NEW s, NEW a, NEW w, NEW v, NEW d, NEW f, NEW c \in Client, Told(s, a, w, d),
           \A b \in Client : b # c => v[b] = w[b] /\ f[b] = d[b],
           Absent(s, c), Mine(s, c) = {}, NotRaws(s, c)
    PROVE  Told(s, a, v, f)
<1>1. /\ SlotsTold(s, w) /\ NsTold(s, a, w, d) /\ BodyTold(s, a, w, d) /\ ObjTold(s, w, d)
      /\ RawTold(s, w, d) /\ OwedTold(s, w, d) /\ Alone(s)
  BY DEF Told
<1>2. Alike(s, w, v, d, f, c)
  BY AbsentOther DEF Alike
<1>3. SlotsTold(s, v)
  <2>1. ASSUME NEW b \in Client PROVE SlotsFit(s, b, v)
    BY <1>1 DEF SlotsTold, SlotsFit
  <2>2. QED
    BY <1>1, <2>1 DEF SlotsTold
<1>4. ASSUME NEW j \in 1..Len(s.nsPend) PROVE NsOf(s, a, v, f, j)
  <2> DEFINE e == s.nsPend[j]
  <2>1. NsOf(s, a, w, d, j) /\ e.cid # c
    BY <1>1, <1>2 DEF NsTold, Alike
  <2>2. e.cid # 0 => v[e.cid] = w[e.cid] /\ f[e.cid] = d[e.cid]
    BY <2>1 DEF NsOf, Fits
  <2>3. e.cid # 0 => /\ Fits(e, w) => Fits(e, v)
                     /\ \A z : NsSaid(s, e, z, d) => NsSaid(s, e, z, f)
                     /\ \A z : NsAsked(s, e, z, d) => NsAsked(s, e, z, f)
    BY <2>2, Agree
  <2>4. QED
    BY <2>1, <2>3 DEF NsOf
<1>5. ASSUME NEW p \in s.bodyPend PROVE BodyOf(s, a, v, f, p)
  <2>1. BodyOf(s, a, w, d, p) /\ p.e.cid # c
    BY <1>1, <1>2 DEF BodyTold, Alike
  <2>2. p.e.cid # 0 => v[p.e.cid] = w[p.e.cid] /\ f[p.e.cid] = d[p.e.cid]
    BY <2>1 DEF BodyOf, BodyFits, Fits
  <2>3. p.e.cid # 0 => /\ BodyFits(s, p.e, w, d) => BodyFits(s, p.e, v, f)
                       /\ \A z : BodyAsked(p.e, z, d) => BodyAsked(p.e, z, f)
    BY <2>2, Agree
  <2>4. QED
    BY <2>1, <2>2, <2>3 DEF BodyOf
<1>6. ASSUME NEW j \in 1..Len(s.objPend) PROVE ObjOf(s, v, f, j)
  <2>1. ObjOf(s, w, d, j) /\ s.objPend[j].cid # c
    BY <1>1, <1>2 DEF ObjTold, Alike
  <2>2. QED
    BY <2>1 DEF ObjOf, Fits
<1>7. RawTold(s, v, f)
  BY <1>1 DEF RawTold, RawFits, NotRaws
<1>8. OwedTold(s, v, f)
  BY <1>1 DEF OwedTold, Owes, Absent, OwedHas
<1>9. QED
  BY <1>1, <1>3, <1>4, <1>5, <1>6, <1>7, <1>8 DEF Told, NsTold, BodyTold, ObjTold

\* A client that asks nothing has nothing on the way.
LEMMA Unasked ==
    ASSUME NEW s, NEW a, NEW w, NEW d, NEW c \in Client, Tables(s), Told(s, a, w, d),
           s.owed = NoAnswer, w[c] = "none"
    PROVE  Absent(s, c) /\ Mine(s, c) = {} /\ NotRaws(s, c)
<1>1. /\ SlotsTold(s, w) /\ NsTold(s, a, w, d) /\ BodyTold(s, a, w, d) /\ ObjTold(s, w, d)
      /\ RawTold(s, w, d)
  BY DEF Told
<1>2. c # 0
  BY ClientNot0
<1>3. ~NsHas(s, c)
  BY <1>1, <1>2 DEF NsHas, NsTold, NsOf, Fits
<1>4. ~BodyHas(s, c)
  BY <1>1, <1>2 DEF BodyHas, BodyTold, BodyOf, BodyFits, Fits
<1>5. ~ObjHas(s, c)
  BY <1>1, <1>2 DEF ObjHas, ObjTold, ObjOf, Fits
<1>6. ~OwedHas(s, c)
  BY DEF OwedHas
<1>7. ASSUME NEW i \in Mine(s, c) PROVE FALSE
  <2>1. s.put[i].op = AckOf("none") /\ s.put[i].op \in Composed
    BY <1>1, <1>7 DEF SlotsTold, SlotsFit, Mine, Tables, Puts
  <2>2. QED
    BY <2>1 DEF AckOf, Composed
<1>8. NotRaws(s, c)
  BY <1>1 DEF RawTold, RawFits, NotRaws, RawOp
<1>9. QED
  BY <1>3, <1>4, <1>5, <1>6, <1>7, <1>8 DEF Absent

\* An answer that is delivered frees its client.
LEMMA Delivered ==
    ASSUME NEW s, NEW a, NEW w, NEW v, NEW d, Tables(s), Told(s, a, w, d), s.owed # NoAnswer,
           NEW t, t = [s EXCEPT !.owed = NoAnswer],
           \A b \in Client : b # s.owed.cid => v[b] = w[b]
    PROVE  Told(t, a, v, d)
<1> DEFINE c == s.owed.cid
<1>1. /\ SlotsTold(s, w) /\ NsTold(s, a, w, d) /\ BodyTold(s, a, w, d) /\ ObjTold(s, w, d)
      /\ RawTold(s, w, d) /\ OwedTold(s, w, d) /\ Alone(s)
  BY DEF Told
<1>2. /\ SameNs(s, t) /\ SameBody(s, t) /\ SameObj(s, t)
      /\ t.put = s.put /\ t.raw = s.raw /\ t.owed = NoAnswer
  BY DEF Tables, IsRouter, SameNs, SameBody, SameObj
<1>3. c \in Client /\ Mine(s, c) = {} /\ NotRaws(s, c)
  BY <1>1 DEF OwedTold, Owes
<1>4. OwedHas(s, c)
  BY DEF OwedHas
<1> HIDE DEF c
<1>5. \A x : Mine(t, x) = Mine(s, x)
  BY <1>2 DEF Mine
<1>6. SlotsTold(t, w)
  BY <1>1, <1>2, <1>5 DEF SlotsTold, SlotsFit
<1>7. /\ \A e, z : NsSaid(s, e, z, d) => NsSaid(t, e, z, d)
      /\ \A e, z : NsAsked(s, e, z, d) => NsAsked(t, e, z, d)
  BY <1>2 DEF NsSaid, NsAsked, HoldsSlot
<1>8. \A e : BodyFits(s, e, w, d) => BodyFits(t, e, w, d)
  BY <1>2, <1>5 DEF BodyFits
<1>9. NsTold(t, a, w, d)
  BY <1>1, <1>2, <1>7 DEF NsTold, NsOf, SameNs
<1>10. BodyTold(t, a, w, d)
  BY <1>1, <1>2, <1>8 DEF BodyTold, BodyOf, SameBody
<1>11. ObjTold(t, w, d) /\ RawTold(t, w, d) /\ OwedTold(t, w, d)
  BY <1>1, <1>2 DEF ObjTold, ObjOf, SameObj, SameNs, RawTold, OwedTold
<1>12. \A x : /\ NsHas(t, x) <=> NsHas(s, x)
              /\ BodyHas(t, x) <=> BodyHas(s, x)
              /\ ObjHas(t, x) <=> ObjHas(s, x)
              /\ ~OwedHas(t, x)
  BY <1>2 DEF NsHas, BodyHas, ObjHas, OwedHas, SameNs, SameBody, SameObj
<1>13. Alone(t)
  <2>1. ASSUME NEW x \in Client PROVE AloneNs(t, x) /\ AloneBody(t, x) /\ AloneObj(t, x)
    <3>1. AloneNs(s, x) /\ AloneBody(s, x) /\ AloneObj(s, x)
      BY <1>1 DEF Alone
    <3>2. QED
      BY <1>2, <1>12, <3>1 DEF AloneNs, AloneBody, AloneObj, SameNs, SameBody, SameObj
  <2>2. QED
    BY <2>1 DEF Alone
<1>14. Told(t, a, w, d)
  BY <1>6, <1>9, <1>10, <1>11, <1>13 DEF Told
<1>15. Absent(t, c) /\ Mine(t, c) = {} /\ NotRaws(t, c)
  <2>1. AloneNs(s, c) /\ AloneBody(s, c) /\ AloneObj(s, c)
    BY <1>1, <1>3 DEF Alone
  <2>2. ~NsHas(s, c) /\ ~BodyHas(s, c) /\ ~ObjHas(s, c)
    BY <1>4, <2>1 DEF AloneNs, AloneBody, AloneObj
  <2>3. QED
    BY <1>2, <1>3, <1>5, <1>12, <2>2 DEF Absent, NotRaws
<1>16. \A b \in Client : b # c => v[b] = w[b] /\ d[b] = d[b]
  BY DEF c
<1>17. QED
  BY <1>3, <1>14, <1>15, <1>16, Unheard

-----------------------------------------------------------------------------
(* The planes' steps.                                                        *)

\* What was carried out, after a plane took request q.
Marks(d, f, q, ok) ==
    IF q.cid # 0 /\ q.op \in Writes /\ ok
    THEN \A b \in Client : f[b] = IF b = q.cid THEN TRUE ELSE d[b]
    ELSE f = d
\* Entry e's client is the only one whose write may have been.
Only(s, d, f, e) ==
    \/ f = d
    \/ /\ e.cid \in Client /\ NotRaws(s, e.cid) /\ \A b \in Client : b # e.cid => f[b] = d[b]

\* The namespace carries out the oldest request: its answer says so.
LEMMA NsCarriesTold ==
    ASSUME NEW s, NEW n, NEW a, NEW w, NEW d, NEW f, NEW x, Core(s, n, a), Told(s, a, w, d),
           s.nsTx # <<>>, Marks(d, f, Head(s.nsTx), x.v = "ok"),
           NEW t, t = [s EXCEPT !.nsTx = Tail(@)], NEW b, b = [a EXCEPT !.ns = Append(@, x)]
    PROVE  Told(t, b, w, f)
<1> DEFINE q == Head(s.nsTx)
           k == Len(a.ns) + 1
           e == s.nsPend[k]
<1>1. /\ Tables(s) /\ Answers(a) /\ InOrderAnswers(s, a) /\ NsOne(s, n, a)
  BY DEF Core, Sweeps
<1>2. /\ t.nsTx = Tail(s.nsTx) /\ t.nsPend = s.nsPend /\ SameBody(s, t) /\ SameObj(s, t)
      /\ t.put = s.put /\ t.raw = s.raw /\ t.owed = s.owed
  BY <1>1 DEF Tables, IsRouter, SameBody, SameObj
<1>3. b.ns = Append(a.ns, x) /\ b.body = a.body /\ b.obj = a.obj
  BY <1>1 DEF Answers
<1>4. Passes(s.nsPend, s.nsTx, a.ns, x, t.nsTx, b.ns)
  <2>1. InStep(s.nsPend, s.nsTx, a.ns)
    BY <1>1 DEF InStep, Tables, Answers, InOrderAnswers
  <2>2. QED
    BY <1>2, <1>3, <2>1, InStepPasses
<1>5. /\ SlotsTold(s, w) /\ NsTold(s, a, w, d) /\ BodyTold(s, a, w, d) /\ ObjTold(s, w, d)
      /\ RawTold(s, w, d) /\ OwedTold(s, w, d) /\ Alone(s)
  BY DEF Told
<1>6. k \in 1..Len(s.nsPend) /\ ~(k <= Len(a.ns)) /\ s.nsTx[k - Len(a.ns)] = q
  <2>1. k \in 1..Len(s.nsPend) /\ s.nsTx[1] = q
    BY <1>4 DEF Passes
  <2>2. Len(a.ns) \in Nat
    BY <1>1, IsSeqLen DEF Answers
  <2>3. ~(k <= Len(a.ns)) /\ k - Len(a.ns) = 1
    BY <2>2
  <2>4. QED
    BY <2>1, <2>3
<1>7. NsEntry(e)
  BY <1>1, <1>6 DEF InOrderAnswers
<1> HIDE DEF k
<1>8. e.cid = 0 => f = d
  <2>1. SUFFICES ASSUME e.cid = 0 PROVE q.op \notin Writes
    BY DEF Marks
  <2>2. Asks(s, e.op, q) /\ e.op \in GcNs
    BY <1>1, <1>6, <1>7, <2>1 DEF NsOne, NsEntry
  <2>3. QED
    BY <2>2 DEF Asks, GcNs, Writes
<1>9. e.cid # 0 => Fits(e, w) /\ NsAsked(s, e, q, d)
  BY <1>5, <1>6 DEF NsTold, NsOf
<1>10. e.op = "raw" => f = d
  BY <1>8, <1>9 DEF NsAsked, Marks
<1>11. e.cid # 0 /\ e.op # "raw" => q.cid = e.cid /\ ~d[e.cid] /\ e.op \notin RawOp
  BY <1>7, <1>9 DEF NsAsked, NsEntry, Composed, GcNs, RawOp
<1>12. Only(s, d, f, e)
  <2>1. CASE e.cid = 0 \/ e.op = "raw"
    BY <1>8, <1>10, <2>1 DEF Only
  <2>2. CASE e.cid # 0 /\ e.op # "raw"
    <3>1. NotRaws(s, e.cid) /\ e.cid \in Client
      BY <1>5, <1>9, <1>11, <2>2, FitsNotRaw DEF Fits
    <3>2. QED
      BY <1>11, <2>2, <3>1 DEF Only, Marks
  <2>3. QED
    BY <2>1, <2>2
<1>13. e.cid # 0 => NsSaid(s, e, x, f)
  <2>1. CASE e.op = "raw"
    BY <2>1 DEF NsSaid, Composed
  <2>2. CASE e.cid # 0 /\ e.op # "raw"
    <3>1. e.cid \in Client /\ q.cid = e.cid /\ ~d[e.cid]
      BY <1>9, <1>11, <2>2 DEF Fits
    <3>2. f[e.cid] <=> q.op \in Writes /\ x.v = "ok"
      BY <2>2, <3>1 DEF Marks
    <3>3. /\ e.op \in Composed /\ HoldsSlot(s, e) =>
                q.op = s.put[e.i].stage /\ q.op \in {"lookup", "bind", "unbind", "retain"}
          /\ e.op \in {"bind", "commit"} => q.op = e.op
      BY <1>9, <2>2 DEF NsAsked
    <3>4. QED
      BY <3>2, <3>3 DEF NsSaid, Writes
  <2>3. QED
    BY <2>1, <2>2
<1> HIDE DEF e, q
<1>14. /\ \A y, z : NsSaid(s, y, z, f) => NsSaid(t, y, z, f)
       /\ \A y, z : NsAsked(s, y, z, f) => NsAsked(t, y, z, f)
       /\ \A y : BodyFits(s, y, w, f) => BodyFits(t, y, w, f)
       /\ \A c : OwedHas(t, c) => OwedHas(s, c)
       /\ OwedTold(s, w, f) => OwedTold(t, w, f)
       /\ SlotsTold(s, w) => SlotsTold(t, w)
  BY <1>2, HoldsSame
<1>15. \A c \in Client : c # e.cid \/ f = d => f[c] = d[c]
  BY <1>12 DEF Only
<1>16. f = d \/ /\ e.cid \in Client /\ NsHas(s, e.cid) /\ AloneNs(s, e.cid)
                /\ \A j \in 1..Len(s.nsPend) : s.nsPend[j].cid = e.cid => j = k
  <2>1. s.nsPend[k].cid = e.cid
    BY DEF e
  <2>2. NsHas(s, e.cid)
    BY <1>6, <2>1 DEF NsHas
  <2>3. e.cid \in Client => AloneNs(s, e.cid)
    BY <1>5 DEF Alone
  <2>4. QED
    BY <1>6, <1>12, <2>1, <2>2, <2>3 DEF Only, AloneNs
<1>17. ASSUME NEW j \in 1..Len(s.nsPend) PROVE NsOf(t, b, w, f, j)
  <2> DEFINE y == s.nsPend[j]
  <2>1. NsOf(s, a, w, d, j) /\ Passed(s.nsPend, s.nsTx, a.ns, x, t.nsTx, b.ns, j)
    BY <1>4, <1>5 DEF NsTold, Passes
  <2>2. CASE j = k
    <3>1. j <= Len(b.ns) /\ b.ns[j] = x
      BY <1>6, <2>2, <1>3, <1>1, SeqAppend DEF Answers, k
    <3>2. y = e
      BY <2>2 DEF e
    <3>3. QED
      BY <1>2, <1>9, <1>13, <1>14, <3>1, <3>2 DEF NsOf
  <2>3. CASE j # k
    <3>1. \/ j <= Len(a.ns) /\ j <= Len(b.ns) /\ b.ns[j] = a.ns[j]
          \/ /\ ~(j <= Len(a.ns)) /\ ~(j <= Len(b.ns))
             /\ t.nsTx[j - Len(b.ns)] = s.nsTx[j - Len(a.ns)]
      <4>1. Len(a.ns) \in Nat /\ Len(b.ns) = Len(a.ns) + 1
        BY <1>1, <1>3, IsSeqLen, SeqAppend DEF Answers
      <4>2. ~(j <= Len(a.ns)) => ~(j <= Len(b.ns))
        BY <2>3, <4>1 DEF k
      <4>3. QED
        BY <2>1, <4>2 DEF Passed
    <3>2. y.cid # 0 => f[y.cid] = d[y.cid]
      BY <1>15, <1>16, <2>1, <2>3 DEF NsOf, Fits
    <3>3. y.cid # 0 => /\ \A z : NsSaid(s, y, z, d) => NsSaid(s, y, z, f)
                       /\ \A z : NsAsked(s, y, z, d) => NsAsked(s, y, z, f)
      BY <3>2, Agree
    <3>4. QED
      BY <1>2, <1>14, <2>1, <3>1, <3>3 DEF NsOf
  <2>4. QED
    BY <2>2, <2>3
<1>18. f # d => /\ \A p \in s.bodyPend : p.e.cid # e.cid
                /\ \A j \in 1..Len(s.objPend) : s.objPend[j].cid # e.cid
                /\ ~OwedHas(s, e.cid)
  BY <1>16 DEF AloneNs, BodyHas, ObjHas
<1>19. ASSUME NEW p \in s.bodyPend PROVE BodyOf(t, b, w, f, p)
  <2>1. BodyOf(s, a, w, d, p)
    BY <1>5 DEF BodyTold
  <2>2. p.e.cid # 0 => f[p.e.cid] = d[p.e.cid]
    BY <1>15, <1>18, <2>1 DEF BodyOf, BodyFits, Fits
  <2>3. p.e.cid # 0 => /\ BodyFits(s, p.e, w, d) => BodyFits(s, p.e, w, f)
                       /\ \A z : BodyAsked(p.e, z, d) => BodyAsked(p.e, z, f)
    BY <2>2, Agree
  <2>4. QED
    BY <1>2, <1>3, <1>14, <2>1, <2>2, <2>3 DEF BodyOf, SameBody
<1>20. ASSUME NEW j \in 1..Len(s.objPend) PROVE ObjOf(t, w, f, j)
  <2>1. ObjOf(s, w, d, j)
    BY <1>5 DEF ObjTold
  <2>2. s.objPend[j].cid # 0 => f[s.objPend[j].cid] = d[s.objPend[j].cid]
    BY <1>15, <1>18, <2>1 DEF ObjOf, Fits
  <2>3. QED
    BY <1>2, <2>1, <2>2 DEF ObjOf, SameObj
<1>21. RawTold(t, w, f)
  <2>1. s.raw.stage # "idle" => RawFits(s.raw, w, f)
    BY <1>5, <1>12 DEF RawTold, RawFits, Only, NotRaws
  <2>2. QED
    BY <1>2, <1>5, <2>1 DEF RawTold
<1>22. OwedTold(s, w, f)
  BY <1>5, <1>15, <1>18 DEF OwedTold, Owes, OwedHas
<1>23. ASSUME NEW c \in Client PROVE AloneNs(t, c) /\ AloneBody(t, c) /\ AloneObj(t, c)
  <2>1. AloneNs(s, c) /\ AloneBody(s, c) /\ AloneObj(s, c)
    BY <1>5 DEF Alone
  <2>2. /\ NsHas(t, c) => NsHas(s, c)
        /\ BodyHas(t, c) => BodyHas(s, c)
        /\ ObjHas(t, c) => ObjHas(s, c)
        /\ OwedHas(t, c) => OwedHas(s, c)
    BY <1>2, <1>14 DEF NsHas, BodyHas, ObjHas, SameBody, SameObj
  <2>3. AloneNs(t, c)
    BY <1>2, <2>1, <2>2 DEF AloneNs
  <2>4. AloneBody(t, c)
    BY <1>2, <2>1, <2>2 DEF AloneBody, SameBody
  <2>5. AloneObj(t, c)
    BY <1>2, <2>1, <2>2 DEF AloneObj, SameObj
  <2>6. QED
    BY <2>3, <2>4, <2>5
<1>24. NsTold(t, b, w, f) /\ BodyTold(t, b, w, f) /\ ObjTold(t, w, f)
  BY <1>2, <1>17, <1>19, <1>20 DEF NsTold, BodyTold, ObjTold, SameBody, SameObj
<1>25. QED
  BY <1>5, <1>14, <1>21, <1>22, <1>23, <1>24 DEF Told, Alone

\* The index carries out the oldest request, or fails it.
LEMMA ObjCarriesTold ==
    ASSUME NEW s, NEW n, NEW a, NEW w, NEW d, NEW x, Core(s, n, a), Told(s, a, w, d),
           NEW t, t = [s EXCEPT !.objTx = Tail(@)], NEW b, b = [a EXCEPT !.obj = Append(@, x)]
    PROVE  Told(t, b, w, d)
<1>1. Tables(s) /\ Answers(a)
  BY DEF Core
<1>2. /\ t.objPend = s.objPend /\ SameBody(s, t) /\ SameNs(s, t)
      /\ t.put = s.put /\ t.raw = s.raw /\ t.owed = s.owed
  BY <1>1 DEF Tables, IsRouter, SameBody, SameNs
<1>3. b.ns = a.ns /\ b.body = a.body
  BY <1>1 DEF Answers
<1>5. /\ SlotsTold(s, w) /\ NsTold(s, a, w, d) /\ BodyTold(s, a, w, d) /\ ObjTold(s, w, d)
      /\ RawTold(s, w, d) /\ OwedTold(s, w, d) /\ Alone(s)
  BY DEF Told
<1>6. /\ \A y, z : NsSaid(s, y, z, d) => NsSaid(t, y, z, d)
      /\ \A y, z : NsAsked(s, y, z, d) => NsAsked(t, y, z, d)
      /\ \A y : BodyFits(s, y, w, d) => BodyFits(t, y, w, d)
      /\ \A c : OwedHas(t, c) => OwedHas(s, c)
      /\ OwedTold(t, w, d) /\ SlotsTold(t, w)
  BY <1>2, <1>5, HoldsSame
<1>7. NsTold(t, b, w, d)
  BY <1>2, <1>3, <1>5, <1>6 DEF NsTold, NsOf, SameNs
<1>8. BodyTold(t, b, w, d)
  <2>1. ASSUME NEW p \in s.bodyPend PROVE BodyOf(t, b, w, d, p)
    <3>1. BodyOf(s, a, w, d, p)
      BY <1>5 DEF BodyTold
    <3>2. QED
      BY <1>2, <1>3, <1>6, <3>1 DEF BodyOf, SameBody
  <2>2. QED
    BY <1>2, <2>1 DEF BodyTold, SameBody
<1>9. ObjTold(t, w, d) /\ RawTold(t, w, d)
  BY <1>2, <1>5 DEF ObjTold, ObjOf, RawTold, SameNs
<1>10. ASSUME NEW c \in Client PROVE AloneNs(t, c) /\ AloneBody(t, c) /\ AloneObj(t, c)
  <2>1. AloneNs(s, c) /\ AloneBody(s, c) /\ AloneObj(s, c)
    BY <1>5 DEF Alone
  <2>2. /\ NsHas(t, c) => NsHas(s, c)
        /\ BodyHas(t, c) => BodyHas(s, c)
        /\ ObjHas(t, c) => ObjHas(s, c)
        /\ OwedHas(t, c) => OwedHas(s, c)
    BY <1>2, <1>6 DEF NsHas, BodyHas, ObjHas, SameBody, SameNs
  <2>3. AloneNs(t, c)
    BY <1>2, <2>1, <2>2 DEF AloneNs, SameNs
  <2>4. AloneBody(t, c)
    BY <1>2, <2>1, <2>2 DEF AloneBody, SameBody
  <2>5. AloneObj(t, c)
    BY <1>2, <2>1, <2>2 DEF AloneObj
  <2>6. QED
    BY <2>3, <2>4, <2>5
<1>11. QED
  BY <1>6, <1>7, <1>8, <1>9, <1>10 DEF Told, Alone

\* The body plane carries out the oldest request, or fails it: the raw plane's
\* client is told which.
LEMMA BodyCarriesTold ==
    ASSUME NEW s, NEW n, NEW a, NEW w, NEW d, NEW f, NEW x, Core(s, n, a), Told(s, a, w, d),
           s.bodyTx # <<>>, Marks(d, f, Head(s.bodyTx), x.v = "ok"),
           NEW t, NEW b, NEW y, y.id = Head(s.bodyTx).id, y.a = x,
           t.bodyTx = Tail(s.bodyTx), t.bodyPend = s.bodyPend, SameNs(s, t), SameObj(s, t),
           t.put = s.put, t.raw = s.raw, t.owed = s.owed,
           b.body = a.body \cup {y}, b.ns = a.ns
    PROVE  Told(t, b, w, f)
<1> DEFINE q == Head(s.bodyTx)
<1>1. Tables(s) /\ Answers(a) /\ ById(s, a) /\ RawOne(s) /\ BodyOne(s, n, a)
  BY DEF Core, Sweeps
<1>2. /\ q = s.bodyTx[1] /\ 1 \in 1..Len(s.bodyTx)
      /\ \A i \in 1..Len(t.bodyTx) : i + 1 \in 1..Len(s.bodyTx) /\ i + 1 # 1
                                     /\ t.bodyTx[i] = s.bodyTx[i + 1]
  <2> DEFINE v == s.bodyTx
             u == t.bodyTx
  <2>1. IsSeq(v) /\ v # <<>> /\ u = Tail(v)
    BY <1>1 DEF Tables
  <2> HIDE DEF v, u
  <2>2. /\ IsSeq(u) /\ Len(u) = Len(v) - 1 /\ Len(v) \in Nat \ {0}
        /\ \A i \in 1..(Len(v) - 1) : u[i] = v[i + 1]
        /\ Head(v) = v[1]
    BY <2>1, SeqTail
  <2>3. Len(u) = Len(v) - 1 /\ Len(v) \in Nat \ {0}
    BY <2>2
  <2>4. /\ \A i \in 1..Len(u) : i + 1 \in 1..Len(v) /\ i + 1 # 1 /\ i \in 1..(Len(v) - 1)
        /\ 1 \in 1..Len(v)
    BY <2>3
  <2>5. \A i \in 1..Len(u) : u[i] = v[i + 1]
    BY <2>2, <2>4
  <2>6. QED
    BY <2>2, <2>4, <2>5 DEF v, u
<1>3. PICK o \in s.bodyPend : o.id = q.id /\ (o.e.cid = 0 <=> q.cid = 0)
  BY <1>1, <1>2 DEF ById
<1>4. /\ SlotsTold(s, w) /\ NsTold(s, a, w, d) /\ BodyTold(s, a, w, d) /\ ObjTold(s, w, d)
      /\ RawTold(s, w, d) /\ OwedTold(s, w, d) /\ Alone(s)
  BY DEF Told
<1> DEFINE c == o.e.cid
<1>5. c # 0 => BodyFits(s, o.e, w, d) /\ BodyAsked(o.e, q, d)
  BY <1>2, <1>3, <1>4 DEF BodyTold, BodyOf
<1> HIDE DEF q
<1>6. c = 0 \/ o.e.op \notin RawOp => f = d
  BY <1>3, <1>5 DEF Marks, BodyAsked, q
<1>7. c # 0 /\ o.e.op \in RawOp =>
         /\ c \in Client /\ q.cid = c /\ q.op \in Writes /\ ~d[c] /\ s.raw.stage = "body"
  BY <1>1, <1>3, <1>5 DEF BodyFits, Fits, BodyAsked, RawOne, Writes
<1>8. c # 0 /\ o.e.op \in RawOp => (f[c] <=> x.v = "ok")
  BY <1>7 DEF Marks, q
<1>9. \A k \in Client : k # c \/ f = d => f[k] = d[k]
  BY <1>6, <1>7 DEF Marks, q
<1>10. f # d => /\ c \in Client /\ BodyHas(s, c) /\ AloneNs(s, c) /\ AloneBody(s, c)
                /\ s.raw.stage = "body"
  BY <1>3, <1>4, <1>6, <1>7 DEF BodyHas, Alone
<1>11. f # d => /\ \A j \in 1..Len(s.nsPend) : s.nsPend[j].cid # c
                /\ \A p \in s.bodyPend : p.e.cid = c => p = o
                /\ \A j \in 1..Len(s.objPend) : s.objPend[j].cid # c
                /\ ~OwedHas(s, c)
  BY <1>3, <1>10 DEF AloneNs, AloneBody, NsHas, ObjHas
<1>12. /\ \A g, z : NsSaid(s, g, z, f) => NsSaid(t, g, z, f)
       /\ \A g, z : NsAsked(s, g, z, f) => NsAsked(t, g, z, f)
       /\ \A g : BodyFits(s, g, w, f) => BodyFits(t, g, w, f)
       /\ \A k : OwedHas(t, k) => OwedHas(s, k)
       /\ OwedTold(s, w, f) => OwedTold(t, w, f)
       /\ SlotsTold(s, w) => SlotsTold(t, w)
  BY HoldsSame
<1>13. ASSUME NEW j \in 1..Len(s.nsPend) PROVE NsOf(t, b, w, f, j)
  <2> DEFINE g == s.nsPend[j]
  <2>1. NsOf(s, a, w, d, j)
    BY <1>4 DEF NsTold
  <2>2. g.cid # 0 => f[g.cid] = d[g.cid]
    BY <1>9, <1>11, <2>1 DEF NsOf, Fits
  <2>3. g.cid # 0 => /\ \A z : NsSaid(s, g, z, d) => NsSaid(s, g, z, f)
                     /\ \A z : NsAsked(s, g, z, d) => NsAsked(s, g, z, f)
    BY <2>2, Agree
  <2>4. QED
    BY <1>12, <2>1, <2>3 DEF NsOf, SameNs
<1>14. ASSUME NEW j \in 1..Len(s.objPend) PROVE ObjOf(t, w, f, j)
  <2>1. ObjOf(s, w, d, j)
    BY <1>4 DEF ObjTold
  <2>2. s.objPend[j].cid # 0 => f[s.objPend[j].cid] = d[s.objPend[j].cid]
    BY <1>9, <1>11, <2>1 DEF ObjOf, Fits
  <2>3. QED
    BY <2>1, <2>2 DEF ObjOf, SameObj
<1>15. ASSUME NEW p \in s.bodyPend PROVE BodyOf(t, b, w, f, p)
  <2>1. SUFFICES ASSUME p.e.cid # 0 PROVE BodyOf(t, b, w, f, p)
    BY DEF BodyOf
  <2>2. BodyOf(s, a, w, d, p)
    BY <1>4 DEF BodyTold
  <2>3. CASE p = o
    <3>1. BodyFits(s, p.e, w, f)
      <4>1. CASE f = d
        BY <2>1, <2>2, <4>1 DEF BodyOf
      <4>2. CASE f # d
        BY <1>6, <2>1, <2>2, <2>3, <4>2 DEF BodyOf, BodyFits, RawOp
      <4>3. QED
        BY <4>1, <4>2
    <3>2. ASSUME NEW i \in 1..Len(t.bodyTx), t.bodyTx[i].id = p.id PROVE FALSE
      <4>1. i + 1 \in 1..Len(s.bodyTx) /\ i + 1 # 1 /\ t.bodyTx[i] = s.bodyTx[i + 1]
        BY <1>2
      <4>2. s.bodyTx[i + 1].id = s.bodyTx[1].id
        BY <1>2, <1>3, <2>3, <3>2, <4>1
      <4>3. QED
        BY <1>1, <1>2, <4>1, <4>2 DEF ById
    <3>3. ASSUME NEW r \in b.body, r.id = p.id, p.e.op \in RawOp PROVE f[p.e.cid] <=> r.a.v = "ok"
      <4>1. r \notin a.body
        BY <1>1, <1>2, <1>3, <2>3, <3>3 DEF ById
      <4>2. r = y
        BY <4>1
      <4>3. QED
        BY <1>8, <2>1, <2>3, <3>3, <4>2
    <3>4. QED
      BY <1>12, <3>1, <3>2, <3>3 DEF BodyOf
  <2>4. CASE p # o
    <3>1. f[p.e.cid] = d[p.e.cid]
      BY <1>9, <1>11, <2>1, <2>2, <2>4 DEF BodyOf, BodyFits, Fits
    <3>2. /\ BodyFits(s, p.e, w, d) => BodyFits(s, p.e, w, f)
          /\ \A z : BodyAsked(p.e, z, d) => BodyAsked(p.e, z, f)
      BY <3>1, Agree
    <3>3. y.id # p.id
      BY <1>1, <1>3, <2>4 DEF ById, q
    <3>4. BodyFits(t, p.e, w, f)
      BY <1>12, <2>1, <2>2, <3>2 DEF BodyOf
    <3>5. ASSUME NEW i \in 1..Len(t.bodyTx), t.bodyTx[i].id = p.id
          PROVE  BodyAsked(p.e, t.bodyTx[i], f)
      <4>1. i + 1 \in 1..Len(s.bodyTx) /\ t.bodyTx[i] = s.bodyTx[i + 1]
        BY <1>2
      <4>2. BodyAsked(p.e, s.bodyTx[i + 1], d)
        BY <2>1, <2>2, <3>5, <4>1 DEF BodyOf
      <4>3. QED
        BY <3>2, <4>1, <4>2
    <3>6. \A r \in b.body : r.id = p.id /\ p.e.op \in RawOp => (f[p.e.cid] <=> r.a.v = "ok")
      BY <2>1, <2>2, <3>1, <3>3 DEF BodyOf
    <3>7. QED
      BY <3>4, <3>5, <3>6 DEF BodyOf
  <2>5. QED
    BY <2>3, <2>4
<1>16. RawTold(t, w, f)
  <2>1. s.raw.stage # "idle" => RawFits(s.raw, w, f)
    BY <1>4, <1>10 DEF RawTold, RawFits
  <2>2. QED
    BY <1>4, <2>1 DEF RawTold, SameNs
<1>17. OwedTold(s, w, f)
  BY <1>4, <1>9, <1>11 DEF OwedTold, Owes, OwedHas
<1>18. ASSUME NEW k \in Client PROVE AloneNs(t, k) /\ AloneBody(t, k) /\ AloneObj(t, k)
  <2>1. AloneNs(s, k) /\ AloneBody(s, k) /\ AloneObj(s, k)
    BY <1>4 DEF Alone
  <2>2. QED
    BY <1>12, <2>1
       DEF AloneNs, AloneBody, AloneObj, NsHas, BodyHas, ObjHas, SameNs, SameObj
<1>19. NsTold(t, b, w, f) /\ BodyTold(t, b, w, f) /\ ObjTold(t, w, f)
  BY <1>13, <1>14, <1>15 DEF NsTold, BodyTold, ObjTold, SameNs, SameObj
<1>20. QED
  BY <1>4, <1>12, <1>16, <1>17, <1>18, <1>19 DEF Told, Alone

-----------------------------------------------------------------------------
(* Every step keeps the invariant.                                           *)

\* What clients ask changes only when one asks or is answered.
LEMMA SameDoing ==
    ASSUME user' = user, cfg'.asks = cfg.asks
    PROVE  Doing' = Doing
  BY DEF Doing, Asked, Script

\* A client that asks.
LEMMA AsksDoing ==
    ASSUME Asking, NEW c \in Client, user' = [user EXCEPT ![c].asking = TRUE], cfg' = cfg
    PROVE  /\ Doing'[c] = Asked(c).op
           /\ \A b \in Client : b # c => Doing'[b] = Doing[b]
<1>1. /\ user'[c] = [user[c] EXCEPT !.asking = TRUE] /\ IsUser(user[c])
      /\ \A b \in Client : b # c => user'[b] = user[b]
  BY DEF Asking
<1>2. user'[c].asking /\ user'[c].at = user[c].at
  BY <1>1 DEF IsUser
<1>3. QED
  BY <1>1, <1>2 DEF Doing, Asked, Script

\* The router takes a request: its client waits now, and nothing is carried out yet.
LEMMA TakeRequestTold ==
    ASSUME IInv, AnswerInv, NEW c \in Client, TakeRequest(c)
    PROVE  AnswerInv'
<1>1. Core(ar, ns, ans) /\ Asking /\ Tables(ar) /\ RawOne(ar)
  BY DEF IInv, Core
<1>2. /\ user[c].at \in Nat \ {0} /\ user[c].at <= Len(cfg.asks[c])
      /\ cfg.asks[c] \in Seq(Request)
  BY <1>1 DEF Asking, Config, TakeRequest, Script
<1>3. Asked(c) \in Request
  BY <1>2 DEF Asked, Script
<1>4. Asked(c).op \in AskOp /\ c # 0
  BY <1>3, ClientNot0 DEF Request
<1> DEFINE q == Asked(c)
           i == user[c].pf
           w == Doing'
           d == done'
<1>5. ar.owed = NoAnswer /\ ar' = Handle(ar, c, q, i) /\ ans' = ans
  BY DEF TakeRequest, Ready
<1>6. /\ done' \in [Client -> BOOLEAN] /\ ~done'[c]
      /\ \A b \in Client : b # c => done'[b] = done[b]
  BY DEF TakeRequest, AnswerInv
<1>7. Doing'[c] = Asked(c).op /\ \A b \in Client : b # c => Doing'[b] = Doing[b]
  BY <1>1, AsksDoing DEF TakeRequest
<1>8. Doing[c] = "none"
  BY DEF Doing, TakeRequest
<1>9. Told(ar, ans, Doing, done)
  BY DEF AnswerInv
<1>10. Absent(ar, c) /\ Mine(ar, c) = {} /\ NotRaws(ar, c)
  BY <1>1, <1>5, <1>8, <1>9, Unasked
<1>11. w[c] = q.op /\ w[c] # "none" /\ ~d[c]
  BY <1>4, <1>6, <1>7 DEF AskOp
<1>12. \A b \in Client : b # c => w[b] = Doing[b] /\ d[b] = done[b]
  BY <1>6, <1>7
<1> HIDE DEF w, d, q, i
<1>13. Told(ar, ans, w, d)
  BY <1>9, <1>10, <1>12, Unheard
<1>14. Waits(ar, c, w)
  BY <1>1, <1>10, <1>11 DEF Waits, SlotsFit
<1>15. Goes(ar, Handle(ar, c, q, i), c, w, d)
  <2>1. CASE q.op \in RawOp
    <3>1. Handle(ar, c, q, i) = RawBegin(ar, c, q)
      BY <2>1 DEF Handle, RawOp
    <3>2. QED
      BY <1>1, <1>10, <1>11, <1>14, <2>1, <3>1, RawBeginGoes
  <2>2. CASE q.op \notin RawOp
    <3>1. q.op \in AskOp \ RawOp
      BY <1>4, <2>2 DEF q
    <3>2. QED
      BY <1>10, <1>11, <1>14, <3>1, HandleGoes
  <2>3. QED
    BY <2>1, <2>2
<1>16. Told(Handle(ar, c, q, i), ans, w, d)
  BY <1>1, <1>5, <1>10, <1>11, <1>13, <1>15, GoesTold
<1>17. QED
  BY <1>5, <1>6, <1>16 DEF AnswerInv, w, d

\* What the sweep does when it is alone.
LEMMA GcTold ==
    ASSUME NEW s, NEW t, NEW n, NEW a, NEW w, NEW d, Core(s, n, a), Told(s, a, w, d),
           s.owed = NoAnswer, Quiet(s), GcMoves(s, t, n)
    PROVE  Told(t, a, w, d)
<1>1. Goes(s, t, 0, w, d)
  BY GcGoes
<1>2. Absent(s, 0)
  BY DEF Quiet, Absent, NsHas, BodyHas, ObjHas, OwedHas
<1>3. QED
  BY <1>1, <1>2, GoesTold

\* The raw plane's answers come while it works for the client it holds.
LEMMA RawTakes ==
    ASSUME NEW s, NEW w, NEW d, Tables(s), SlotsTold(s, w), RawTold(s, w, d), NoRaw(s),
           s.raw.stage # "idle"
    PROVE  RawWorks(s, s.raw.cid, w) /\ RawFits(s.raw, w, d)
  BY DEF RawWorks, RawTold, RawFits, SlotsTold

\* The router takes the namespace's answer.
LEMMA TakeNsTold ==
    ASSUME IInv, AnswerInv, TakeNs
    PROVE  AnswerInv'
<1> DEFINE t == [ar EXCEPT !.nsPend = Tail(@)]
           b == [ans EXCEPT !.ns = Tail(@)]
           e == Head(ar.nsPend)
           x == Head(ans.ns)
           w == Doing
           d == done
<1>1. Core(ar, ns, ans) /\ Told(ar, ans, w, d) /\ ar.owed = NoAnswer /\ ans.ns # <<>>
  BY DEF IInv, AnswerInv, TakeNs, Ready
<1>2. /\ Core(t, ns, b) /\ NsEntry(e)
      /\ e.cid = 0 => Quiet(t) /\ Duty(t, ns, e.op) /\ Hears(t, ns, e.op, x)
      /\ e.op = "raw" => /\ Quiet(t) /\ NoRaw(t) /\ Serving(t)
                         /\ t.raw.stage \in {"reserve", "check", "release"}
  BY <1>1, TakesNs
<1>3. /\ Told(t, b, w, d) /\ t.owed = NoAnswer
      /\ e.cid # 0 => Absent(t, e.cid) /\ Fits(e, w) /\ NsSaid(t, e, x, d)
      /\ e.op = "raw" => e.cid = t.raw.cid
  BY <1>1, PopNs
<1>4. ar' = HandleNs(t, e, x) /\ ans' = b /\ done' = done /\ Doing' = Doing
  BY SameDoing DEF TakeNs
<1> HIDE DEF t, b, e, x, w, d
<1>5. Tables(t) /\ SlotsTold(t, w) /\ RawTold(t, w, d)
  BY <1>2, <1>3 DEF Core, Told
<1>6. ASSUME e.cid = 0 PROVE Told(HandleNs(t, e, x), b, w, d)
  BY <1>2, <1>3, <1>5, <1>6, HandleNsSweeps, GcTold
<1>7. ASSUME e.cid # 0 PROVE Told(HandleNs(t, e, x), b, w, d)
  <2>1. e.cid \in Client /\ w[e.cid] # "none"
    BY <1>3, <1>7 DEF Fits
  <2>2. Goes(t, HandleNs(t, e, x), e.cid, w, d)
    <3>1. CASE e.op = "raw"
      <4>1. RawWorks(t, t.raw.cid, w) /\ RawFits(t.raw, w, d)
        BY <1>2, <1>5, <3>1, RawTakes
      <4>2. RawGoes(t, RawNsAnswer(t, x), e.cid, w, d)
        BY <1>2, <1>3, <3>1, <4>1, RawNsAnswerGoes
      <4>3. HandleNs(t, e, x) = RawNsAnswer(t, x)
        BY <3>1 DEF HandleNs
      <4>4. QED
        BY <4>2, <4>3 DEF RawGoes
    <3>2. CASE e.op # "raw"
      <4>1. e.op \notin RawOp
        BY <1>2, <3>2 DEF NsEntry, RawOp, Composed, GcNs
      <4>2. Waits(t, e.cid, w)
        BY <1>3, <1>5, <1>7, <3>2, <4>1, FitsWaits
      <4>3. QED
        BY <1>2, <1>3, <1>7, <3>2, <4>2, HandleNsGoes
    <3>3. QED
      BY <3>1, <3>2
  <2>3. QED
    BY <1>2, <1>3, <1>7, <2>1, <2>2, GoesTold
<1>8. Told(HandleNs(t, e, x), b, w, d)
  BY <1>6, <1>7
<1>9. QED
  BY <1>4, <1>8 DEF AnswerInv, w, d

\* The router takes an answer of the body plane.
LEMMA TakeBodyTold ==
    ASSUME IInv, AnswerInv, TakeBody
    PROVE  AnswerInv'
<1>1. PICK r \in ans.body, p \in ar.bodyPend :
         /\ p.id = r.id
         /\ ar' = HandleBody([ar EXCEPT !.bodyPend = @ \ {p}], p.e, r.a)
         /\ ans' = [ans EXCEPT !.body = @ \ {r}]
  BY DEF TakeBody
<1> DEFINE t == [ar EXCEPT !.bodyPend = @ \ {p}]
           b == [ans EXCEPT !.body = @ \ {r}]
           e == p.e
           w == Doing
           d == done
<1>2. Core(ar, ns, ans) /\ Told(ar, ans, w, d) /\ ar.owed = NoAnswer /\ RawOne(ar)
  BY DEF IInv, AnswerInv, TakeBody, Ready, Core
<1>3. /\ Core(t, ns, b) /\ BodyEntry(e)
      /\ e.cid = 0 => Quiet(t) /\ Duty(t, ns, e.op) /\ Hears(t, ns, e.op, r.a)
      /\ e.op \in RawOp => Quiet(t) /\ NoRaw(t) /\ Serving(t)
  BY <1>1, <1>2, TakesBody
<1>4. /\ Told(t, b, w, d) /\ t.owed = NoAnswer /\ t.raw = ar.raw
      /\ e.cid # 0 => Absent(t, e.cid) /\ BodyFits(t, e, w, d)
      /\ e.cid # 0 /\ e.op \in RawOp => (d[e.cid] <=> r.a.v = "ok")
  BY <1>1, <1>2, PopBody
<1>5. ar' = HandleBody(t, e, r.a) /\ ans' = b /\ done' = done /\ Doing' = Doing
  BY <1>1, SameDoing DEF TakeBody
<1>6. e.op \in RawOp => ar.raw.stage = "body"
  BY <1>2 DEF RawOne
<1> HIDE DEF t, b, e, w, d
<1>7. Tables(t) /\ SlotsTold(t, w) /\ RawTold(t, w, d)
  BY <1>3, <1>4 DEF Core, Told
<1>8. ASSUME e.cid = 0 PROVE Told(HandleBody(t, e, r.a), b, w, d)
  BY <1>3, <1>4, <1>7, <1>8, HandleBodySweeps, GcTold
<1>9. ASSUME e.cid # 0 PROVE Told(HandleBody(t, e, r.a), b, w, d)
  <2>1. e.cid \in Client /\ w[e.cid] # "none" /\ Fits(e, w) /\ e.op # "raw"
    BY <1>4, <1>9 DEF BodyFits, Fits
  <2>2. Goes(t, HandleBody(t, e, r.a), e.cid, w, d)
    <3>1. CASE e.op \in RawOp
      <4>1. RawWorks(t, t.raw.cid, w) /\ t.raw.cid = e.cid
        BY <1>3, <1>4, <1>6, <1>7, <1>9, <3>1, RawTakes DEF BodyFits
      <4>2. RawGoes(t, RawBodyAnswer(t, r.a), e.cid, w, d)
        BY <1>4, <1>9, <3>1, <4>1, RawBodyAnswerGoes
      <4>3. HandleBody(t, e, r.a) = RawBodyAnswer(t, r.a)
        BY <3>1 DEF HandleBody, RawOp
      <4>4. QED
        BY <4>2, <4>3 DEF RawGoes
    <3>2. CASE e.op \notin RawOp
      <4>1. Waits(t, e.cid, w)
        BY <1>7, <2>1, <3>2, FitsWaits
      <4>2. QED
        BY <1>3, <1>4, <1>9, <2>1, <3>2, <4>1, HandleBodyGoes
    <3>3. QED
      BY <3>1, <3>2
  <2>3. QED
    BY <1>3, <1>4, <1>9, <2>1, <2>2, GoesTold
<1>10. Told(HandleBody(t, e, r.a), b, w, d)
  BY <1>8, <1>9
<1>11. QED
  BY <1>5, <1>10 DEF AnswerInv, w, d

\* The router takes the index's answer.
LEMMA TakeObjTold ==
    ASSUME IInv, AnswerInv, TakeObj
    PROVE  AnswerInv'
<1> DEFINE t == [ar EXCEPT !.objPend = Tail(@)]
           b == [ans EXCEPT !.obj = Tail(@)]
           e == Head(ar.objPend)
           x == Head(ans.obj)
           w == Doing
           d == done
<1>1. Core(ar, ns, ans) /\ Told(ar, ans, w, d) /\ ar.owed = NoAnswer /\ ans.obj # <<>>
  BY DEF IInv, AnswerInv, TakeObj, Ready
<1>2. /\ Core(t, ns, b) /\ ObjEntry(e)
      /\ e.cid = 0 => Quiet(t) /\ Duty(t, ns, e.op) /\ Hears(t, ns, e.op, x)
  BY <1>1, TakesObj
<1>3. /\ Told(t, b, w, d) /\ t.owed = NoAnswer
      /\ e.cid # 0 => Absent(t, e.cid) /\ Fits(e, w) /\ ~d[e.cid]
  BY <1>1, PopObj
<1>4. ar' = HandleObj(t, e, x) /\ ans' = b /\ done' = done /\ Doing' = Doing
  BY SameDoing DEF TakeObj
<1> HIDE DEF t, b, e, x, w, d
<1>5. Tables(t) /\ SlotsTold(t, w) /\ RawTold(t, w, d)
  BY <1>2, <1>3 DEF Core, Told
<1>6. ASSUME e.cid = 0 PROVE Told(HandleObj(t, e, x), b, w, d)
  BY <1>2, <1>3, <1>5, <1>6, HandleObjSweeps, GcTold
<1>7. ASSUME e.cid # 0 PROVE Told(HandleObj(t, e, x), b, w, d)
  <2>1. e.cid \in Client /\ w[e.cid] # "none"
    BY <1>3, <1>7 DEF Fits
  <2>2. e.op \notin RawOp /\ e.op # "raw"
    BY <1>2 DEF ObjEntry, RawOp, Composed, GcObj
  <2>3. Waits(t, e.cid, w)
    BY <1>3, <1>5, <1>7, <2>2, FitsWaits
  <2>4. Goes(t, HandleObj(t, e, x), e.cid, w, d)
    BY <1>2, <1>3, <1>7, <2>3, HandleObjGoes
  <2>5. QED
    BY <1>2, <1>3, <1>7, <2>1, <2>4, GoesTold
<1>8. Told(HandleObj(t, e, x), b, w, d)
  BY <1>6, <1>7
<1>9. QED
  BY <1>4, <1>8 DEF AnswerInv, w, d

\* The sweep is kicked.
LEMMA KickTold ==
    ASSUME IInv, AnswerInv, Kick
    PROVE  AnswerInv'
<1>1. Core(ar, ns, ans) /\ Tables(ar) /\ cfg \in Config
  BY DEF IInv, Core, Asking
<1>2. /\ ~ar.gc.asked /\ ar.gc.queue = <<>> /\ ar.raw.stage = "idle" /\ ar' = GcKick(ar)
      /\ cfg' = [cfg EXCEPT !.sweeps = @ - 1] /\ ar.owed = NoAnswer
      /\ ans' = ans /\ user' = user /\ done' = done
  BY DEF Kick, GcBusy, Ready
<1>3. Quiet(ar)
  BY <1>1, <1>2, IdleQuiet
<1>4. GcMoves(ar, GcKick(ar), ns)
  BY <1>1, <1>2, GcKickMoves
<1>5. Told(GcKick(ar), ans, Doing, done)
  BY <1>1, <1>2, <1>3, <1>4, GcTold DEF AnswerInv
<1>6. cfg'.asks = cfg.asks
  BY <1>1, <1>2 DEF Config
<1>7. QED
  BY <1>2, <1>5, <1>6, SameDoing DEF AnswerInv

\* An answer is delivered.
LEMMA DeliverTold ==
    ASSUME IInv, AnswerInv, Deliver
    PROVE  AnswerInv'
<1>1. Tables(ar) /\ Asking /\ Told(ar, ans, Doing, done)
  BY DEF IInv, Core, AnswerInv
<1>2. /\ ar.owed # NoAnswer /\ ar' = [ar EXCEPT !.owed = NoAnswer]
      /\ ans' = ans /\ cfg' = cfg /\ done' = done
  BY DEF Deliver
<1>3. \A b \in Client : b # ar.owed.cid => user'[b] = user[b]
  BY <1>1 DEF Asking, Deliver
<1>4. \A b \in Client : b # ar.owed.cid => Doing'[b] = Doing[b]
  BY <1>2, <1>3 DEF Doing, Asked, Script
<1>5. Told(ar', ans, Doing', done)
  BY <1>1, <1>2, <1>4, Delivered
<1>6. QED
  BY <1>2, <1>5 DEF AnswerInv

\* The history a plane's step leaves.
LEMMA MarkMarks ==
    ASSUME done \in [Client -> BOOLEAN], NEW q, NEW ok, done' = Mark(q, ok)
    PROVE  done' \in [Client -> BOOLEAN] /\ Marks(done, done', q, ok)
  BY DEF Mark, Marks

\* The namespace carries out a request.
LEMMA NsStepTold ==
    ASSUME IInv, AnswerInv, NsStep
    PROVE  AnswerInv'
<1> DEFINE q == Head(ar.nsTx)
           x == NsApply(ns, q).a
<1>1. Core(ar, ns, ans) /\ Told(ar, ans, Doing, done) /\ done \in [Client -> BOOLEAN]
  BY DEF IInv, AnswerInv
<1>2. /\ ar.nsTx # <<>> /\ ans' = [ans EXCEPT !.ns = Append(@, x)]
      /\ ar' = [ar EXCEPT !.nsTx = Tail(@)] /\ done' = Mark(q, x.v = "ok")
      /\ user' = user /\ cfg' = cfg
  BY DEF NsStep
<1> HIDE DEF x
<1>3. done' \in [Client -> BOOLEAN] /\ Marks(done, done', q, x.v = "ok")
  BY <1>1, <1>2, MarkMarks
<1>4. Told(ar', ans', Doing, done')
  BY <1>1, <1>2, <1>3, NsCarriesTold
<1>5. Doing' = Doing
  BY <1>2, SameDoing
<1>6. QED
  BY <1>3, <1>4, <1>5 DEF AnswerInv

\* The body plane carries out a request, or fails it.
LEMMA BodyStepTold ==
    ASSUME IInv, AnswerInv, BodyStep
    PROVE  AnswerInv'
<1> DEFINE q == Head(ar.bodyTx)
<1>1. PICK x : /\ ans' = [ans EXCEPT !.body = @ \cup {[id |-> q.id, a |-> x]}]
               /\ \/ done' = Mark(q, x.v = "ok") /\ cfg' = cfg
                  \/ x = BodyAns("nak") /\ done' = done /\ cfg' = [cfg EXCEPT !.faults = @ - 1]
  BY DEF BodyStep
<1>2. ar.bodyTx # <<>> /\ ar' = [ar EXCEPT !.bodyTx = Tail(@)] /\ user' = user
  BY DEF BodyStep, BodyCan
<1>3. /\ Core(ar, ns, ans) /\ Told(ar, ans, Doing, done) /\ done \in [Client -> BOOLEAN]
      /\ Tables(ar) /\ Answers(ans) /\ cfg \in Config
  BY DEF IInv, AnswerInv, Core, Asking
<1>4. done' \in [Client -> BOOLEAN] /\ Marks(done, done', q, x.v = "ok")
  <2>1. CASE done' = Mark(q, x.v = "ok")
    BY <1>3, <2>1, MarkMarks
  <2>2. CASE x = BodyAns("nak") /\ done' = done
    <3>1. x.v # "ok"
      BY <2>2 DEF BodyAns
    <3>2. QED
      BY <1>3, <2>2, <3>1 DEF Marks
  <2>3. QED
    BY <1>1, <2>1, <2>2
<1>5. Doing' = Doing
  <2>1. cfg'.asks = cfg.asks
    BY <1>1, <1>3 DEF Config
  <2>2. QED
    BY <1>2, <2>1, SameDoing
<1> DEFINE y == [id |-> q.id, a |-> x]
<1>6. y.id = q.id /\ y.a = x /\ ans' = [ans EXCEPT !.body = @ \cup {y}]
  BY <1>1
<1> HIDE DEF y, q
<1>7. ans'.body = ans.body \cup {y} /\ ans'.ns = ans.ns
  BY <1>3, <1>6 DEF Answers
<1>8. /\ ar'.bodyTx = Tail(ar.bodyTx) /\ ar'.bodyPend = ar.bodyPend /\ SameNs(ar, ar')
      /\ SameObj(ar, ar') /\ ar'.put = ar.put /\ ar'.raw = ar.raw /\ ar'.owed = ar.owed
  BY <1>2, <1>3 DEF Tables, IsRouter, SameNs, SameObj
<1>9. Told(ar', ans', Doing, done')
  <2>1. y.id = Head(ar.bodyTx).id /\ y.a = x /\ ar.bodyTx # <<>>
    BY <1>2, <1>6 DEF q
  <2>2. Marks(done, done', Head(ar.bodyTx), x.v = "ok")
    BY <1>4 DEF q
  <2>3. QED
    BY <1>3, <1>7, <1>8, <2>1, <2>2, BodyCarriesTold
<1>10. QED
  BY <1>4, <1>5, <1>9 DEF AnswerInv

\* The index carries out a request, or fails it.
LEMMA ObjStepTold ==
    ASSUME IInv, AnswerInv, ObjStep
    PROVE  AnswerInv'
<1>1. PICK x : /\ ans' = [ans EXCEPT !.obj = Append(@, x)]
               /\ cfg' = cfg \/ cfg' = [cfg EXCEPT !.faults = @ - 1]
  BY DEF ObjStep
<1>2. ar' = [ar EXCEPT !.objTx = Tail(@)] /\ user' = user /\ done' = done
  BY DEF ObjStep
<1>3. Core(ar, ns, ans) /\ Told(ar, ans, Doing, done) /\ cfg \in Config
  BY DEF IInv, AnswerInv, Asking
<1>4. Told(ar', ans', Doing, done)
  BY <1>1, <1>2, <1>3, ObjCarriesTold
<1>5. cfg'.asks = cfg.asks
  BY <1>1, <1>3 DEF Config
<1>6. QED
  BY <1>2, <1>4, <1>5, SameDoing DEF AnswerInv

\* At first nobody waits.
LEMMA InitTold == Init => AnswerInv
<1> SUFFICES ASSUME Init PROVE AnswerInv
  OBVIOUS
<1>1. Len(<<>>) = 0 /\ 1..0 = {}
  BY EmptySeq
<1>2. /\ ar.nsPend = <<>> /\ ar.objPend = <<>> /\ ar.bodyPend = {} /\ ar.raw = IdleRaw
      /\ ar.put = [i \in 1..PutFiles |-> FreeSlot] /\ ar.owed = NoAnswer
  BY DEF Init, NewRouter
<1>3. \A i \in 1..PutFiles : ar.put[i].op = "free"
  BY <1>2 DEF FreeSlot
<1>4. \A c : Mine(ar, c) = {}
  BY <1>3 DEF Mine
<1>5. SlotsTold(ar, Doing)
  BY <1>3, <1>4 DEF SlotsTold, SlotsFit
<1>6. NsTold(ar, ans, Doing, done) /\ BodyTold(ar, ans, Doing, done) /\ ObjTold(ar, Doing, done)
  BY <1>1, <1>2 DEF NsTold, BodyTold, ObjTold
<1>7. RawTold(ar, Doing, done) /\ OwedTold(ar, Doing, done)
  BY <1>1, <1>2 DEF RawTold, OwedTold, IdleRaw
<1>8. Alone(ar)
  BY <1>1, <1>2 DEF Alone, AloneNs, AloneBody, AloneObj, NsHas, BodyHas, ObjHas
<1>9. done \in [Client -> BOOLEAN]
  BY DEF Init
<1>10. QED
  BY <1>5, <1>6, <1>7, <1>8, <1>9 DEF AnswerInv, Told

\* Every step keeps the invariant.
LEMMA NextTold == SweepInv /\ AnswerInv /\ [Next]_vars => AnswerInv'
<1> SUFFICES ASSUME SweepInv, AnswerInv, [Next]_vars PROVE AnswerInv'
  OBVIOUS
<1>1. IInv
  BY DEF SweepInv
<1>2. ASSUME NEW c \in Client, TakeRequest(c) PROVE AnswerInv'
  BY <1>1, <1>2, TakeRequestTold
<1>3. CASE TakeNs
  BY <1>1, <1>3, TakeNsTold
<1>4. CASE TakeBody
  BY <1>1, <1>4, TakeBodyTold
<1>5. CASE TakeObj
  BY <1>1, <1>5, TakeObjTold
<1>6. CASE Kick
  BY <1>1, <1>6, KickTold
<1>7. CASE Deliver
  BY <1>1, <1>7, DeliverTold
<1>8. CASE NsStep
  BY <1>1, <1>8, NsStepTold
<1>9. CASE BodyStep
  BY <1>1, <1>9, BodyStepTold
<1>10. CASE ObjStep
  BY <1>1, <1>10, ObjStepTold
<1>11. CASE Lapse \/ Compact \/ UNCHANGED vars
  <2>1. ar' = ar /\ ans' = ans /\ user' = user /\ cfg' = cfg /\ done' = done
    BY <1>11 DEF Lapse, Compact, vars
  <2>2. QED
    BY <2>1, SameDoing DEF AnswerInv
<1>12. QED
  BY <1>2, <1>3, <1>4, <1>5, <1>6, <1>7, <1>8, <1>9, <1>10, <1>11 DEF Next

\* In every reachable state what is held of each client's request agrees with
\* whether its write was carried out.
THEOREM AnswerInvariant == Spec => [](SweepInv /\ AnswerInv)
<1>1. QED
  BY InitKeeps, InitTold, NextKeeps, NextTold, PTL DEF Spec

\* An answer goes to a client that waits for one of its kind, and says OK of a
\* write exactly when its plane carried that write out: through retries of a write
\* that lost a race, refusals half way, and a raw plane's answer held until its
\* digest is released (composed_finish, the pending FIFOs, raw_finish).
THEOREM AnswersStayExact == Spec => []AnswerExact
<1>1. AnswerInv => AnswerExact
  <2> SUFFICES ASSUME AnswerInv, ar.owed # NoAnswer
               PROVE  LET c == ar.owed.cid
                      IN  /\ user[c].asking
                          /\ ar.owed.op = AckOf(Asked(c).op)
                          /\ ar.owed.op \in WriteOps => (ar.owed.status = "ok") = done[c]
    BY DEF AnswerExact
  <2> DEFINE c == ar.owed.cid
  <2>1. /\ c \in Client /\ Doing[c] # "none" /\ ar.owed.op = AckOf(Doing[c])
        /\ ar.owed.op \in WriteOps => (ar.owed.status = "ok" <=> done[c])
    BY DEF AnswerInv, Told, OwedTold, Owes
  <2>2. user[c].asking /\ Doing[c] = Asked(c).op
    BY <2>1 DEF Doing
  <2>3. done[c] \in BOOLEAN
    BY <2>1 DEF AnswerInv
  <2>4. ar.owed.op \in WriteOps => (ar.owed.status = "ok") = done[c]
    BY <2>1, <2>3
  <2>5. QED
    BY <2>1, <2>2, <2>4
<1>2. QED
  BY <1>1, AnswerInvariant, PTL
=============================================================================
