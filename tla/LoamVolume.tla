----------------------------- MODULE LoamVolume -----------------------------
(***************************************************************************)
(* loam_volume: a storage.block source over one Loam volume, its writer    *)
(* lease, its resident extents and leaf pages, and its commit.  From       *)
(* loam_volume_body.rs.                                                    *)
(*                                                                         *)
(* A body's digest stands for its bytes: an extent's is the tuple of its   *)
(* blocks, a leaf's or a root's the tuple of the digests it lists, and     *)
(* <<>> is the zero digest.  The module's handlers are operators from      *)
(* module state to module state; the variable v holds that state.  One     *)
(* module step is a Pump and then one Serve per queued request, the last   *)
(* of which schedules; no block request comes between them (v.pc).         *)
(***************************************************************************)
EXTENDS Naturals, SequencesExt, FiniteSetsExt

CONSTANTS
    NBlocks, Per,     \* blocks of the device, blocks of an extent
    LeafWidth,        \* PAGE_ENTRIES: digests a leaf lists
    Vals,             \* what a block may hold, 0 being zero
    Slots,            \* EXTENT_SLOTS
    LeafSlots,        \* LEAF_SLOTS
    WantSlots,        \* WANT_SLOTS
    Depth,            \* QUEUE_DEPTH
    Configs           \* what is asked of the device, and what goes wrong

ASSUME SizesAssumption ==
    /\ {NBlocks, Per, LeafWidth, LeafSlots, WantSlots, Depth} \subseteq Nat \ {0}
    /\ Slots \in Nat /\ Slots > 2
    /\ Vals \subseteq Nat /\ 0 \in Vals

VARIABLES
    v,      \* the module
    srv,    \* the node: the volume's binding, its lease, its bodies
    user,   \* the consumer: where it is in its requests
    cfg,    \* the configuration, its faults counted down
    said    \* history: the last request answered without an error

vars == <<v, srv, user, cfg, said>>

-----------------------------------------------------------------------------
(* Geometry and the map.                                                    *)

Block == 0..(NBlocks - 1)
NExtents == (NBlocks + Per - 1) \div Per
Extent == 0..(NExtents - 1)
ExtentLen(i) == IF (i + 1) * Per <= NBlocks THEN Per ELSE NBlocks - i * Per
NLeaves == (NExtents + LeafWidth - 1) \div LeafWidth
LeafOf(i) == i \div LeafWidth
LeafLen(c) == IF (c + 1) * LeafWidth <= NExtents THEN LeafWidth ELSE NExtents - c * LeafWidth
At(i) == (i % LeafWidth) + 1
StagedMax == Slots - 2

Zero == <<>>
ZeroBytes(i) == [k \in 1..ExtentLen(i) |-> 0]
NameOf(bytes) == IF \A k \in DOMAIN bytes : bytes[k] = 0 THEN Zero ELSE bytes
BytesOf(i, d) == IF d = Zero THEN ZeroBytes(i) ELSE d
ZeroPage(c) == [k \in 1..LeafLen(c) |-> Zero]
PageName(p) == IF \A k \in DOMAIN p : p[k] = Zero THEN Zero ELSE p
PageOf(c, d) == IF d = Zero THEN ZeroPage(c) ELSE d

\* The digest a root's map gives an extent, and what the whole map holds.
Mapped(root, i) == IF cfg.depth = 1 THEN root[i + 1]
                   ELSE PageOf(LeafOf(i), root[LeafOf(i) + 1])[At(i)]
ContentOf(root) ==
    [b \in Block |-> BytesOf(b \div Per, Mapped(root, b \div Per))[(b % Per) + 1]]
EmptyRoot == [k \in 1..(IF cfg.depth = 1 THEN NExtents ELSE NLeaves) |-> Zero]

-----------------------------------------------------------------------------
(* Module state.                                                            *)

FreeExtent == [st |-> "free", committing |-> FALSE, idx |-> 0, dig |-> Zero, data |-> Zero]
FreeLeaf == [valid |-> FALSE, child |-> 0, dig |-> Zero, data |-> Zero]
Ask(op, lba, n, val) == [op |-> op, lba |-> lba, n |-> n, val |-> val, fua |-> FALSE,
                         pre |-> FALSE, how |-> "submit"]
NoPending == [used |-> FALSE, stage |-> 0, target |-> 0, req |-> Ask("none", 0, 0, 0), floor |-> 0]

\* module_new_impl.
NewVolume(inst) ==
    [inst |-> inst, pc |-> 0, phase |-> "lease", job |-> "none", commit |-> "idle",
     flushWanted |-> FALSE, draining |-> FALSE, drained |-> FALSE, refused |-> FALSE,
     fence |-> 0, age |-> 0, jobAge |-> 0, hand |-> <<>>, tx |-> <<>>, acks |-> {},
     jobSlot |-> 0, jobChild |-> 0,
     rev |-> 0, root |-> Zero, newRoot |-> Zero, children |-> Zero,
     slot |-> [k \in 1..Slots |-> FreeExtent], order |-> <<>>,
     leaf |-> [k \in 1..LeafSlots |-> FreeLeaf], leafOrder |-> <<>>,
     wants |-> <<>>, staged |-> 0, cursor |-> 1, leafNew |-> <<>>,
     gen |-> 0, dgen |-> 0, cgen |-> 0,
     pend |-> [k \in 1..Depth |-> NoPending], done |-> 0,
     pipe |-> {}, pipeRefused |-> FALSE]

Touch(s, k) == [s EXCEPT !.order = Append(SelectSeq(@, LAMBDA x : x # k), k)]
TouchLeaf(s, k) == [s EXCEPT !.leafOrder = Append(SelectSeq(@, LAMBDA x : x # k), k)]

\* The request at the client stays there: the node may yet carry it out, and
\* nobody reads the answer.
Fail(s) ==
    IF s.phase = "failed" THEN s
    ELSE [s EXCEPT !.phase = "failed", !.job = "none", !.acks = {}, !.commit = "idle", !.staged = 0,
                   !.slot = [k \in 1..Slots |->
                                [@[k] EXCEPT !.st = "free", !.committing = FALSE]]]

-----------------------------------------------------------------------------
(* The admin exchange: one request at a time, except a commit's bodies.     *)

Frame(op, s) == [op |-> op, cid |-> 0, inst |-> s.inst, fence |-> s.fence, dig |-> Zero,
                 idx |-> 0, rev |-> 0]
Ack(q, status) == [cid |-> q.cid, status |-> status, dig |-> q.dig, fence |-> 0, rev |-> 0]

\* A frame is in hand until the client, which sends one at a time, takes it.
Hand(s) == IF s.hand # <<>> /\ s.tx = <<>> THEN [s EXCEPT !.tx = s.hand, !.hand = <<>>] ELSE s
\* A correlation id is the slot of the extent a PUT carries, 0 for any other.
Issue(s, job, q) == Hand([s EXCEPT !.job = job, !.jobAge = 0, !.hand = <<q>>])

\* No answer will come.
Stranded(s) == s.job # "none" /\ s.tx = <<>> /\ s.acks = {}
TimeoutCheck(s, late) == IF late /\ Stranded(s) THEN Fail(s) ELSE s

-----------------------------------------------------------------------------
(* Resident extents and leaf pages.                                         *)

First(S) == IF S = {} THEN 0 ELSE Min(S)
Holding(s, i) == {k \in 1..Slots : s.slot[k].st \in {"clean", "staged"} /\ s.slot[k].idx = i}
FindExtent(s, i) == First(Holding(s, i))
Resident(s, i) == Holding(s, i) # {}
Fetching(s, i) == \E k \in 1..Slots : s.slot[k].st = "fetching" /\ s.slot[k].idx = i

\* A free slot, or the clean one used longest ago; 0 when there is none.
AllocSlot(s, keep) ==
    LET free == {k \in (1..Slots) \ keep : s.slot[k].st = "free"}
        clean == SelectSeq(s.order, LAMBDA k : k \notin keep /\ s.slot[k].st = "clean")
    IN  IF free # {} THEN Min(free) ELSE IF clean # <<>> THEN Head(clean) ELSE 0

Want(s, i) == IF i \in Range(s.wants) \/ Len(s.wants) >= WantSlots THEN s
              ELSE [s EXCEPT !.wants = Append(@, i)]
WantAll(s, S) == FoldLeft(Want, s, SetToSortSeq(S, <))

LeafFind(s, c) == First({k \in 1..LeafSlots : s.leaf[k].valid /\ s.leaf[k].child = c
                                                /\ s.leaf[k].dig = s.children[c + 1]})
LeafClaim(s) == LET spare == {k \in 1..LeafSlots : ~s.leaf[k].valid}
                IN  IF spare # {} THEN Min(spare) ELSE Head(s.leafOrder)

\* k = 0: the page had to be asked for.
LeafReady(s, c) ==
    LET k == LeafFind(s, c)
        d == s.children[c + 1]
        n == LeafClaim(s)
        page == [valid |-> TRUE, child |-> c, dig |-> Zero, data |-> ZeroPage(c)]
        q == [Frame("get_leaf", s) EXCEPT !.dig = d]
    IN  CASE k # 0 -> [k |-> k, s |-> TouchLeaf(s, k)]
          [] k = 0 /\ d = Zero -> [k |-> n, s |-> TouchLeaf([s EXCEPT !.leaf[n] = page], n)]
          [] OTHER -> [k |-> 0, s |-> Issue([s EXCEPT !.leaf[n].valid = FALSE, !.jobSlot = n,
                                                      !.jobChild = c], "leaf", q)]

OnLeaf(s, a) ==
    IF a.status # "ok" THEN Fail(s)
    ELSE TouchLeaf([s EXCEPT !.leaf[s.jobSlot] = [valid |-> TRUE, child |-> s.jobChild,
                                                  dig |-> s.children[s.jobChild + 1],
                                                  data |-> a.dig]], s.jobSlot)

\* One round of fetch_next: go says whether there is another.
FetchOne(acc, round) ==
    LET s == acc.s
        i == Head(s.wants)
        dropped == [s EXCEPT !.wants = Tail(@)]
        l == LeafReady(s, LeafOf(i))
        t == IF cfg.depth = 1 THEN s ELSE l.s
        d == IF cfg.depth = 1 THEN s.children[i + 1] ELSE l.s.leaf[l.k].data[At(i)]
        k == AllocSlot(t, {})
        slot == [st |-> "clean", committing |-> FALSE, idx |-> i, dig |-> d,
                 data |-> ZeroBytes(i)]
        q == [Frame("get_extent", s) EXCEPT !.dig = d]
    IN  CASE ~acc.go \/ s.wants = <<>> -> [acc EXCEPT !.go = FALSE]
          [] acc.go /\ s.wants # <<>> /\ (Resident(s, i) \/ Fetching(s, i)) ->
                [go |-> TRUE, s |-> dropped]
          [] OTHER ->
                CASE cfg.depth = 2 /\ l.k = 0 -> [go |-> FALSE, s |-> l.s]
                  [] (cfg.depth = 1 \/ l.k # 0) /\ k = 0 ->
                        [go |-> FALSE, s |-> [t EXCEPT !.flushWanted = TRUE]]
                  [] OTHER ->
                        IF d = Zero
                        THEN [go |-> TRUE, s |-> Touch([t EXCEPT !.slot[k] = slot,
                                                                 !.wants = Tail(@)], k)]
                        ELSE [go |-> FALSE,
                              s |-> Issue([t EXCEPT !.slot[k] = [slot EXCEPT !.st = "fetching"],
                                                    !.jobSlot = k], "extent", q)]
FetchNext(s) == FoldLeft(FetchOne, [go |-> TRUE, s |-> s], [r \in 1..WantSlots |-> r]).s

OnExtent(s, a) ==
    LET k == s.jobSlot
    IN  IF a.status # "ok" THEN Fail(s)
        ELSE Touch([s EXCEPT !.slot[k].st = "clean", !.slot[k].data = a.dig,
                             !.wants = SelectSeq(@, LAMBDA i : i # s.slot[k].idx)], k)

-----------------------------------------------------------------------------
(* Requests.                                                                *)

Blocks(r) == r.lba .. (r.lba + r.n - 1)
Spans(r) == {b \div Per : b \in Blocks(r)}
BlocksOf(i) == (i * Per)..(i * Per + ExtentLen(i) - 1)
Over(bytes, i, r) == [k \in DOMAIN bytes |->
                         IF (i * Per + k - 1) \in Blocks(r) THEN r.val ELSE bytes[k]]

ReadNow(s, r) ==
    LET missing == {i \in Spans(r) : ~Resident(s, i)}
    IN  IF missing # {} THEN [ok |-> FALSE, s |-> WantAll(s, missing)]
        ELSE [ok |-> TRUE, s |-> FoldLeft(LAMBDA t, i : Touch(t, FindExtent(s, i)), s,
                                          SetToSortSeq(Spans(r), <))]
\* What the resident extents hold of it.
ReadBytes(s, r) == [b \in Blocks(r) |->
                       s.slot[FindExtent(s, b \div Per)].data[(b % Per) + 1]]

StageOver(s, i, r) ==
    LET k == FindExtent(s, i)
        bytes == Over(s.slot[k].data, i, r)
    IN  Touch(IF bytes = s.slot[k].data THEN s
              ELSE [s EXCEPT !.slot[k].data = bytes, !.slot[k].st = "staged",
                             !.staged = IF s.slot[k].st = "clean" THEN @ + 1 ELSE @], k)
StageWhole(s, i, r, keep) ==
    LET k == AllocSlot(s, keep)
    IN  Touch([s EXCEPT !.slot[k] = [FreeExtent EXCEPT !.st = "staged", !.idx = i,
                                                       !.data = Over(ZeroBytes(i), i, r)],
                        !.staged = @ + 1], k)

\* Whole or not at all: every extent is looked at before any is staged.
WriteNow(s, r) ==
    LET here == {i \in Spans(r) : Resident(s, i)}
        gone == Spans(r) \ here
        partial == {i \in gone : ~(BlocksOf(i) \subseteq Blocks(r))}
        bytes(i) == s.slot[FindExtent(s, i)].data
        changed == {i \in here : Over(bytes(i), i, r) # bytes(i)}
        restaged == {i \in changed : s.slot[FindExtent(s, i)].st = "clean"}
        keep == {FindExtent(s, i) : i \in here}
        spare == {k \in (1..Slots) \ keep : s.slot[k].st \in {"free", "clean"}}
        over == FoldLeft(LAMBDA t, i : StageOver(t, i, r), s, SetToSortSeq(here, <))
        all == FoldLeft(LAMBDA t, i : StageWhole(t, i, r, keep), over, SetToSortSeq(gone, <))
    IN  CASE s.commit # "idle" -> [w |-> "wait", s |-> s]
          [] s.commit = "idle" /\ partial # {} -> [w |-> "wait", s |-> WantAll(s, partial)]
          [] s.commit = "idle" /\ partial = {} /\
                \/ s.staged + Cardinality(restaged) + Cardinality(gone) > StagedMax
                \/ Cardinality(spare) < Cardinality(gone) ->
                    [w |-> "room", s |-> [s EXCEPT !.flushWanted = TRUE]]
          [] OTHER -> [w |-> "done", s |-> [all EXCEPT !.gen = IF changed \cup gone # {}
                                                               THEN @ + 1 ELSE @]]

\* a: "none" while it waits.  floor is the history of what the answer vouches
\* for: what was written when it was asked, or its own write.
Outcome(s, p, a) == [s |-> s, p |-> p, a |-> a]
\* Mutant: the commit it waits for is not asked for.
CommitWaitOnly(s, p) == IF s.refused THEN Outcome([s EXCEPT !.refused = FALSE], p, "error")
                        ELSE Outcome(s, p, "none")
CommitWait(s, p) == IF s.refused THEN Outcome([s EXCEPT !.refused = FALSE], p, "error")
                    ELSE Outcome([s EXCEPT !.flushWanted = TRUE], p, "none")

\* Mutant: answered once the commit that covers it has begun.
RunDurableBegun(s, p) == IF s.cgen >= p.target THEN Outcome(s, p, "durable") ELSE CommitWait(s, p)
RunDurable(s, p) == IF s.dgen >= p.target THEN Outcome(s, p, "durable") ELSE CommitWait(s, p)
RunWrite(s, p) ==
    LET w == WriteNow(s, p.req)
    IN  CASE w.w = "wait" -> Outcome(w.s, p, "none")
          [] w.w = "room" -> CommitWait(w.s, p)
          [] OTHER -> IF ~p.req.fua THEN Outcome(w.s, p, "volatile")
                      ELSE RunDurable(w.s, [p EXCEPT !.stage = 2, !.target = w.s.gen,
                                                     !.floor = w.s.gen])
RunRequest(s, p) ==
    CASE p.req.op = "read" -> LET r == ReadNow(s, p.req)
                              IN  Outcome(r.s, p, IF r.ok THEN "read" ELSE "none")
      [] p.req.op = "write" -> RunWrite(s, p)
      [] p.req.op = "flush" -> RunDurable(s, [p EXCEPT !.stage = 2])
Run(s, p) ==
    CASE s.phase = "failed" -> Outcome(s, p, "error")
      [] s.phase # "failed" /\ p.stage = 2 -> RunDurable(s, p)
      [] OTHER -> IF p.stage = 0 /\ p.req.pre /\ s.dgen < p.target THEN CommitWait(s, p)
                  ELSE RunRequest(s, [p EXCEPT !.stage = 1])

NewPending(s, r) == [used |-> TRUE, stage |-> 0, target |-> s.gen, req |-> r, floor |-> s.gen]
Used(s) == {k \in 1..Depth : s.pend[k].used}
Queued(s) == s.done + Cardinality(Used(s))
PushDone(s) == IF s.done >= Depth THEN s ELSE [s EXCEPT !.done = @ + 1]

\* The flush-bound requests a commit that gave up was to cover.
Waiting(s) == {k \in Used(s) : LET p == s.pend[k]
                               IN  /\ s.dgen < p.target
                                   /\ p.stage = 2 \/ (p.stage = 0 /\ p.req.pre)}
FailWaiters(s) ==
    FoldLeft(LAMBDA t, k : PushDone([t EXCEPT !.pend[k] = NoPending, !.refused = FALSE]), s,
             SetToSortSeq(Waiting(s), <))

-----------------------------------------------------------------------------
(* The commit.                                                              *)

Committing(s) == {k \in 1..Slots : s.slot[k].committing}
BeginAbort(s) == [s EXCEPT !.commit = "abort"]

\* Abandoned: its writes stay staged.
GiveUp(s) ==
    FailWaiters([s EXCEPT !.refused = TRUE, !.commit = "idle", !.flushWanted = FALSE,
                          !.slot = [k \in 1..Slots |-> [@[k] EXCEPT !.committing = FALSE]]])

\* The next extent to PUT; the all-zero ones before it are named and passed.
Ahead(s) == {k \in Committing(s) : k >= s.cursor}
NextBody(s) == First({k \in Ahead(s) : NameOf(s.slot[k].data) # Zero})
Passed(s) == {k \in Ahead(s) : NextBody(s) = 0 \/ k < NextBody(s)}

SendBody(t, round) ==
    LET s == Hand(t)
        k == NextBody(s)
        past == [s EXCEPT !.slot = [j \in 1..Slots |-> IF j \in Passed(s)
                                                       THEN [@[j] EXCEPT !.dig = Zero] ELSE @[j]],
                          !.cursor = IF k = 0 THEN Slots + 1 ELSE k + 1]
        q == [Frame("put_extent", s) EXCEPT !.cid = k, !.dig = s.slot[k].data]
    IN  CASE t.pipeRefused -> t
          [] ~t.pipeRefused /\ s.hand # <<>> -> s
          [] OTHER -> IF k = 0 THEN past
                      ELSE Hand([past EXCEPT !.pipe = @ \cup {k}, !.hand = <<q>>])

ReadAcks(s) ==
    LET ok == {a \in s.acks : a.status = "ok"}
    IN  [s EXCEPT !.slot = [k \in 1..Slots |->
                               IF \E a \in ok : a.cid = k
                               THEN [@[k] EXCEPT !.dig = (CHOOSE a \in ok : a.cid = k).dig]
                               ELSE @[k]],
                  !.pipe = @ \ {a.cid : a \in s.acks},
                  !.pipeRefused = @ \/ ok # s.acks,
                  !.acks = {}]

\* Until no PUT is still owed an answer.  The client holds one frame and one
\* more is in hand: two rounds of the sending loop are all it makes.
BodiesPump(s, late) ==
    LET sent == SendBody(SendBody(s, 1), 2)
        t == ReadAcks(sent)
        all == t.pipeRefused \/ (t.hand = <<>> /\ Ahead(t) = {})
        rest == [t EXCEPT !.job = "none", !.hand = <<>>]
    IN  CASE \E a \in sent.acks : a.cid \notin sent.pipe -> Fail(sent)
          [] (\A a \in sent.acks : a.cid \in sent.pipe) /\ all /\ t.pipe = {} ->
                IF t.pipeRefused THEN BeginAbort(rest)
                ELSE [rest EXCEPT !.cursor = 1, !.leafNew = <<>>,
                                  !.commit = IF cfg.depth = 2 THEN "leaves" ELSE "root"]
          [] OTHER -> TimeoutCheck(t, late)

CommitBodies(s) ==
    BodiesPump([s EXCEPT !.job = "bodies", !.jobAge = 0, !.hand = <<>>, !.pipe = {},
                         !.pipeRefused = FALSE], FALSE)

LeafDone(s, c) == \E k \in DOMAIN s.leafNew : s.leafNew[k].child = c
LeafNew(s, c, d) == [s EXCEPT !.leafNew = Append(@, [child |-> c, dig |-> d]), !.cursor = @ + 1]

\* A leaf's page with the commit's extents over it.
NewPage(s, c, page) ==
    [n \in DOMAIN page |->
        LET mine == {k \in Committing(s) : s.slot[k].idx = c * LeafWidth + n - 1}
        IN  IF mine = {} THEN page[n] ELSE s.slot[Max(mine)].dig]

\* One round of the leaves' loop.
CommitLeaf(acc, round) ==
    LET s == acc.s
        k == s.cursor
        c == LeafOf(s.slot[k].idx)
        l == LeafReady(s, c)
        page == NewPage(l.s, c, l.s.leaf[l.k].data)
        q == [Frame("put_leaf", s) EXCEPT !.dig = page]
    IN  CASE ~acc.go -> acc
          [] acc.go /\ k > Slots -> [go |-> FALSE, s |-> [s EXCEPT !.commit = "root"]]
          [] OTHER ->
                CASE ~s.slot[k].committing \/ LeafDone(s, c) ->
                        [go |-> TRUE, s |-> [s EXCEPT !.cursor = @ + 1]]
                  [] s.slot[k].committing /\ ~LeafDone(s, c) /\ l.k = 0 ->
                        [go |-> FALSE, s |-> l.s]
                  [] OTHER -> IF PageName(page) = Zero
                              THEN [go |-> TRUE, s |-> LeafNew(l.s, c, Zero)]
                              ELSE [go |-> FALSE,
                                    s |-> Issue([l.s EXCEPT !.jobChild = c], "put_leaf", q)]
CommitLeaves(s) == FoldLeft(CommitLeaf, [go |-> TRUE, s |-> s], [r \in 1..(Slots + 1) |-> r]).s

NewChildren(s) ==
    [n \in DOMAIN s.children |->
        LET mine == IF cfg.depth = 1 THEN {k \in Committing(s) : s.slot[k].idx = n - 1}
                    ELSE {k \in DOMAIN s.leafNew : s.leafNew[k].child = n - 1}
        IN  CASE mine = {} -> s.children[n]
              [] mine # {} /\ cfg.depth = 1 -> s.slot[Max(mine)].dig
              [] OTHER -> s.leafNew[Max(mine)].dig]
CommitRoot(s) == Issue(s, "put_root", [Frame("put_root", s) EXCEPT !.dig = NewChildren(s)])

\* Mutant: a page's refusal is not looked at.
OnPutAny(s, job, a) == IF job = "put_leaf" THEN LeafNew(s, s.jobChild, a.dig)
                       ELSE [s EXCEPT !.newRoot = a.dig, !.commit = "commit"]

OnPut(s, job, a) ==
    CASE a.status # "ok" -> BeginAbort(s)
      [] a.status = "ok" /\ job = "put_leaf" -> LeafNew(s, s.jobChild, a.dig)
      [] OTHER -> [s EXCEPT !.newRoot = a.dig, !.commit = "commit"]

\* The bind landed: the committed view is the new root.
Apply(s, rev) ==
    LET mine == Committing(s)
        fresh == {[child |-> LeafOf(s.slot[k].idx), at |-> At(s.slot[k].idx),
                   dig |-> s.slot[k].dig] : k \in mine}
        newDig(c) == {s.leafNew[n].dig : n \in {m \in DOMAIN s.leafNew : s.leafNew[m].child = c}}
        page(l) == [n \in DOMAIN l.data |->
                       IF \E f \in fresh : f.child = l.child /\ f.at = n
                       THEN (CHOOSE f \in fresh : f.child = l.child /\ f.at = n).dig
                       ELSE l.data[n]]
    IN  [s EXCEPT !.rev = rev, !.root = s.newRoot, !.children = NewChildren(s),
                  !.slot = [k \in 1..Slots |-> IF k \in mine
                                               THEN [@[k] EXCEPT !.st = "clean",
                                                                 !.committing = FALSE]
                                               ELSE @[k]],
                  !.leaf = [k \in 1..LeafSlots |->
                               LET l == @[k]
                               IN  IF cfg.depth = 2 /\ l.valid /\ newDig(l.child) # {}
                                   THEN [l EXCEPT !.data = page(l),
                                                  !.dig = CHOOSE d \in newDig(l.child) : TRUE]
                                   ELSE l],
                  !.staged = 0, !.dgen = s.cgen, !.commit = "idle", !.flushWanted = FALSE]

OnVolume(s, job, a, late) ==
    CASE job = "begin" /\ a.status = "ok" ->
            [s EXCEPT !.slot = [k \in 1..Slots |->
                                   [@[k] EXCEPT !.committing = @ \/ s.slot[k].st = "staged"]],
                      !.cgen = s.gen, !.cursor = 1, !.commit = "bodies"]
      [] job = "begin" /\ a.status = "busy" -> IF late THEN GiveUp(s) ELSE s
      [] job = "begin" /\ a.status = "lost" -> Fail(s)
      [] job = "begin" /\ a.status \notin {"ok", "busy", "lost"} -> GiveUp(s)
      [] job = "commit" -> IF a.status = "ok" THEN Apply(s, a.rev) ELSE Fail(s)
      [] job = "abort" -> GiveUp(s)

CommitNext(s) ==
    CASE s.commit = "begin" -> Issue(s, "begin", Frame("begin", s))
      [] s.commit = "bodies" -> CommitBodies(s)
      [] s.commit = "leaves" -> CommitLeaves(s)
      [] s.commit = "root" -> CommitRoot(s)
      [] s.commit = "commit" -> Issue(s, "commit", [Frame("commit", s) EXCEPT !.dig = s.newRoot,
                                                                              !.rev = s.rev])
      [] s.commit = "abort" -> Issue(s, "abort", Frame("abort", s))

-----------------------------------------------------------------------------
(* The module's step.                                                       *)

OnLease(s, job, a) ==
    CASE job = "acquire" /\ a.status = "ok" ->
            IF cfg.expect \notin {0, a.fence} THEN Fail(s)
            ELSE [s EXCEPT !.fence = a.fence, !.age = s.jobAge, !.phase = "lookup"]
      [] job = "renew" /\ a.status = "ok" /\ a.fence = s.fence -> [s EXCEPT !.age = s.jobAge]
      [] a.status = "busy" -> s
      [] OTHER -> Fail(s)

OnLookup(s, a) == IF a.status # "ok" THEN Fail(s)
                  ELSE [s EXCEPT !.root = a.dig, !.rev = a.rev, !.phase = "root"]
OnRoot(s, a) == IF a.status # "ok" THEN Fail(s)
                ELSE [s EXCEPT !.children = a.dig, !.phase = "ready"]

OnAck(s, a, late) ==
    LET t == [s EXCEPT !.job = "none", !.hand = <<>>, !.acks = @ \ {a}]
    IN  CASE a.cid # 0 -> Fail(t)
          [] a.cid = 0 /\ s.job \in {"acquire", "renew"} -> OnLease(t, s.job, a)
          [] s.job = "lookup" -> OnLookup(t, a)
          [] s.job = "root" -> OnRoot(t, a)
          [] s.job = "leaf" -> OnLeaf(t, a)
          [] s.job = "extent" -> OnExtent(t, a)
          [] s.job \in {"begin", "commit", "abort"} -> OnVolume(t, s.job, a, late)
          [] s.job \in {"put_leaf", "put_root"} -> OnPut(t, s.job, a)
          [] s.job = "release" -> [t EXCEPT !.drained = TRUE]

PumpJob(s, late) ==
    LET t == Hand(s)
    IN  CASE s.job = "none" -> s
          [] s.job = "bodies" -> BodiesPump(s, late)
          [] s.job \notin {"none", "bodies"} /\ t.hand # <<>> -> TimeoutCheck(t, late)
          [] OTHER -> IF t.acks = {} THEN TimeoutCheck(t, late)
                      ELSE OnAck(t, CHOOSE a \in t.acks : TRUE, late)

\* Mutant: past half of it, when the renewal has yet to be asked for.
LeaseGuardEarly(s) == IF s.phase = "ready" /\ s.age >= 2 THEN Fail(s) ELSE s
\* Past three quarters of the TTL with no renewal granted.
LeaseGuard(s) == IF s.phase = "ready" /\ s.age >= 3 THEN Fail(s) ELSE s

IssueLease(s, job) == Issue(s, job, Frame(job, s))
ScheduleReady(s) ==
    CASE s.age >= 2 -> IssueLease(s, "renew")
      [] s.age < 2 /\ s.commit # "idle" -> CommitNext(s)
      [] s.age < 2 /\ s.commit = "idle" /\ s.draining /\ ~s.flushWanted /\ Queued(s) = 0 ->
            IssueLease(s, "release")
      [] OTHER -> IF s.flushWanted /\ s.staged > 0
                  THEN CommitNext([s EXCEPT !.commit = "begin"])
                  ELSE FetchNext([s EXCEPT !.flushWanted = FALSE])
Schedule(s) ==
    CASE s.phase = "failed" \/ s.job # "none" -> s
      [] s.phase = "lease" /\ s.job = "none" -> IssueLease(s, "acquire")
      [] s.phase = "lookup" /\ s.job = "none" -> Issue(s, "lookup", Frame("lookup", s))
      [] s.phase = "root" /\ s.job = "none" ->
            Issue(s, "root", [Frame("get_root", s) EXCEPT !.dig = s.root])
      [] OTHER -> ScheduleReady(s)

\* The next request to serve, or the end of the step.
Onward(s, i) ==
    LET rest == {k \in Used(s) : k >= i}
    IN  IF s.phase \in {"ready", "failed"} /\ rest # {} THEN [s EXCEPT !.pc = Min(rest)]
        ELSE [Schedule(s) EXCEPT !.pc = 0]

-----------------------------------------------------------------------------
(* The node, as this module's requests meet it.                             *)

Pages(root) == IF cfg.depth = 1 THEN {} ELSE Range(root) \ {Zero}
Extents(root) == (IF cfg.depth = 1 THEN Range(root) ELSE UNION {Range(p) : p \in Pages(root)})
                 \ {Zero}
Holds(n, root) == root \in n.root /\ Pages(root) \subseteq n.leaf /\ Extents(root) \subseteq n.ext
Stored(n, root) == [n EXCEPT !.root = @ \cup {root}, !.leaf = @ \cup Pages(root),
                             !.ext = @ \cup Extents(root)]

\* How a request may be refused that would have been granted.
Faults(q) ==
    CASE q.op \in {"put_extent", "put_leaf", "put_root", "commit", "abort", "release"} -> {"nak"}
      [] q.op \in {"begin", "acquire", "renew"} -> {"busy", "nak"}
      [] q.op \in {"lookup", "get_root", "get_leaf", "get_extent"} ->
            IF cfg.unreadable THEN {"nak"} ELSE {}

Mine(q) == srv.holder = q.inst /\ srv.fence = q.fence
Answer(q) ==
    LET ok(n) == [n |-> n, a |-> Ack(q, "ok")]
        no(status) == [n |-> srv, a |-> Ack(q, status)]
        had(S) == IF q.dig \in S THEN ok(srv) ELSE no("not_found")
        grant == [srv EXCEPT !.holder = q.inst, !.fence = @ + 1, !.age = 0]
        bound == [srv EXCEPT !.bound = q.dig, !.rev = @ + 1, !.flush = FALSE, !.dgen = v.cgen]
    IN  CASE q.op = "acquire" ->
                IF srv.holder # 0 THEN no("held")
                ELSE [n |-> grant, a |-> [Ack(q, "ok") EXCEPT !.fence = grant.fence]]
          [] q.op = "renew" ->
                IF ~Mine(q) THEN no("lost")
                ELSE [n |-> [srv EXCEPT !.age = 0], a |-> [Ack(q, "ok") EXCEPT !.fence = q.fence]]
          [] q.op = "release" -> ok(IF Mine(q) THEN [srv EXCEPT !.holder = 0] ELSE srv)
          [] q.op = "lookup" ->
                [n |-> [srv EXCEPT !.taken = FALSE, !.dgen = 0],
                 a |-> [Ack(q, "ok") EXCEPT !.dig = srv.bound, !.rev = srv.rev]]
          [] q.op = "get_root" -> had(srv.root)
          [] q.op = "get_leaf" -> had(srv.leaf)
          [] q.op = "get_extent" -> had(srv.ext)
          [] q.op = "put_extent" -> ok([srv EXCEPT !.ext = @ \cup {q.dig}])
          [] q.op = "put_leaf" -> ok([srv EXCEPT !.leaf = @ \cup {q.dig}])
          [] q.op = "put_root" -> ok([srv EXCEPT !.root = @ \cup {q.dig}])
          [] q.op = "begin" -> IF Mine(q) THEN ok([srv EXCEPT !.flush = TRUE]) ELSE no("lost")
          [] q.op = "abort" -> ok(IF Mine(q) THEN [srv EXCEPT !.flush = FALSE] ELSE srv)
          [] q.op = "commit" ->
                IF Mine(q) /\ srv.rev = q.rev
                THEN [n |-> bound, a |-> [Ack(q, "ok") EXCEPT !.rev = bound.rev]]
                ELSE no("lost")

-----------------------------------------------------------------------------
(* Steps.                                                                   *)

Init ==
    /\ cfg \in Configs
    /\ v = NewVolume(1)
    /\ srv = Stored([bound |-> cfg.bound, rev |-> 1, holder |-> 0, fence |-> 0, age |-> 0,
                     flush |-> FALSE, ext |-> {}, leaf |-> {}, root |-> {},
                     taken |-> FALSE, dgen |-> 0, cause |-> FALSE], cfg.bound)
    /\ user = 1
    /\ said = <<>>

SaidOf(s, p, a) ==
    [r |-> p.req, got |-> IF a = "read" THEN ReadBytes(s, p.req) ELSE <<>>,
     floor |-> IF a = "read" THEN 0 ELSE p.floor, durable |-> a = "durable"]
Tell(o) == said' = IF o.a \in {"none", "error"} THEN said ELSE <<SaidOf(o.s, o.p, o.a)>>

\* The step reports done: drained, or draining with no lease to give back.
Ended == v.drained \/ (v.draining /\ v.phase # "ready" /\ v.job = "none")
Running == v.pc = 0 /\ ~Ended

Stepped(late) == Onward(LeaseGuard(PumpJob(v, late)), 1)
Pumped(late) ==
    /\ Running
    /\ v' = Stepped(late)
    /\ UNCHANGED <<srv, user, cfg, said>>
Pump == \E late \in BOOLEAN : Pumped(late)

Serve ==
    /\ v.pc # 0
    /\ LET o == Run(v, v.pend[v.pc])
           t == IF o.a = "none" THEN [o.s EXCEPT !.pend[v.pc] = o.p]
                ELSE PushDone([o.s EXCEPT !.pend[v.pc] = NoPending])
       IN  v' = Onward(t, v.pc + 1) /\ Tell(o)
    /\ UNCHANGED <<srv, user, cfg>>

Asked == cfg.asks[user]
Asking == v.pc = 0 /\ user <= Len(cfg.asks)

\* Consumers that order the requests that overlap.
Apart(r) == cfg.overlap \/ \A k \in Used(v) : Blocks(v.pend[k].req) \cap Blocks(r) = {}

\* Refused: draining, or failed.
Refuse ==
    /\ Asking
    /\ v.draining \/ v.phase = "failed"
    /\ user' = user + 1
    /\ UNCHANGED <<v, srv, cfg, said>>

Exec ==
    /\ Asking
    /\ Asked.how = "exec" /\ Apart(Asked)
    /\ ~v.draining /\ v.phase = "ready"
    /\ LET o == Run(v, NewPending(v, Asked))
       IN  /\ v' = o.s
           /\ user' \in (IF o.a = "none" THEN {user} ELSE {}) \cup
                        (IF o.a # "none" \/ cfg.gives THEN {user + 1} ELSE {})
           /\ Tell(o)
    /\ UNCHANGED <<srv, cfg>>

Submit ==
    /\ Asking
    /\ Asked.how = "submit" /\ Apart(Asked)
    /\ ~v.draining /\ v.phase = "ready"
    /\ Queued(v) < Depth
    /\ LET o == Run(v, NewPending(v, Asked))
       IN  /\ v' = IF o.a = "none"
                   THEN [o.s EXCEPT !.pend[Min((1..Depth) \ Used(v))] = o.p]
                   ELSE PushDone(o.s)
           /\ Tell(o)
    /\ user' = user + 1
    /\ UNCHANGED <<srv, cfg>>

Reap ==
    /\ v.pc = 0 /\ v.done > 0
    /\ v' = [v EXCEPT !.done = @ - 1]
    /\ UNCHANGED <<srv, user, cfg, said>>

Drain ==
    /\ v.pc = 0 /\ cfg.drains /\ ~v.draining
    /\ v' = [v EXCEPT !.draining = TRUE, !.flushWanted = TRUE]
    /\ UNCHANGED <<srv, user, cfg, said>>

\* cause: history of what may close the device.
Closing == {"lost", "held", "not_found"}
Vital == {"acquire", "renew", "commit", "lookup", "get_root", "get_leaf", "get_extent"}

ServerStep ==
    /\ v.tx # <<>>
    /\ LET q == v.tx[1]
           r == Answer(q)
           deliver(a) == [v EXCEPT !.tx = <<>>,
                                   !.acks = IF v.phase = "failed" THEN {} ELSE @ \cup {a}]
       IN  \/ /\ srv' = [r.n EXCEPT !.cause = @ \/ r.a.status \in Closing]
              /\ v' = deliver(r.a)
              /\ UNCHANGED cfg
           \/ /\ cfg.faults > 0
              /\ \E status \in Faults(q) :
                    /\ v' = deliver(Ack(q, status))
                    /\ srv' = [srv EXCEPT !.cause = @ \/ (status = "nak" /\ q.op \in Vital)]
              /\ cfg' = [cfg EXCEPT !.faults = @ - 1]
           \/ /\ cfg.losses > 0
              /\ \E n \in {srv, r.n} : srv' = [n EXCEPT !.cause = TRUE]
              /\ v' = [v EXCEPT !.tx = <<>>]
              /\ cfg' = [cfg EXCEPT !.losses = @ - 1]
    /\ UNCHANGED <<user, said>>

\* A quarter of the lease's TTL passes.
Older(n) == IF n < 4 THEN n + 1 ELSE n
Tick ==
    /\ cfg.ticks > 0
    /\ v' = [v EXCEPT !.age = Older(@), !.jobAge = Older(@)]
    /\ srv' = [srv EXCEPT !.age = Older(@), !.cause = @ \/ Older(v.age) >= 3]
    /\ cfg' = [cfg EXCEPT !.ticks = @ - 1]
    /\ UNCHANGED <<user, said>>

Lapse ==
    /\ srv.holder # 0 /\ srv.age >= 4
    /\ srv' = [srv EXCEPT !.holder = 0, !.flush = FALSE]
    /\ UNCHANGED <<v, user, cfg, said>>

\* Another writer takes the volume and commits.
Rival ==
    /\ cfg.rivals /\ srv.holder = 0 /\ srv.fence > 0
    /\ srv' = [Stored(srv, cfg.other) EXCEPT !.bound = cfg.other, !.rev = @ + 1, !.fence = @ + 1,
                                             !.taken = TRUE]
    /\ cfg' = [cfg EXCEPT !.rivals = FALSE]
    /\ UNCHANGED <<v, user, said>>

\* The orphan sweep, held off by an open flush.
Sweep ==
    /\ cfg.sweeps /\ ~srv.flush
    /\ srv' = Stored([srv EXCEPT !.root = {}, !.leaf = {}, !.ext = {}], srv.bound)
    /\ UNCHANGED <<v, user, cfg, said>>

\* The instance is gone, drained or not; another takes its place.
Reopen ==
    /\ v.pc = 0 /\ cfg.reopens > 0
    /\ v' = NewVolume(v.inst + 1)
    /\ cfg' = [cfg EXCEPT !.reopens = @ - 1]
    /\ UNCHANGED <<srv, user, said>>

Next ==
    \/ Pump \/ Serve \/ Refuse \/ Exec \/ Submit \/ Reap \/ Drain
    \/ ServerStep \/ Tick \/ Lapse \/ Rival \/ Sweep \/ Reopen

Spec == Init /\ [][Next]_vars

\* The kernel steps the module again and again, the node answers and the
\* consumer reaps: weak fairness of each, with the action's guard written out.
\* Time passes: an exchange no answer will come to is one day late.
PumpMoves == Running /\ \E late \in BOOLEAN : Stepped(late) # v
FairSpec ==
    /\ Spec
    /\ []<>~PumpMoves \/ []<><<Pump>>_vars
    /\ []<>~Stranded(v) \/ []<><<Pumped(TRUE)>>_vars
    /\ []<>(v.pc = 0) \/ []<><<Serve>>_vars
    /\ []<>(v.tx = <<>> \/ v.phase = "failed") \/ []<><<ServerStep>>_vars
    /\ []<>(v.pc # 0 \/ v.done = 0) \/ []<><<Reap>>_vars

-----------------------------------------------------------------------------
(* Properties.                                                              *)

\* The counters module_step_impl keeps agree with the tables they count: staged
\* with the slots that are, the pages of a commit with STAGED_MAX, the requests
\* queued with QUEUE_DEPTH, and a commit runs only on a device that is open.
TypeOK ==
    /\ v.phase \in {"lease", "lookup", "root", "ready", "failed"}
    /\ v.staged = Cardinality({k \in 1..Slots : v.slot[k].st = "staged"})
    /\ v.staged <= StagedMax /\ Len(v.leafNew) <= StagedMax
    /\ v.dgen <= v.cgen /\ v.cgen <= v.gen
    /\ Queued(v) <= Depth
    /\ v.commit # "idle" => v.phase = "ready"

\* The device's view of the volume is the one its lookup read.
Looked == {a \in v.acks : v.job = "lookup" /\ a.status = "ok"}
Opened == v.phase \in {"root", "ready"} \/ Looked # {}
View == IF Looked # {} THEN (CHOOSE a \in Looked : TRUE).dig ELSE v.root
Bound == ContentOf(srv.bound)
Current ==
    [b \in Block |-> LET i == b \div Per
                     IN  IF v.phase = "ready" /\ Resident(v, i)
                         THEN v.slot[FindExtent(v, i)].data[(b % Per) + 1]
                         ELSE ContentOf(View)[b]]

Device == INSTANCE BlockDevice WITH
    cur <- IF Opened THEN Current ELSE Bound,
    dur <- Bound,
    gen <- IF Opened THEN v.gen ELSE 0,
    dgen <- IF Opened THEN srv.dgen ELSE 0,
    open <- Opened,
    taken <- Opened /\ srv.taken,
    said <- said,
    Contents <- [Block -> Vals],
    Requests <- UNION {Range(c.asks) : c \in Configs}

\* The device is the block device a consumer expects, over every fetch, evicted
\* extent, abandoned commit, lost lease, lost answer and new instance: what the
\* resident extents (find_extent) and the committed map hold together changes
\* only by a whole write, a read answers it, apply makes durable exactly what
\* BEGIN saw staged, and run answers a FLUSH, FUA or PREFLUSH only after that.
Implements == Device!Spec

\* What is bound can be read: on_volume asks for the COMMIT of a root only once
\* every leaf and extent it reaches is stored, whichever PUT was refused and
\* whatever the orphan sweep took after an abort.
BoundReadable == Holds(srv, srv.bound)

\* While a commit has at most two bodies (StagedMax = 2, as in the run), the device
\* closes only for what the calls of fail name: a lease lost, held or not renewed in time, a
\* commit refused, a committed body unreadable, a node that stops answering.  A
\* refused PUT or BEGIN then only abandons its commit.  With a third body it need
\* not: bodies_pump, refused while a PUT is built and not handed over, waits for
\* that PUT's answer until its timeout closes the device.
ClosedForCause == v.phase = "failed" => srv.cause

\* A request SUBMIT queued is answered: with what it asked for, or with an error
\* once the device closes or the commit it waits for is abandoned.  A drain comes
\* to the step that reports done.
RequestAnswered ==
    /\ \A k \in 1..Depth : v.pend[k].used ~> ~v.pend[k].used
    /\ v.draining ~> (Ended \/ ~v.draining)

\* A drain that gave its lease back left nothing uncommitted that a write was
\* answered for (the comment on drain).
DrainCommits == v.drained => Current = Bound
=============================================================================
