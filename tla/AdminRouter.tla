---------------------------- MODULE AdminRouter ----------------------------
(***************************************************************************)
(* admin_router: the admin operations, composed of requests to the         *)
(* namespace, the body plane and the object index, and the orphan sweep    *)
(* beside them.  From admin_router_body.rs.                                *)
(*                                                                         *)
(* A handler runs to its end in one step and calls the others, so handlers *)
(* are operators from router state to router state: the variable ar.  A    *)
(* request queue of ar stands for the router's own queue and the channel   *)
(* behind it.  The namespace and the object index answer in order, the     *)
(* body plane carries requests out in order and answers in any.            *)
(***************************************************************************)
EXTENDS AdminPlanes

CONSTANTS
    Clients,     \* requesters 1 .. Clients, one request each at a time
    PutFiles,    \* ADMIN_PUTFILE
    Streams,     \* ADMIN_STREAMED_PUTFILE
    Retries,     \* ADMIN_WRITE_RETRIES
    BodyQueue,   \* whole frames BODY_QUEUE holds
    Configs      \* what clients ask, what is there, how large the tables are

Client == 1..Clients

ASSUME RouterAssumption ==
    {Clients, PutFiles, Streams, Retries, BodyQueue} \subseteq Nat \ {0}

\* What a client asks, and a configuration: the scripts, what is stored at
\* first, the sizes of the tables and channels, and what may yet happen.
AskOp == {"put_file", "delete_file", "retain", "bind", "lease", "begin", "commit", "lookup",
          "list", "put_body", "get_body", "get_file", "stat", "range", "delete_body",
          "put_keyed", "put_open", "put_chunk", "put_commit"}
Request == [op : AskOp, key : Key, dig : 0..NDigests, rev : Nat, mode : {"any", "absent", "if"},
            expect : 0..NDigests, held : BOOLEAN]
Config == [asks : [Client -> Seq(Request)], bound : [Key -> Binding], bodies : SUBSET Digest,
           descs : SUBSET Digest, pend : Nat, queue : Nat, answers : Nat, sweeps : Nat,
           faults : Nat, lapses : BOOLEAN, merges : Nat]
ASSUME ConfigsAssumption == Configs \subseteq Config

VARIABLES
    ar,      \* the router
    ns, bodies, objs,   \* the planes
    ans,     \* their answers on the way
    user,    \* where each client is in its requests
    cfg,     \* the configuration, its sweeps and faults counted down
    done     \* history: whether a plane carried out the write a client asked for

vars == <<ar, ns, bodies, objs, ans, user, cfg, done>>

-----------------------------------------------------------------------------
(* Requests and answers on the admin wire.                                  *)

Ask(op) == [op |-> op, key |-> 1, dig |-> None, rev |-> 0, mode |-> "any", expect |-> None,
            held |-> FALSE]
AskKey(op, k) == [Ask(op) EXCEPT !.key = k]
AskDigest(op, d) == [Ask(op) EXCEPT !.dig = d]
AskPut(k, d, held) == [Ask("put_file") EXCEPT !.key = k, !.dig = d, !.held = held]
IfAbsent(q) == [q EXCEPT !.mode = "absent"]
IfHolds(q, d) == [q EXCEPT !.mode = "if", !.expect = d]
AskOpen(k, d) == [Ask("put_open") EXCEPT !.key = k, !.dig = d]
AskBind(k, d, rev) == [Ask("bind") EXCEPT !.key = k, !.dig = d, !.rev = rev]
AskCommit(k, d, rev) == [Ask("commit") EXCEPT !.key = k, !.dig = d, !.rev = rev]

Status == {"ok", "busy", "nak", "conflict", "exists", "not_found", "retained", "quota", "lost"}
Answer(cid, op, status, x) == [cid |-> cid, op |-> op, status |-> status, x |-> x]
NoAnswer == Answer(0, "none", "ok", None)

-----------------------------------------------------------------------------
(* Tables and queues.                                                       *)

FreeSlot == [op |-> "free", stage |-> "done", cid |-> 0, key |-> 1, dig |-> None, rev |-> 0,
             described |-> FALSE, attempts |-> 0, mode |-> "any", expect |-> None,
             held |-> FALSE]
FreeStream == [open |-> FALSE, wid |-> None, key |-> 1, dig |-> None, mode |-> "any",
               expect |-> None, held |-> FALSE]
IdleGc == [phase |-> "body", asked |-> FALSE, at |-> 0, objAt |-> 0, queue |-> <<>>,
           wrapped |-> FALSE, reserved |-> FALSE, check |-> 0, view |-> None, next |-> 0,
           roots |-> <<>>, leaves |-> <<>>]
IdleRaw == [stage |-> "idle", op |-> "none", cid |-> 0, dig |-> None, status |-> "nak"]

\* module_new_impl.
NewRouter == [nsPend |-> <<>>, nsTx |-> <<>>, objPend |-> <<>>, objTx |-> <<>>,
              bodyPend |-> {}, bodyTx |-> <<>>,
              put |-> [i \in 1..PutFiles |-> FreeSlot],
              spf |-> [i \in 1..Streams |-> FreeStream],
              gc |-> IdleGc, raw |-> IdleRaw, owed |-> NoAnswer]

Entry(cid, op, i, x) == [cid |-> cid, op |-> op, i |-> i, x |-> x]
Sweeper(op) == Entry(0, op, 0, None)
RawHeld(cid) == Entry(cid, "raw", 0, None)

\* A ring of cfg.pend entries holds one less.
Full(pend) == Len(pend) >= cfg.pend - 1
Refused(s) == [ok |-> FALSE, s |-> s]
UnenqueueTail(pend) == SubSeq(pend, 1, Len(pend) - 1)

\* The entry first, then the request, and the entry taken back when the
\* queue behind has no room.
ForwardNs(s, e, q) ==
    LET t == [s EXCEPT !.nsPend = Append(@, e)]
    IN  IF Full(s.nsPend) THEN Refused(s)
        ELSE IF Len(s.nsTx) >= cfg.queue
             THEN Refused([t EXCEPT !.nsPend = UnenqueueTail(@)])
             ELSE [ok |-> TRUE, s |-> [t EXCEPT !.nsTx = Append(@, q)]]

ForwardObj(s, e, q) ==
    LET t == [s EXCEPT !.objPend = Append(@, e)]
    IN  IF Full(s.objPend) THEN Refused(s)
        ELSE IF Len(s.objTx) >= cfg.queue
             THEN Refused([t EXCEPT !.objPend = UnenqueueTail(@)])
             ELSE [ok |-> TRUE, s |-> [t EXCEPT !.objTx = Append(@, q)]]

\* The code counts correlation ids up past those still awaited; here an id
\* is the least of those.
FreshId(s) == LET used == {p.id : p \in s.bodyPend}
              IN  CHOOSE n \in 1..(Cardinality(used) + 1) :
                     n \notin used /\ \A m \in 1..(n - 1) : m \in used
ForwardBody(s, e, q) ==
    IF Cardinality(s.bodyPend) >= cfg.pend THEN Refused(s)
    ELSE [ok |-> TRUE,
          s |-> [s EXCEPT !.bodyPend = @ \cup {[id |-> FreshId(s), e |-> e]},
                          !.bodyTx = Append(@, [q EXCEPT !.id = FreshId(s)])]]

\* Room for a whole frame behind those still queued.
HasRoom(s) == Len(SelectSeq(s.bodyTx, Large)) < BodyQueue

\* An owed answer owns the router: it takes no request and no other answer
\* until the channel has it.
Ready(s) == s.owed = NoAnswer /\ HasRoom(s)
Reply(s, cid, op, status, x) == [s EXCEPT !.owed = Answer(cid, op, status, x)]

FreePuts(s) == {i \in 1..PutFiles : s.put[i].op = "free"}
FreeSpfs(s) == {i \in 1..Streams : ~s.spf[i].open}
Least(S) == CHOOSE i \in S : \A j \in S : i <= j

-----------------------------------------------------------------------------
(* Composed operations.  The key's binding is read, the condition decided   *)
(* against it, and the write made at the next revision on condition that    *)
(* the key still holds the one read.                                        *)

ComposedFinish(s, i, status) ==
    Reply([s EXCEPT !.put[i] = FreeSlot], s.put[i].cid, s.put[i].op, status,
          IF status = "ok" THEN s.put[i].dig ELSE None)

\* Mutant: an operation that cannot go on is not answered.
OrFinishSilent(f, i, status) == f.s
OrFinish(f, i, status) == IF f.ok THEN f.s ELSE ComposedFinish(f.s, i, status)

Staged(s, i, stage) == [s EXCEPT !.put[i].stage = stage]
SlotEntry(s, i) == Entry(s.put[i].cid, s.put[i].op, i, None)

ComposedLookup(s, i) ==
    LET p == s.put[i]
    IN  OrFinish(ForwardNs(Staged(s, i, "lookup"), SlotEntry(s, i),
                           [NsReq("lookup", p.cid) EXCEPT !.key = p.key]), i, "busy")

ComposedWrite(s, i, op) ==
    LET p == s.put[i]
    IN  OrFinish(ForwardNs(Staged(s, i, op), SlotEntry(s, i),
                           [NsReq(op, p.cid) EXCEPT !.key = p.key, !.dig = p.dig, !.cond = TRUE,
                                                    !.rev = p.rev + 1, !.held = p.held]),
                 i, "busy")
ComposedBind(s, i) == ComposedWrite(s, i, "bind")
ComposedUnbind(s, i) == ComposedWrite(s, i, "unbind")
ComposedRetain(s, i) == ComposedWrite(s, i, "retain")

ObjectStage(s, i) ==
    OrFinish(ForwardObj(Staged(s, i, "object"), SlotEntry(s, i),
                        ObjReq("put", s.put[i].dig)), i, "busy")

ComposedDecide(s, i, a) ==
    LET p == s.put[i]
        t == [s EXCEPT !.put[i].rev = a.rev]
    IN  CASE a.v = "found" /\ p.mode = "absent" -> ComposedFinish(s, i, "exists")
          [] a.v = "found" /\ p.mode = "if" /\ a.obj # p.expect ->
                ComposedFinish(s, i, "conflict")
          [] a.v # "found" /\ p.op # "put_file" -> ComposedFinish(s, i, "not_found")
          [] a.v # "found" /\ p.op = "put_file" /\ p.mode = "if" ->
                ComposedFinish(s, i, "conflict")
          [] OTHER -> CASE p.op = "retain" -> ComposedRetain(t, i)
                        [] p.op = "delete_file" -> ComposedUnbind(t, i)
                        [] p.op = "put_file" /\ ~p.described -> ObjectStage(t, i)
                        [] p.op = "put_file" /\ p.described -> ComposedBind(t, i)

NsWriteStatus(v) == CASE v = "ok" -> "ok"
                      [] v \in {"stale", "condition"} -> "conflict"
                      [] v = "reserved" -> "busy"
                      [] v = "retained" -> "retained"
                      [] OTHER -> "nak"

\* The slot an answer is for, if it still holds the operation.
HoldsSlot(s, e) == s.put[e.i].op # "free" /\ s.put[e.i].cid = e.cid

\* Mutant: a revision already taken is taken for this write's own.
ComposedNsAnswerOwn(s, e, a) ==
    LET i == e.i
    IN  CASE ~HoldsSlot(s, e) -> s
          [] HoldsSlot(s, e) /\ s.put[i].stage = "lookup" -> ComposedDecide(s, i, a)
          [] OTHER -> ComposedFinish(s, i, IF a.v = "stale" THEN "ok" ELSE NsWriteStatus(a.v))
ComposedNsAnswer(s, e, a) ==
    LET i == e.i
        t == [s EXCEPT !.put[i].attempts = @ + 1]
    IN  CASE ~HoldsSlot(s, e) -> s
          [] HoldsSlot(s, e) /\ s.put[i].stage = "lookup" -> ComposedDecide(s, i, a)
          [] OTHER -> IF a.v \in {"stale", "condition"}
                      THEN IF t.put[i].attempts > Retries
                           THEN ComposedFinish(t, i, "busy")
                           ELSE ComposedLookup(t, i)
                      ELSE ComposedFinish(s, i, NsWriteStatus(a.v))

PutFileObjectAnswer(s, e, a) ==
    CASE ~HoldsSlot(s, e) -> s
      [] HoldsSlot(s, e) /\ a.v # "ok" ->
            ComposedFinish(s, e.i, IF a.v = "quota" THEN "quota" ELSE "nak")
      [] OTHER -> ComposedBind([s EXCEPT !.put[e.i].described = TRUE], e.i)

PutFileBodyAnswer(s, e, a) ==
    CASE ~HoldsSlot(s, e) -> s
      [] HoldsSlot(s, e) /\ a.v # "ok" -> ComposedFinish(s, e.i, "nak")
      [] OTHER -> ComposedLookup([s EXCEPT !.put[e.i].dig = a.dig], e.i)

Slot(c, q, stage) == [FreeSlot EXCEPT !.op = q.op, !.stage = stage, !.cid = c, !.key = q.key,
                                      !.mode = q.mode, !.expect = q.expect,
                                      !.held = q.held, !.dig = q.dig]

HandlePutFile(s, c, q) ==
    IF FreePuts(s) = {} THEN Reply(s, c, q.op, "busy", None)
    ELSE LET i == Least(FreePuts(s))
             f == ForwardBody([s EXCEPT !.put[i] = Slot(c, q, "body")],
                              Entry(c, "put_file", i, None), BodyReq("put", c, q.dig))
         IN  IF f.ok THEN f.s ELSE Reply(s, c, q.op, "busy", None)

HandleDeleteFile(s, c, q) ==
    CASE q.mode = "absent" -> Reply(s, c, q.op, "nak", None)
      [] q.mode # "absent" /\ FreePuts(s) = {} -> Reply(s, c, q.op, "busy", None)
      [] OTHER -> LET i == Least(FreePuts(s))
                  IN  ComposedLookup([s EXCEPT !.put[i] = Slot(c, q, "lookup")], i)

HandleRetain(s, c, q) ==
    IF FreePuts(s) = {} THEN Reply(s, c, q.op, "busy", None)
    ELSE LET i == Least(FreePuts(s))
         IN  ComposedLookup([s EXCEPT !.put[i] = Slot(c, q, "lookup")], i)

-----------------------------------------------------------------------------
(* Streamed writes: a slot from OPEN to COMMIT, then a composed write.      *)

FreeSpf(s, i) == [s EXCEPT !.spf[i] = FreeStream]

HandlePutFileOpen(s, c, q) ==
    IF FreeSpfs(s) = {} THEN Reply(s, c, q.op, "busy", None)
    ELSE LET i == Least(FreeSpfs(s))
             t == [s EXCEPT !.spf[i] = [open |-> TRUE, wid |-> None, key |-> q.key,
                                        dig |-> q.dig, mode |-> q.mode,
                                        expect |-> q.expect, held |-> q.held]]
             f == ForwardBody(t, Entry(c, q.op, i, None), BodyReq("wopen", c, q.dig))
         IN  IF f.ok THEN f.s ELSE Reply(FreeSpf(s, i), c, q.op, "busy", None)

SpfOpenAnswer(s, e, a) ==
    IF a.v = "ok" THEN Reply([s EXCEPT !.spf[e.i].wid = a.wid], e.cid, e.op, "ok", e.i)
    ELSE Reply(FreeSpf(s, e.i), e.cid, e.op, "nak", None)

\* i is the id the OPEN gave the client.
HandlePutFileChunk(s, c, q, i) ==
    LET f == ForwardBody(s, Entry(c, q.op, i, None),
                         [BodyReq("wappend", c, None) EXCEPT !.wid = s.spf[i].wid])
    IN  IF s.spf[i].wid # None /\ f.ok THEN f.s ELSE Reply(s, c, q.op, "nak", None)

SpfChunkAnswer(s, e, a) ==
    IF a.v = "ok" THEN Reply(s, e.cid, e.op, "ok", None)
    ELSE FreeSpf(Reply(s, e.cid, e.op, "nak", None), e.i)

\* A commit is answered as PUT_FILE is.
HandlePutFileCommit(s, c, q, i) ==
    LET f == ForwardBody(s, Entry(c, q.op, i, None),
                         [BodyReq("wcommit", c, None) EXCEPT !.wid = s.spf[i].wid])
    IN  CASE s.spf[i].wid = None -> Reply(s, c, "put_file", "nak", None)
          [] s.spf[i].wid # None /\ ~f.ok -> Reply(FreeSpf(s, i), c, "put_file", "nak", None)
          [] OTHER -> f.s

SpfCommitAnswer(s, e, a) ==
    LET t == FreeSpf(s, e.i)
        i == Least(FreePuts(s))
    IN  CASE a.v # "ok" \/ a.dig # s.spf[e.i].dig -> Reply(t, e.cid, "put_file", "nak", None)
          [] a.v = "ok" /\ a.dig = s.spf[e.i].dig /\ FreePuts(s) = {} ->
                Reply(t, e.cid, "put_file", "busy", None)
          [] OTHER -> ComposedLookup([t EXCEPT !.put[i] =
                          [FreeSlot EXCEPT !.op = "put_file", !.cid = e.cid, !.dig = a.dig,
                                           !.key = s.spf[e.i].key, !.mode = s.spf[e.i].mode,
                                           !.expect = s.spf[e.i].expect,
                                           !.held = s.spf[e.i].held]], i)

-----------------------------------------------------------------------------
(* Operations of one or two requests.                                       *)

OrReply(f, c, q, status) == IF f.ok THEN f.s ELSE Reply(f.s, c, q.op, status, None)

HandleBind(s, c, q) ==
    OrReply(ForwardNs(s, Entry(c, q.op, 0, None),
                      [NsReq("bind", c) EXCEPT !.key = q.key, !.dig = q.dig, !.rev = q.rev]),
            c, q, "busy")
HandleLease(s, c, q) ==
    OrReply(ForwardNs(s, Entry(c, q.op, 0, None), NsReq("lease", c)), c, q, "busy")
HandleVolume(s, c, q) ==
    OrReply(ForwardNs(s, Entry(c, q.op, 0, None),
                      [NsReq(q.op, c) EXCEPT !.key = q.key, !.dig = q.dig, !.rev = q.rev]),
            c, q, "busy")
HandleLookup(s, c, q) ==
    OrReply(ForwardNs(s, Entry(c, q.op, 0, None), [NsReq("lookup", c) EXCEPT !.key = q.key]),
            c, q, "busy")
HandleListFiles(s, c, q) ==
    OrReply(ForwardNs(s, Entry(c, q.op, 0, None), NsReq("list", c)), c, q, "busy")

VolumeStatus(v) == CASE v = "reserved" -> "busy"
                     [] v \in {"ok", "conflict", "lost", "retained"} -> v
                     [] OTHER -> "nak"
LookupStatus(v) == IF v = "found" THEN "ok" ELSE v

HandlePutBody(s, c, q) ==
    OrReply(ForwardBody(s, Entry(c, q.op, 0, None), BodyReq("put", c, q.dig)), c, q, "nak")
HandleGetBody(s, c, q) ==
    OrReply(ForwardBody(s, Entry(c, q.op, 0, None), BodyReq("get", c, q.dig)), c, q, "nak")
BodyStatus(v) == v

\* A read through a path: q.dig, if there is one, is the object it is pinned to.
HandleGetFile(s, c, q) ==
    OrReply(ForwardNs(s, Entry(c, q.op, 0, q.dig), [NsReq("lookup", c) EXCEPT !.key = q.key]),
            c, q, "busy")
HandlePathRead(s, c, q) ==
    OrReply(ForwardNs(s, Entry(c, q.op, 0, q.dig), [NsReq("lookup", c) EXCEPT !.key = q.key]),
            c, q, "busy")

ResolveRead(e, a) == CASE a.v # "found" -> "not_found"
                       [] a.v = "found" /\ e.x \notin {None, a.obj} -> "conflict"
                       [] OTHER -> "ok"

GetFileLookupAnswer(s, e, a) ==
    LET f == ForwardBody(s, Entry(e.cid, e.op, 0, None), BodyReq("get", e.cid, a.obj))
    IN  CASE ResolveRead(e, a) # "ok" -> Reply(s, e.cid, e.op, ResolveRead(e, a), None)
          [] ResolveRead(e, a) = "ok" /\ ~f.ok -> Reply(s, e.cid, e.op, "busy", None)
          [] OTHER -> f.s

\* As above, but a full table is answered NAK.
PathReadLookupAnswer(s, e, a) ==
    LET f == ForwardBody(s, Entry(e.cid, e.op, 0, None), BodyReq("get", e.cid, a.obj))
    IN  CASE ResolveRead(e, a) # "ok" -> Reply(s, e.cid, e.op, ResolveRead(e, a), None)
          [] ResolveRead(e, a) = "ok" /\ ~f.ok -> Reply(s, e.cid, e.op, "nak", None)
          [] OTHER -> f.s

-----------------------------------------------------------------------------
(* The raw body plane: a write or a delete under a digest its client names  *)
(* waits under a reservation until no retained binding is found to name it. *)

RawFinish(s) == Reply([s EXCEPT !.raw = IdleRaw], s.raw.cid, s.raw.op, s.raw.status, None)

RawRelease(s) ==
    LET t == [s EXCEPT !.raw.stage = "release"]
        f == ForwardNs(t, RawHeld(s.raw.cid), [NsReq("release", 0) EXCEPT !.dig = s.raw.dig])
    IN  IF f.ok THEN f.s ELSE RawFinish(t)
RawEnd(s, status) == RawRelease([s EXCEPT !.raw.status = status])

RawBegin(s, c, q) ==
    LET f == ForwardNs(s, RawHeld(c), [NsReq("reserve", 0) EXCEPT !.dig = q.dig])
    IN  IF \/ s.raw.stage # "idle" \/ s.gc.queue # <<>> \/ s.gc.asked
           \/ ~f.ok
        THEN Reply(s, c, q.op, "busy", None)
        ELSE [f.s EXCEPT !.raw = [stage |-> "reserve", op |-> q.op, cid |-> c, dig |-> q.dig,
                                  status |-> "nak"]]

RawCheck(s, at) ==
    LET f == ForwardNs(s, RawHeld(s.raw.cid), [NsReq("retained", 0) EXCEPT !.dig = s.raw.dig,
                                                                           !.at = at])
    IN  IF f.ok THEN f.s ELSE RawEnd(s, "busy")

RawForward(s) ==
    LET f == ForwardBody(s, Entry(s.raw.cid, s.raw.op, 0, None),
                         BodyReq(IF s.raw.op = "delete_body" THEN "delete" ELSE "put_keyed",
                                 s.raw.cid, s.raw.dig))
    IN  IF f.ok THEN [f.s EXCEPT !.raw.stage = "body"] ELSE RawEnd(s, "busy")

\* Mutant: the first page of the namespace answers for all of it.
RawNsAnswerFirst(s, a) ==
    CASE s.raw.stage = "reserve" ->
            IF a.yes THEN RawCheck([s EXCEPT !.raw.stage = "check"], 0)
            ELSE RawFinish([s EXCEPT !.raw.status = "busy"])
      [] s.raw.stage = "check" -> IF a.yes THEN RawEnd(s, "retained") ELSE RawForward(s)
      [] s.raw.stage = "release" -> RawFinish(s)
RawNsAnswer(s, a) ==
    CASE s.raw.stage = "reserve" ->
            IF a.yes THEN RawCheck([s EXCEPT !.raw.stage = "check"], 0)
            ELSE RawFinish([s EXCEPT !.raw.status = "busy"])
      [] s.raw.stage = "check" ->
            CASE a.yes -> RawEnd(s, "retained")
              [] ~a.yes /\ a.next # 0 -> RawCheck(s, a.next)
              [] OTHER -> RawForward(s)
      [] s.raw.stage = "release" -> RawFinish(s)

\* Mutant: the answer goes out and the reservation stays.
RawBodyAnswerHeld(s, a) == RawFinish([s EXCEPT !.raw.status = IF a.v = "ok" THEN "ok" ELSE "nak"])
RawBodyAnswer(s, a) == RawEnd(s, IF a.v = "ok" THEN "ok" ELSE "nak")

-----------------------------------------------------------------------------
(* The orphan sweep: one page of an inventory, then each of its digests     *)
(* reserved, looked up, walked for in the volume maps, deleted, released.   *)

AnyPut(s) == FreePuts(s) # 1..PutFiles
Candidate(s) == Head(s.gc.queue)
GcBusy(s) == s.gc.asked \/ s.gc.queue # <<>>

GcKick(s) ==
    LET f == IF s.gc.phase = "object"
             THEN ForwardObj(s, Sweeper("gc_obj_scan"), ObjReq("scan", s.gc.objAt))
             ELSE ForwardBody(s, Sweeper("gc_scan"), BodyReq("scan", 0, s.gc.at))
    IN  IF f.ok THEN [f.s EXCEPT !.gc.asked = TRUE] ELSE s

AdvancePhase(s) ==
    [s EXCEPT !.gc.phase = IF @ = "body" THEN "object" ELSE "body", !.gc.wrapped = FALSE]

\* The page is done with.
GcPageDone(s) ==
    LET t == [s EXCEPT !.gc.queue = <<>>, !.gc.reserved = FALSE]
    IN  IF s.gc.wrapped THEN AdvancePhase(t) ELSE t

\* A candidate passed over for a write in flight, or a full queue, is passed
\* over in the step that passes over the rest for the same reason.
GcBegin(s) ==
    LET f == ForwardNs(s, Sweeper("gc_reserve"),
                       [NsReq("reserve", 0) EXCEPT !.dig = Candidate(s)])
    IN  IF AnyPut(s) \/ s.raw.stage # "idle" \/ ~f.ok THEN GcPageDone(s) ELSE f.s

GcNext(s) ==
    IF Len(s.gc.queue) = 1 THEN GcPageDone(s)
    ELSE GcBegin([s EXCEPT !.gc.queue = Tail(@), !.gc.check = 0])

\* The mark goes first: a release that finds the queue full is not sent again.
GcRelease(s) ==
    LET t == [s EXCEPT !.gc.reserved = FALSE]
        f == ForwardNs(t, Sweeper("gc_release"),
                       [NsReq("release", 0) EXCEPT !.dig = Candidate(s)])
    IN  IF s.gc.reserved /\ f.ok THEN f.s ELSE GcNext(t)
OrRelease(f) == IF f.ok THEN f.s ELSE GcRelease(f.s)

GcCheck(s, at) ==
    OrRelease(ForwardNs([s EXCEPT !.gc.check = at], Sweeper("gc_check"),
                        [NsReq("referenced", 0) EXCEPT !.dig = Candidate(s), !.at = at]))

GcReserveAnswer(s, a) == IF a.yes THEN GcCheck([s EXCEPT !.gc.reserved = TRUE], 0)
                         ELSE GcNext(s)

\* The descriptor first; the object phase leaves the body to the body phase.
GcDeleteBody(s) ==
    IF s.gc.phase = "object" THEN GcRelease(s)
    ELSE OrRelease(ForwardBody(s, Sweeper("gc_delete"), BodyReq("delete", 0, Candidate(s))))
GcDeleteDescriptor(s) ==
    OrRelease(ForwardObj(s, Sweeper("gc_obj_remove"), ObjReq("remove", Candidate(s))))

GcWalkPage(s, at) ==
    OrRelease(ForwardNs(s, Sweeper("gc_roots"), [NsReq("roots", 0) EXCEPT !.at = at]))
GcWalkRead(s, d, op) == OrRelease(ForwardBody(s, Sweeper(op), BodyReq("get", 0, d)))

\* The next root of the page, the next page, or the end of the proof.
GcWalkRoot(s) ==
    CASE s.gc.roots # <<>> -> GcWalkRead(s, Head(s.gc.roots), "gc_root")
      [] s.gc.roots = <<>> /\ s.gc.next # 0 -> GcWalkPage(s, s.gc.next)
      [] OTHER -> IF AnyPut(s) THEN GcRelease(s) ELSE GcDeleteDescriptor(s)

GcWalkLeaf(s) ==
    IF s.gc.leaves # <<>> THEN GcWalkRead(s, Head(s.gc.leaves), "gc_leaf")
    ELSE GcWalkRoot([s EXCEPT !.gc.roots = Tail(@)])

GcWalkBegin(s) ==
    GcWalkPage([s EXCEPT !.gc.view = None, !.gc.next = 0, !.gc.roots = <<>>,
                         !.gc.leaves = <<>>], 0)

\* Mutant: the first page of the namespace answers for all of it.
GcCheckAnswerFirst(s, a) ==
    IF a.yes \/ AnyPut(s) THEN GcRelease([s EXCEPT !.gc.check = 0])
    ELSE LET t == [s EXCEPT !.gc.check = 0]
         IN  IF s.gc.phase = "body" THEN GcWalkBegin(t) ELSE GcDeleteDescriptor(t)
GcCheckAnswer(s, a) ==
    CASE ~a.yes /\ a.next # 0 -> GcCheck(s, a.next)
      [] a.yes \/ (a.next = 0 /\ AnyPut(s)) -> GcRelease([s EXCEPT !.gc.check = 0])
      [] OTHER -> LET t == [s EXCEPT !.gc.check = 0]
                  IN  IF s.gc.phase = "body" THEN GcWalkBegin(t) ELSE GcDeleteDescriptor(t)

\* Pages of two generations of the namespace's snapshot are no proof.
GcRootsAnswer(s, a) ==
    IF s.gc.view \notin {None, a.view + 1} THEN GcRelease(s)
    ELSE GcWalkRoot([s EXCEPT !.gc.view = a.view + 1, !.gc.roots = a.roots,
                              !.gc.next = a.next])

\* A page that cannot be read keeps the candidate.
GcMapRootAnswer(s, a) ==
    CASE a.v # "ok" \/ Candidate(s) \in Child[a.dig] -> GcRelease(s)
      [] a.v = "ok" /\ Candidate(s) \notin Child[a.dig] /\ a.dig \in Deep ->
            GcWalkLeaf([s EXCEPT !.gc.leaves = InOrder(Child[a.dig])])
      [] OTHER -> GcWalkRoot([s EXCEPT !.gc.roots = Tail(@)])
GcMapLeafAnswer(s, a) ==
    IF a.v # "ok" \/ Candidate(s) \in Child[a.dig] THEN GcRelease(s)
    ELSE GcWalkLeaf([s EXCEPT !.gc.leaves = Tail(@)])

GcPage(s, a) ==
    LET t == [s EXCEPT !.gc.wrapped = a.next = 0]
    IN  CASE a.page # <<>> -> GcBegin([t EXCEPT !.gc.queue = a.page])
          [] a.page = <<>> /\ t.gc.wrapped -> AdvancePhase(t)
          [] OTHER -> t
GcScanAnswer(s, a) ==
    LET t == [s EXCEPT !.gc.asked = FALSE, !.gc.at = a.next]
    IN  IF a.v # "ok" THEN t ELSE GcPage(t, a)
GcObjScanAnswer(s, a) ==
    LET t == [s EXCEPT !.gc.asked = FALSE, !.gc.objAt = a.next]
    IN  IF a.v # "ok" THEN AdvancePhase(t) ELSE GcPage(t, a)

\* Only a definite answer about the descriptor lets the body go.
GcObjRemoveAnswer(s, a) == IF a.v \in {"ok", "absent"} THEN GcDeleteBody(s) ELSE GcRelease(s)
GcDeleteAnswer(s) == GcRelease(s)

-----------------------------------------------------------------------------
(* module_step_impl.                                                        *)

\* i: the stream the client has open.
Handle(s, c, q, i) ==
    CASE q.op = "put_file" -> HandlePutFile(s, c, q)
      [] q.op = "delete_file" -> HandleDeleteFile(s, c, q)
      [] q.op = "retain" -> HandleRetain(s, c, q)
      [] q.op = "bind" -> HandleBind(s, c, q)
      [] q.op = "lease" -> HandleLease(s, c, q)
      [] q.op \in {"begin", "commit"} -> HandleVolume(s, c, q)
      [] q.op = "lookup" -> HandleLookup(s, c, q)
      [] q.op = "list" -> HandleListFiles(s, c, q)
      [] q.op = "put_body" -> HandlePutBody(s, c, q)
      [] q.op = "get_body" -> HandleGetBody(s, c, q)
      [] q.op = "get_file" -> HandleGetFile(s, c, q)
      [] q.op \in {"stat", "range"} -> HandlePathRead(s, c, q)
      [] q.op \in {"delete_body", "put_keyed"} -> RawBegin(s, c, q)
      [] q.op = "put_open" -> HandlePutFileOpen(s, c, q)
      [] q.op = "put_chunk" -> HandlePutFileChunk(s, c, q, i)
      [] q.op = "put_commit" -> HandlePutFileCommit(s, c, q, i)

HandleNs(s, e, a) ==
    CASE e.op \in {"put_file", "delete_file", "retain"} -> ComposedNsAnswer(s, e, a)
      [] e.op = "get_file" -> GetFileLookupAnswer(s, e, a)
      [] e.op \in {"stat", "range"} -> PathReadLookupAnswer(s, e, a)
      [] e.op = "raw" -> RawNsAnswer(s, a)
      [] e.op = "bind" -> Reply(s, e.cid, e.op, NsWriteStatus(a.v), None)
      [] e.op \in {"begin", "commit"} -> Reply(s, e.cid, e.op, VolumeStatus(a.v), None)
      [] e.op = "lookup" -> Reply(s, e.cid, e.op, LookupStatus(a.v), a.obj)
      [] e.op \in {"lease", "list"} -> Reply(s, e.cid, e.op, a.v, None)
      [] e.op = "gc_reserve" -> GcReserveAnswer(s, a)
      [] e.op = "gc_check" -> GcCheckAnswer(s, a)
      [] e.op = "gc_roots" -> GcRootsAnswer(s, a)
      [] e.op = "gc_release" -> GcNext(s)

HandleBody(s, e, a) ==
    CASE e.op = "put_file" -> PutFileBodyAnswer(s, e, a)
      [] e.op = "put_open" -> SpfOpenAnswer(s, e, a)
      [] e.op = "put_chunk" -> SpfChunkAnswer(s, e, a)
      [] e.op = "put_commit" -> SpfCommitAnswer(s, e, a)
      [] e.op \in {"delete_body", "put_keyed"} -> RawBodyAnswer(s, a)
      [] e.op = "gc_scan" -> GcScanAnswer(s, a)
      [] e.op = "gc_root" -> GcMapRootAnswer(s, a)
      [] e.op = "gc_leaf" -> GcMapLeafAnswer(s, a)
      [] e.op = "gc_delete" -> GcDeleteAnswer(s)
      [] OTHER -> Reply(s, e.cid, e.op, BodyStatus(a.v), a.dig)

HandleObj(s, e, a) ==
    CASE e.op = "gc_obj_scan" -> GcObjScanAnswer(s, a)
      [] e.op = "gc_obj_remove" -> GcObjRemoveAnswer(s, a)
      [] OTHER -> PutFileObjectAnswer(s, e, a)

-----------------------------------------------------------------------------
(* Steps.                                                                   *)

Init ==
    /\ cfg \in Configs
    /\ ar = NewRouter
    /\ ns = [NewNamespace EXCEPT !.bind = cfg.bound]
    /\ bodies = NewBodies(cfg.bodies)
    /\ objs = cfg.descs
    /\ ans = [ns |-> <<>>, body |-> {}, obj |-> <<>>]
    /\ user = [c \in Client |-> [at |-> 1, asking |-> FALSE, pf |-> None]]
    /\ done = [c \in Client |-> FALSE]

Script(c) == cfg.asks[c]
Asked(c) == Script(c)[user[c].at]

TakeRequest(c) ==
    /\ Ready(ar)
    /\ ~user[c].asking
    /\ user[c].at <= Len(Script(c))
    /\ ar' = Handle(ar, c, Asked(c), user[c].pf)
    /\ user' = [user EXCEPT ![c].asking = TRUE]
    /\ done' = [done EXCEPT ![c] = FALSE]
    /\ UNCHANGED <<ns, bodies, objs, ans, cfg>>

TakeNs ==
    /\ Ready(ar)
    /\ ans.ns # <<>>
    /\ ar' = HandleNs([ar EXCEPT !.nsPend = Tail(@)], Head(ar.nsPend), Head(ans.ns))
    /\ ans' = [ans EXCEPT !.ns = Tail(@)]
    /\ UNCHANGED <<ns, bodies, objs, user, cfg, done>>

TakeBody ==
    /\ Ready(ar)
    /\ \E r \in ans.body, p \in ar.bodyPend :
          /\ p.id = r.id
          /\ ar' = HandleBody([ar EXCEPT !.bodyPend = @ \ {p}], p.e, r.a)
          /\ ans' = [ans EXCEPT !.body = @ \ {r}]
    /\ UNCHANGED <<ns, bodies, objs, user, cfg, done>>

TakeObj ==
    /\ Ready(ar)
    /\ ans.obj # <<>>
    /\ ar' = HandleObj([ar EXCEPT !.objPend = Tail(@)], Head(ar.objPend), Head(ans.obj))
    /\ ans' = [ans EXCEPT !.obj = Tail(@)]
    /\ UNCHANGED <<ns, bodies, objs, user, cfg, done>>

Kick ==
    /\ Ready(ar)
    /\ cfg.sweeps > 0
    /\ ~GcBusy(ar) /\ ~AnyPut(ar) /\ ar.raw.stage = "idle"
    /\ ar' = GcKick(ar)
    /\ cfg' = [cfg EXCEPT !.sweeps = @ - 1]
    /\ UNCHANGED <<ns, bodies, objs, ans, user, done>>

\* The channel takes the answer.  A client that is refused asks no more.
Deliver ==
    /\ ar.owed # NoAnswer
    /\ ar' = [ar EXCEPT !.owed = NoAnswer]
    /\ LET c == ar.owed.cid
       IN  user' = [user EXCEPT ![c] =
              [asking |-> FALSE,
               at |-> IF ar.owed.status = "ok" THEN @.at + 1 ELSE Len(Script(c)) + 1,
               pf |-> IF ar.owed.op = "put_open" THEN ar.owed.x ELSE @.pf]]
    /\ UNCHANGED <<ns, bodies, objs, ans, cfg, done>>

Writes == {"bind", "unbind", "retain", "commit", "delete", "put_keyed"}
Mark(q, ok) == IF q.cid # 0 /\ q.op \in Writes /\ ok
               THEN [done EXCEPT ![q.cid] = TRUE] ELSE done

NsStep ==
    /\ ar.nsTx # <<>>
    /\ LET q == Head(ar.nsTx)
           r == NsApply(ns, q)
       IN  /\ ns' = r.n
           /\ ans' = [ans EXCEPT !.ns = Append(@, r.a)]
           /\ done' = Mark(q, r.a.v = "ok")
    /\ ar' = [ar EXCEPT !.nsTx = Tail(@)]
    /\ UNCHANGED <<bodies, objs, user, cfg>>

\* The plane stops taking requests while its answers find no room.
BodyCan == ar.bodyTx # <<>> /\ Cardinality(ans.body) < cfg.answers
BodyStep ==
    /\ BodyCan
    /\ LET q == Head(ar.bodyTx)
           r == BodyApply(bodies, q)
       IN  \/ /\ bodies' = r.b
              /\ ans' = [ans EXCEPT !.body = @ \cup {[id |-> q.id, a |-> r.a]}]
              /\ done' = Mark(q, r.a.v = "ok")
              /\ UNCHANGED cfg
           \/ /\ cfg.faults > 0
              /\ ans' = [ans EXCEPT !.body = @ \cup {[id |-> q.id, a |-> BodyAns("nak")]}]
              /\ cfg' = [cfg EXCEPT !.faults = @ - 1]
              /\ UNCHANGED <<bodies, done>>
    /\ ar' = [ar EXCEPT !.bodyTx = Tail(@)]
    /\ UNCHANGED <<ns, objs, user>>

ObjStep ==
    /\ ar.objTx # <<>>
    /\ LET r == ObjApply(objs, Head(ar.objTx))
       IN  \/ /\ objs' = r.o
              /\ ans' = [ans EXCEPT !.obj = Append(@, r.a)]
              /\ UNCHANGED cfg
           \/ /\ cfg.faults > 0
              /\ \E v \in {"nak", "quota"} : ans' = [ans EXCEPT !.obj = Append(@, ObjAns(v))]
              /\ cfg' = [cfg EXCEPT !.faults = @ - 1]
              /\ UNCHANGED objs
    /\ ar' = [ar EXCEPT !.objTx = Tail(@)]
    /\ UNCHANGED <<ns, bodies, user, done>>

\* A volume writer's lease lapses; the namespace's compactor ends a merge.
Lapse ==
    /\ cfg.lapses /\ ns.flush = "open"
    /\ ns' = [ns EXCEPT !.flush = "lapsed"]
    /\ UNCHANGED <<ar, bodies, objs, ans, user, cfg, done>>
Compact ==
    /\ cfg.merges > ns.view
    /\ ns' = [ns EXCEPT !.view = @ + 1]
    /\ UNCHANGED <<ar, bodies, objs, ans, user, cfg, done>>

Next ==
    \/ \E c \in Client : TakeRequest(c)
    \/ TakeNs \/ TakeBody \/ TakeObj \/ Kick \/ Deliver
    \/ NsStep \/ BodyStep \/ ObjStep \/ Lapse \/ Compact

Spec == Init /\ [][Next]_vars

\* The kernel steps every module again and again.  A step of the router drains
\* each of its channels in turn, so none of them waits for ever while the
\* router is ready, and neither does a plane or the admin channel.  Written
\* out because each condition is far cheaper than the step it enables.
AnswerComing == ans.body # {}
FairSpec ==
    /\ Spec
    /\ []<>(ar.owed = NoAnswer) \/ []<><<Deliver>>_vars
    /\ []<>~(Ready(ar) /\ ans.ns # <<>>) \/ []<><<TakeNs>>_vars
    /\ []<>~(Ready(ar) /\ AnswerComing) \/ []<><<TakeBody>>_vars
    /\ []<>~(Ready(ar) /\ ans.obj # <<>>) \/ []<><<TakeObj>>_vars
    /\ []<>(ar.nsTx = <<>>) \/ []<><<NsStep>>_vars
    /\ []<>~BodyCan \/ []<><<BodyStep>>_vars
    /\ []<>(ar.objTx = <<>>) \/ []<><<ObjStep>>_vars

-----------------------------------------------------------------------------
(* Properties.                                                              *)

Roomy == cfg.pend > 6 /\ cfg.queue > 6
InFlight == Len(ar.nsPend) = Len(ar.nsTx) + Len(ans.ns)

\* The tables keep their bounds, every pending entry has its request or its
\* answer on the way, and a slot in use belongs to a client that is waiting.
TypeOK ==
    /\ ar.owed.status \in Status
    /\ Len(ar.nsPend) < cfg.pend /\ Cardinality(ar.bodyPend) <= cfg.pend
    /\ InFlight
    /\ Len(ar.objPend) = Len(ar.objTx) + Len(ans.obj)
    /\ {p.id : p \in ar.bodyPend} =
          {ar.bodyTx[i].id : i \in DOMAIN ar.bodyTx} \cup {r.id : r \in ans.body}
    /\ ns.reserved \subseteq Digest /\ Cardinality(ns.reserved) <= ReserveMax
    /\ ns.flush \in Flush
    /\ \A i \in 1..PutFiles : ar.put[i].op # "free" => user[ar.put[i].cid].asking

AckOf(op) == IF op = "put_commit" THEN "put_file" ELSE op
WriteOps == {"put_file", "delete_file", "retain", "bind", "commit", "delete_body", "put_keyed"}

\* An answer goes to a client that waits for one of its kind, and says OK of
\* a write exactly when its plane carried that write out: a composed write
\* that lost a race and was decided afresh, or was refused half way, is
\* never reported as the other (composed_finish, the pending FIFOs, the
\* raw plane's held answer).
AnswerExact ==
    ar.owed # NoAnswer =>
        LET c == ar.owed.cid
        IN  /\ user[c].asking
            /\ ar.owed.op = AckOf(Asked(c).op)
            /\ ar.owed.op \in WriteOps => (ar.owed.status = "ok") = done[c]

Deleting == ar.bodyTx # <<>> /\ Head(ar.bodyTx).op = "delete" /\ bodies'.held # bodies.held
Sweeping == Deleting /\ Head(ar.bodyTx).cid = 0

\* The sweep's delete reaches the body plane only for a body that no binding
\* names, that no bound volume's map lists, and while no writer has a flush
\* open that could commit a root over it (gc_begin_current to
\* gc_delete_body, with the namespace's reservation).
SweepSpares == [][Sweeping => /\ (bodies.held \ bodies'.held) \cap Reached(ns) = {}
                              /\ ns.flush # "open"]_vars

\* The raw plane destroys no body that a retained binding names.
RawSpares ==
    [][(ar.bodyTx # <<>> /\ ar'.bodyTx = Tail(ar.bodyTx)) =>
          LET q == Head(ar.bodyTx)
          IN  q.cid # 0 /\ q.op \in {"delete", "put_keyed"} =>
                 \A k \in Key : ns.bind[k].held => ns.bind[k].obj # q.dig]_vars

\* Every bound key's object has its body.
BoundHasBody == \A k \in Key : ns.bind[k].obj # None => ns.bind[k].obj \in bodies.held

\* Every request the router took is answered.
RequestAnswered == \A c \in Client : user[c].asking ~> ~user[c].asking

\* A sweep's page ends, and with it, while the queues have room, the
\* reservations it and the raw plane took.
ReservationEnds ==
    /\ GcBusy(ar) ~> ~GcBusy(ar)
    /\ (Roomy /\ ns.reserved # {}) ~> (ns.reserved = {})
=============================================================================
