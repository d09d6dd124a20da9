----------------------------- MODULE BodyFanout -----------------------------
(***************************************************************************)
(* body_fanout_router: whole bodies replicated on the members of a fleet.  *)
(* From body_fanout_router_body.rs and member_io.rs, with the fleet that   *)
(* placement_router_body.rs publishes.                                     *)
(*                                                                         *)
(* A handler runs to its end in one step and calls the others, so handlers *)
(* are operators from router state to router state: the variable rt.       *)
(* Members answer in order, and late, or never; a member's work and the    *)
(* delivery of its answer are one step, the request waiting in q until     *)
(* then.  The code counts correlation ids and join incarnations up; here   *)
(* an id is the least its member has not in use, and an incarnation is 1, *)
(* or 0 once it is over.                                                   *)
(***************************************************************************)
EXTENDS Naturals, FiniteSets, SequencesExt

CONSTANTS
    Members,      \* member slots 0 .. Members - 1
    Client,       \* upstream requesters, one request each at a time
    Digest, Key,  \* content-addressed names, and keys of EC shards and extents
    ContentOf,    \* the digest of the bytes under each name
    Rank,         \* the members by rendezvous weight for each name
    PutRank,      \* the same for the first 32 bytes of each body
    Replicas,     \* replica_count
    Joins, Pending, Sids,  \* ROUTER_JOINS, ROUTER_PENDING, ROUTER_STREAMS
    Wids,         \* a member's write sessions
    Fleets,       \* the fleets an operator may set
    Configs       \* whether a scrub runs, the requests made and how many, the same of faults

Member == 0..(Members - 1)
Name == Digest \cup Key
None == "none"   \* no name, no client, no stream
Op == {"put", "put_keyed", "get", "head", "range", "delete", "scan",
       "wopen", "wappend", "wcommit", "wabort"}
FaultKind == {"lost", "refused", "late", "stuck", "broken", "wiped", "fleet"}
Config == [scrub : BOOLEAN, ops : SUBSET Op, requests : Nat, kinds : SUBSET FaultKind, faults : Nat]

ASSUME SizesAssumption == {Members, Replicas, Joins, Pending} \subseteq Nat \ {0}
ASSUME BoundsAssumption == {Sids, Wids} \subseteq Nat
ASSUME ConfigsAssumption == Configs \subseteq Config
ASSUME ContentAssumption == /\ ContentOf \in [Name -> Digest]
                            /\ \A d \in Digest : ContentOf[d] = d
ASSUME RankAssumption ==
    \A n \in Name : {Rank[n], PutRank[n]} \subseteq Seq(Member) \cap SetToAllKPermutations(Member)
ASSUME NoneAssumption == None \notin Name \cup Client
ASSUME FleetsAssumption == Fleets \subseteq SUBSET Member

VARIABLES
    rt,       \* the router
    place,    \* placement_router: its fleet, and whether it has published it
    stored,   \* the names each member holds
    sess,     \* the write sessions of each member
    budget,   \* the configuration, its requests and faults counted down
    \* History, read by no action:
    acked,    \* <<name, member>> a client was told of, not deleted or lost since
    wrong     \* what an answer did that it must not

vars == <<rt, place, stored, sess, budget, acked, wrong>>

-----------------------------------------------------------------------------
(* Tables *)

FreeJoin == [kind |-> "free", op |-> None, name |-> None, client |-> None, gen |-> 0,
             need |-> 0, ack |-> 0, fail |-> 0, targets |-> <<>>, attempt |-> 1,
             missing |-> {}, present |-> {}, errno |-> None, sid |-> 0, repair |-> <<>>]
FreeStream == [name |-> None, targets |-> <<>>, wid |-> <<>>]
Idle == [op |-> None, name |-> None, on |-> {}, lost |-> {}, sure |-> FALSE]

\* module_new_impl: the fleet starts as every wired member.
NewRouter == [joins |-> [i \in 1..Joins |-> FreeJoin],
              await |-> {},                              \* Inflight
              q |-> [m \in Member |-> <<>>],             \* request channels
              stuck |-> {},                              \* members not reading
              owed |-> {}, stalled |-> {}, quiet |-> {}, broken |-> {},
              streams |-> [s \in 1..Sids |-> FreeStream],
              fleet |-> Member,
              scrubAt |-> 0, scrubBusy |-> FALSE,
              asked |-> [c \in Client |-> Idle],
              mine |-> [c \in Client |-> 0],             \* the stream a client writes,
              sent |-> [c \in Client |-> FALSE],         \* and whether all of it is
              out |-> <<>>]                              \* answers of this step

Fresh(used) == CHOOSE n \in 1..(Cardinality(used) + 1) :
                  n \notin used /\ \A k \in 1..(n - 1) : k \in used

FreeJoins(S) == {i \in 1..Joins : S.joins[i].kind = "free"}
NextJoin(S) == CHOOSE i \in FreeJoins(S) : \A k \in FreeJoins(S) : i <= k
Alloc(S, i, j) == [S EXCEPT !.joins[i] = [j EXCEPT !.gen = 1]]
\* Answers still awaited for the join are for an incarnation that is over.
Free(S, i) == [S EXCEPT !.joins[i] = FreeJoin,
                        !.await = {IF a.join = i THEN [a EXCEPT !.gen = 0] ELSE a : a \in @}]

\* The members of a sequence that are in a set, in their order.
Only(seq, set) ==
    LET kept[n \in 0..Len(seq)] ==
            IF n = 0 THEN <<>>
            ELSE IF seq[n] \in set THEN Append(kept[n - 1], seq[n]) ELSE kept[n - 1]
    IN  kept[Len(seq)]

RankTargets(S, ranked) ==
    LET live == Only(ranked, S.fleet)
    IN  SubSeq(live, 1, IF Replicas < Len(live) THEN Replicas ELSE Len(live))

QuietLast(S, targets) == Only(targets, Member \ S.quiet) \o Only(targets, S.quiet)

-----------------------------------------------------------------------------
(* Sending.  A member that stopped reading takes one frame, which is owed;  *)
(* owed past the deadline it is stalled, and no more is sent to it.         *)

CanSend(S, m) == m \notin S.owed \cup S.broken
Settled(S) == S.owed \subseteq S.stalled \cup S.broken

CanDispatch(S, m) == CanSend(S, m) /\ Cardinality(S.await) < Pending
Dispatch(S, m, i, req) ==
    LET cid == Fresh({a.cid : a \in {a \in S.await : a.to = m}} \cup
                     {S.q[m][k].cid : k \in DOMAIN S.q[m]})
    IN  [S EXCEPT !.q[m] = Append(@, [cid |-> cid, req |-> req]),
                  !.await = @ \cup {[cid |-> cid, to |-> m, join |-> i, gen |-> S.joins[i].gen]},
                  !.owed = IF m \in S.stuck THEN @ \cup {m} ELSE @]

Req(op, name, wid) == [op |-> op, name |-> name, wid |-> wid]

\* One request per target, those that cannot be sent counted as failures.
FanOut(S, i, targets, reqs) ==
    LET Send(T, k) == IF CanDispatch(T, targets[k])
                      THEN Dispatch(T, targets[k], i, reqs[k])
                      ELSE [T EXCEPT !.joins[i].fail = @ + 1]
        after[k \in 0..Len(targets)] == IF k = 0 THEN S ELSE Send(after[k - 1], k)
    IN  after[Len(targets)]

\* What the history makes of an answer: the client's slot is idle again.
Emit(S, c, r) == [S EXCEPT !.out = Append(@, [client |-> c, req |-> S.asked[c], ans |-> r]),
                           !.asked[c] = Idle]
Ok == "ok"
Errno == {"io", "not_found", "bad_req"}
Nak(S, i, errno) == Emit(Free(S, i), S.joins[i].client, errno)
OrIo(errno) == IF errno = None THEN "io" ELSE errno

-----------------------------------------------------------------------------
(* Requests.  Each takes the router with a join of its client to hand.      *)

\* PUT and PUT_KEYED differ in what they rank by.
HandlePut(S, c, op, name) ==
    LET targets == RankTargets(S, IF op = "put" THEN PutRank[name] ELSE Rank[name])
        i == NextJoin(S)
        T == FanOut(Alloc(S, i, [FreeJoin EXCEPT !.kind = "client", !.op = op, !.name = name,
                                                 !.client = c, !.need = Len(targets)]),
                    i, targets, [k \in DOMAIN targets |-> Req(op, name, 0)])
    IN  IF targets = <<>> \/ FreeJoins(S) = {} THEN Emit(S, c, "io")
        ELSE IF T.joins[i].fail = Len(targets) THEN Nak(T, i, "io") ELSE T

\* Mutant: members that could not be asked count as not having the body.
AdvanceReadMissing(S, i) ==
    LET j == S.joins[i]
        left == {a \in j.attempt..Len(j.targets) : CanDispatch(S, j.targets[a])}
        next == CHOOSE a \in left : \A b \in left : a <= b
    IN  IF left # {}
        THEN Dispatch([S EXCEPT !.joins[i].attempt = next], j.targets[next], i,
                      Req(j.op, j.name, 0))
        ELSE IF j.kind = "fetch" THEN Free(S, i) ELSE Nak(S, i, "not_found")

\* The next member of the walk that can be asked; nobody left ends it.
AdvanceRead(S, i) ==
    LET j == S.joins[i]
        left == {a \in j.attempt..Len(j.targets) : CanDispatch(S, j.targets[a])}
        next == CHOOSE a \in left : \A b \in left : a <= b
        errno == IF j.attempt > Len(j.targets) THEN OrIo(j.errno) ELSE "io"
    IN  IF left # {}
        THEN Dispatch([S EXCEPT !.joins[i].attempt = next,
                                !.joins[i].errno = IF next = j.attempt THEN @ ELSE "io"],
                      j.targets[next], i, Req(j.op, j.name, 0))
        ELSE IF j.kind = "fetch" THEN Free(S, i) ELSE Nak(S, i, errno)

HandleRead(S, c, op, name) ==
    LET targets == QuietLast(S, RankTargets(S, Rank[name]))
        i == NextJoin(S)
    IN  IF targets = <<>> THEN Emit(S, c, "not_found")
        ELSE IF FreeJoins(S) = {} THEN Emit(S, c, "io")
        ELSE AdvanceRead(Alloc(S, i, [FreeJoin EXCEPT !.kind = "client", !.op = op, !.name = name,
                                                      !.client = c, !.need = 1,
                                                      !.targets = targets]), i)

HandleDelete(S, c, name) ==
    LET targets == RankTargets(S, Rank[name])
        i == NextJoin(S)
        T == FanOut(Alloc(S, i, [FreeJoin EXCEPT !.kind = "client", !.op = "delete", !.name = name,
                                                 !.client = c, !.need = Len(targets)]),
                    i, targets, [k \in DOMAIN targets |-> Req("delete", name, 0)])
    IN  IF targets = <<>> THEN Emit(S, c, "not_found")
        ELSE IF FreeJoins(S) = {} THEN Emit(S, c, "io")
        ELSE IF T.joins[i].fail = Len(targets) THEN Nak(T, i, "io") ELSE T

\* The inventory of member 0 is the answer.
HandleAdminScan(S, c) ==
    LET i == NextJoin(S)
        T == Alloc(S, i, [FreeJoin EXCEPT !.kind = "admin_scan", !.op = "scan", !.client = c,
                                          !.need = 1])
    IN  IF FreeJoins(S) = {} THEN Emit(S, c, "io")
        ELSE IF CanDispatch(T, 0) THEN Dispatch(T, 0, i, Req("scan", None, 0))
        ELSE Nak(T, i, "io")

-----------------------------------------------------------------------------
(* Streams.  A stream whose open, append or commit fails anywhere is        *)
(* aborted everywhere, with the wid of each member as far as it is known.   *)

FreeStreamOf(S, s) == [S EXCEPT !.streams[s] = FreeStream]

AbortStreamMembers(S, s) ==
    LET st == S.streams[s]
        Abort(T, k) ==
            LET i == NextJoin(T)
            IN  IF FreeJoins(T) = {} \/ ~CanDispatch(T, st.targets[k]) THEN T
                ELSE Dispatch(Alloc(T, i, [FreeJoin EXCEPT !.kind = "abort", !.op = "wabort",
                                                           !.need = 1]),
                              st.targets[k], i, Req("wabort", st.name, st.wid[k]))
    IN  FreeStreamOf(FoldLeft(Abort, S, [k \in DOMAIN st.targets |-> k]), s)

\* fail: the stream's join is freed first, then its members are told.
FailStream(S, i, errno) ==
    Emit(AbortStreamMembers(Free(S, i), S.joins[i].sid), S.joins[i].client, errno)

HandleStreamOpen(S, c, name) ==
    LET targets == RankTargets(S, Rank[name])
        free == {s \in 1..Sids : S.streams[s] = FreeStream}
        sid == CHOOSE s \in free : \A t \in free : s <= t
        i == NextJoin(S)
        O == [S EXCEPT !.streams[sid] = [name |-> name, targets |-> targets,
                                         wid |-> [k \in DOMAIN targets |-> 0]]]
        T == FanOut(Alloc(O, i, [FreeJoin EXCEPT !.kind = "open", !.op = "wopen", !.client = c,
                                                 !.name = name, !.need = Len(targets),
                                                 !.targets = targets, !.sid = sid]),
                    i, targets, [k \in DOMAIN targets |-> Req("wopen", name, 0)])
    IN  IF targets = <<>> \/ free = {} \/ FreeJoins(S) = {} THEN Emit(S, c, "io")
        ELSE IF T.joins[i].fail > 0 THEN FailStream(T, i, "io") ELSE T

\* WAPPEND, WCOMMIT and WABORT to every member, each under its own wid.
StreamKind == [wappend |-> "append", wcommit |-> "commit", wabort |-> "abort"]
HandleStream(S, c, op, sid) ==
    LET st == S.streams[sid]
        i == NextJoin(S)
        T == FanOut(Alloc(S, i, [FreeJoin EXCEPT !.kind = StreamKind[op], !.op = op, !.client = c,
                                                 !.name = st.name, !.need = Len(st.targets),
                                                 !.sid = sid]),
                    i, st.targets,
                    [k \in DOMAIN st.targets |-> Req(op, S.asked[c].name, st.wid[k])])
    IN  IF sid = 0 \/ st = FreeStream THEN Emit(S, c, "bad_req")
        ELSE IF FreeJoins(S) = {} THEN Emit(AbortStreamMembers(S, sid), c, "io")
        ELSE IF op # "wabort" /\ T.joins[i].fail > 0 THEN FailStream(T, i, "io")
        ELSE IF op = "wabort" /\ T.joins[i].fail = Len(st.targets)
             THEN FreeStreamOf(Emit(Free(T, i), c, Ok), sid)
        ELSE T

-----------------------------------------------------------------------------
(* Repair and scrub.  Nothing of it is answered upstream.                   *)

\* Re-PUT to each member: under the key where a scrub knows it is one, and
\* by content otherwise.
SpawnRepairPuts(S, members, name) ==
    LET op == IF name \in Key THEN "put_keyed" ELSE "put"
        Put(T, m) ==
            LET i == NextJoin(T)
            IN  IF FreeJoins(T) = {} \/ ~CanDispatch(T, m) THEN T
                ELSE Dispatch(Alloc(T, i, [FreeJoin EXCEPT !.kind = "repair", !.op = op,
                                                           !.name = name, !.need = 1]),
                              m, i, Req(op, name, 0))
        after[k \in 0..Len(members)] == IF k = 0 THEN S ELSE Put(after[k - 1], members[k])
    IN  after[Len(members)]

ScrubNextTarget(S) == [S EXCEPT !.scrubAt = (@ + 1) % Members]

ScrubKick(S) ==
    LET i == NextJoin(S)
        T == Alloc(S, i, [FreeJoin EXCEPT !.kind = "scan", !.op = "scan", !.need = 1])
    IN  IF FreeJoins(S) = {} THEN S
        ELSE IF CanDispatch(T, S.scrubAt)
             THEN [Dispatch(T, S.scrubAt, i, Req("scan", None, 0)) EXCEPT !.scrubBusy = TRUE]
        ELSE ScrubNextTarget(S)

ScrubSpawnProbe(S, name) ==
    LET targets == RankTargets(S, Rank[name])
        i == NextJoin(S)
        T == FanOut(Alloc(S, i, [FreeJoin EXCEPT !.kind = "probe", !.op = "head", !.name = name,
                                                 !.need = Len(targets), !.targets = targets]),
                    i, targets, [k \in DOMAIN targets |-> Req("head", name, 0)])
    IN  IF Len(targets) < 2 \/ FreeJoins(S) = {} THEN S
        ELSE IF T.joins[i].fail = Len(targets) THEN Free(T, i) ELSE T

Probed(S, names) ==
    LET after[k \in 0..Len(names)] ==
            IF k = 0 THEN S ELSE ScrubSpawnProbe(after[k - 1], names[k])
    IN  after[Len(names)]

\* Mutant: the scrub stays with the member it has scanned.
ScrubApplyScanHere(S, resp) == Probed([S EXCEPT !.scrubBusy = FALSE], resp.names)

\* A page holds the whole inventory: the cursor returns to 0 with each.
ScrubApplyScan(S, resp) == Probed(ScrubNextTarget([S EXCEPT !.scrubBusy = FALSE]), resp.names)

ScrubSpawnFetch(S, probe) ==
    LET i == NextJoin(S)
    IN  IF FreeJoins(S) = {} THEN S
        ELSE AdvanceRead(Alloc(S, i, [FreeJoin EXCEPT !.kind = "fetch", !.op = "get",
                                                      !.name = probe.name, !.need = 1,
                                                      !.targets = Only(probe.targets, probe.present),
                                                      !.repair = Only(probe.targets, probe.missing)]), i)

ScrubApplyProbe(S, i, m, resp) ==
    LET j == IF resp.ok
             THEN [S.joins[i] EXCEPT !.ack = @ + 1, !.present = @ \cup {m}]
             ELSE [S.joins[i] EXCEPT !.fail = @ + 1,
                                     !.missing = IF resp.errno = "not_found" THEN @ \cup {m} ELSE @]
    IN  IF j.ack + j.fail # j.need THEN [S EXCEPT !.joins[i] = j]
        ELSE IF j.missing = {} \/ j.present = {} THEN Free(S, i)
        ELSE ScrubSpawnFetch(Free(S, i), j)

ApplyFetch(S, i, resp) ==
    LET j == S.joins[i]
    IN  IF resp.ok THEN SpawnRepairPuts(Free(S, i), j.repair, j.name)
        ELSE AdvanceRead([S EXCEPT !.joins[i].attempt = @ + 1], i)

-----------------------------------------------------------------------------
(* Answers of members, by the kind of join.                                 *)

ApplyStreamOpen(S, i, m, resp) ==
    LET j == S.joins[i]
        k == CHOOSE k \in DOMAIN j.targets : j.targets[k] = m
        T == [S EXCEPT !.streams[j.sid].wid[k] = resp.wid, !.joins[i].ack = @ + 1]
    IN  IF ~resp.ok THEN FailStream(S, i, resp.errno)
        ELSE IF j.ack + 1 < j.need THEN T
        ELSE Emit([Free(T, i) EXCEPT !.mine[j.client] = j.sid], j.client, Ok)

ApplyStreamAppend(S, i, resp) ==
    LET j == S.joins[i]
    IN  IF ~resp.ok THEN FailStream(S, i, resp.errno)
        ELSE IF j.ack + 1 < j.need THEN [S EXCEPT !.joins[i].ack = @ + 1]
        ELSE Emit(Free(S, i), j.client, Ok)

ApplyStreamCommit(S, i, resp) ==
    LET j == S.joins[i]
    IN  IF ~resp.ok THEN FailStream(S, i, resp.errno)
        ELSE IF j.ack + 1 < j.need THEN [S EXCEPT !.joins[i].ack = @ + 1]
        ELSE Emit(FreeStreamOf(Free(S, i), j.sid), j.client, Ok)

\* An abort of the router's own (sid 0) answers nobody.
ApplyStreamAbort(S, i) ==
    LET j == S.joins[i]
    IN  IF j.ack + 1 + j.fail < j.need THEN [S EXCEPT !.joins[i].ack = @ + 1]
        ELSE IF j.sid = 0 THEN Free(S, i)
        ELSE Emit(FreeStreamOf(Free(S, i), j.sid), j.client, Ok)

\* All must succeed; the first answer after a failure refuses.
ApplyPut(S, i, resp) ==
    LET j == S.joins[i]
    IN  IF ~resp.ok THEN Nak(S, i, resp.errno)
        ELSE IF j.fail > 0 THEN Nak(S, i, "io")
        ELSE IF j.ack + 1 = j.need THEN Nak(S, i, Ok)
        ELSE [S EXCEPT !.joins[i].ack = @ + 1]

ApplyRead(S, i, resp) ==
    LET j == S.joins[i]
        walked == [j EXCEPT !.errno = resp.errno, !.attempt = @ + 1,
                            !.missing = IF resp.errno = "not_found"
                                        THEN @ \cup {j.targets[j.attempt]} ELSE @]
    IN  IF resp.ok
        THEN IF j.op = "get" THEN SpawnRepairPuts(Nak(S, i, Ok), Only(j.targets, j.missing), ContentOf[j.name])
             ELSE Nak(S, i, Ok)
        ELSE AdvanceRead([S EXCEPT !.joins[i] = walked], i)

\* Done when every replica has answered; one success is enough.
ApplyDelete(S, i, resp) ==
    LET j == IF resp.ok THEN [S.joins[i] EXCEPT !.ack = @ + 1]
             ELSE [S.joins[i] EXCEPT !.fail = @ + 1, !.errno = resp.errno]
        T == [S EXCEPT !.joins[i] = j]
    IN  IF j.ack + j.fail < j.need THEN T
        ELSE Nak(T, i, IF j.ack > 0 THEN Ok ELSE OrIo(j.errno))

ApplyJoinResponse(S, i, m, resp) ==
    LET j == S.joins[i]
    IN  CASE j.kind = "repair" -> Free(S, i)
          [] j.kind = "admin_scan" -> Nak(S, i, IF resp.ok THEN Ok ELSE resp.errno)
          [] j.kind = "scan" -> ScrubApplyScan(Free(S, i), resp)
          [] j.kind = "probe" -> ScrubApplyProbe(S, i, m, resp)
          [] j.kind = "fetch" -> ApplyFetch(S, i, resp)
          [] j.kind = "open" -> ApplyStreamOpen(S, i, m, resp)
          [] j.kind = "append" -> ApplyStreamAppend(S, i, resp)
          [] j.kind = "commit" -> ApplyStreamCommit(S, i, resp)
          [] j.kind = "abort" -> ApplyStreamAbort(S, i)
          [] j.kind = "client" /\ j.op \in {"put", "put_keyed"} -> ApplyPut(S, i, resp)
          [] j.kind = "client" /\ j.op \in {"get", "head", "range"} -> ApplyRead(S, i, resp)
          [] j.kind = "client" /\ j.op = "delete" -> ApplyDelete(S, i, resp)

\* Mutant: whoever has the slot now takes the answer.
AnswerJoinAny(S, a, resp) ==
    IF S.joins[a.join].kind = "free" THEN S ELSE ApplyJoinResponse(S, a.join, a.to, resp)

\* An answer is for the join that asked, or for nobody.
AnswerJoin(S, a, resp) ==
    IF S.joins[a.join].kind = "free" \/ S.joins[a.join].gen # a.gen THEN S
    ELSE ApplyJoinResponse(S, a.join, a.to, resp)

-----------------------------------------------------------------------------
(* Members: body_store as the router sees it.                               *)

NoSession == [name |-> None, got |-> None]
Good == [ok |-> TRUE, errno |-> None, wid |-> 0, names |-> <<>>]
Bad(errno) == [ok |-> FALSE, errno |-> errno, wid |-> 0, names |-> <<>>]

FreeWids(m) == {w \in 0..(Wids - 1) : sess[m][w] = NoSession}
NextWid(m) == CHOOSE w \in FreeWids(m) : \A v \in FreeWids(m) : w <= v

MemberAnswer(m, r) ==
    CASE r.op \in {"put", "put_keyed", "delete", "wabort"} -> Good
      [] r.op \in {"get", "head", "range"} ->
           IF r.name \in stored[m] THEN Good ELSE Bad("not_found")
      [] r.op = "scan" -> [Good EXCEPT !.names = SetToSeq(stored[m])]
      [] r.op = "wopen" ->
           IF FreeWids(m) = {} THEN Bad("io") ELSE [Good EXCEPT !.wid = NextWid(m)]
      [] r.op = "wappend" -> IF sess[m][r.wid] = NoSession THEN Bad("bad_req") ELSE Good
      [] r.op = "wcommit" -> IF sess[m][r.wid].got = "whole" THEN Good ELSE Bad("bad_req")

MemberStores(m, r) ==
    CASE r.op \in {"put", "put_keyed"} -> stored[m] \cup {r.name}
      [] r.op = "delete" -> stored[m] \ {r.name}
      [] r.op = "wcommit" /\ sess[m][r.wid].got = "whole" -> stored[m] \cup {sess[m][r.wid].name}
      [] OTHER -> stored[m]

MemberSessions(m, r) ==
    CASE r.op = "wopen" /\ FreeWids(m) # {} ->
           [sess[m] EXCEPT ![NextWid(m)] = [name |-> r.name, got |-> None]]
      [] r.op = "wappend" /\ sess[m][r.wid] # NoSession ->
           [sess[m] EXCEPT ![r.wid].got = IF @ = None /\ r.name = sess[m][r.wid].name
                                          THEN "whole" ELSE "mixed"]
      [] r.op \in {"wcommit", "wabort"} -> [sess[m] EXCEPT ![r.wid] = NoSession]
      [] OTHER -> sess[m]

-----------------------------------------------------------------------------
(* Steps *)

\* The answers a step emitted are taken and the history told of them.
Gone(S, gone) ==
    LET Lost(n) == {m \in Member : <<n, m>> \in gone}
    IN  [S EXCEPT !.asked = [c \in Client |->
            [S.asked[c] EXCEPT !.lost = @ \cup Lost(S.asked[c].name),
                               !.sure = @ /\ Lost(S.asked[c].name) = {}]]]
Step(S, gone) ==
    LET T == Gone(S, gone)
        Acks(e) == IF e.ans = Ok /\ e.req.op \in {"put", "put_keyed", "wcommit"}
                   THEN {e.req.name} \X (e.req.on \ e.req.lost) ELSE {}
        Wrong(e) == IF e.req.op = None THEN {"twice"}
                    ELSE IF e.ans = "not_found" /\ e.req.sure THEN {"denied"} ELSE {}
        Told(c, op, answers) == \E k \in DOMAIN S.out : /\ S.out[k].client = c
                                                       /\ S.out[k].req.op = op
                                                       /\ S.out[k].ans \in answers
        Ended(c) == \/ \E op \in {"wcommit", "wabort"} : Told(c, op, {Ok} \cup Errno)
                    \/ Told(c, "wappend", Errno)
    IN  /\ rt' = [T EXCEPT !.out = <<>>,
                           !.mine = [c \in Client |-> IF Ended(c) THEN 0 ELSE S.mine[c]],
                           !.sent = [c \in Client |-> /\ ~Ended(c)
                                                     /\ (S.sent[c] \/ Told(c, "wappend", {Ok}))]]
        /\ acked' = (acked \cup UNION {Acks(S.out[k]) : k \in DOMAIN S.out}) \ gone
        /\ wrong' = wrong \cup UNION {Wrong(S.out[k]) : k \in DOMAIN S.out}

Handle(S, c, op, name) ==
    CASE op \in {"put", "put_keyed"} -> HandlePut(S, c, op, name)
      [] op \in {"get", "head", "range"} -> HandleRead(S, c, op, name)
      [] op = "delete" -> HandleDelete(S, c, name)
      [] op = "scan" -> HandleAdminScan(S, c)
      [] op = "wopen" -> HandleStreamOpen(S, c, name)
      [] op \in {"wappend", "wcommit", "wabort"} -> HandleStream(S, c, op, S.mine[c])

\* The requests that make sense of each name, and of a client's stream.
Sensible(c, op, name) ==
    CASE op = "put" -> name \in Digest
      [] op = "put_keyed" -> name \in Key
      [] op = "scan" -> name = None
      [] op = "wopen" -> rt.mine[c] = 0 /\ name \in Digest
      [] op \in {"wappend", "wcommit", "wabort"} ->
           /\ rt.mine[c] # 0 /\ name = rt.streams[rt.mine[c]].name
           /\ op = "wappend" => ~rt.sent[c]
           /\ op = "wcommit" => rt.sent[c]
      [] OTHER -> name \in Name

Request(c, op, name) ==
    /\ Settled(rt) /\ rt.asked[c] = Idle
    /\ budget.requests > 0 /\ op \in budget.ops /\ Sensible(c, op, name)
    /\ budget' = [budget EXCEPT !.requests = @ - 1]
    /\ LET on == IF op \in {"wappend", "wcommit", "wabort"}
                 THEN Range(rt.streams[rt.mine[c]].targets)
                 ELSE IF op = "scan" THEN {0}
                 ELSE Range(RankTargets(rt, IF op = "put" THEN PutRank[name] ELSE Rank[name]))
           asks == IF op = "scan" THEN {} ELSE Range(RankTargets(rt, Rank[name]))
           req == [op |-> op, name |-> name, on |-> on, lost |-> {},
                   sure |-> asks # {} /\ \A m \in asks : <<name, m>> \in acked]
       IN  Step(Handle([rt EXCEPT !.asked[c] = req], c, op, name), {})
    /\ UNCHANGED <<place, stored, sess>>

Fault(kind) == /\ kind \in budget.kinds /\ budget.faults > 0
               /\ budget' = [budget EXCEPT !.faults = @ - 1]

\* A member serves the request at the head of its channel.  Its answer is
\* delivered, or is lost, or is a refusal in its stead.
Serve(m, delivered, refused) ==
    LET h == Head(rt.q[m])
        r == h.req
        resp == IF refused THEN Bad("io") ELSE MemberAnswer(m, r)
        mine == {a \in rt.await : a.cid = h.cid /\ a.to = m}
        S == [rt EXCEPT !.q[m] = Tail(@)]
        R == [S EXCEPT !.quiet = @ \ {m}, !.await = @ \ mine]
        gone == IF r.op = "delete" /\ ~refused THEN {<<r.name, m>>} ELSE {}
    IN  /\ rt.q[m] # <<>> /\ m \notin rt.stuck /\ Settled(rt)
        /\ stored' = IF refused THEN stored ELSE [stored EXCEPT ![m] = MemberStores(m, r)]
        /\ sess' = IF refused THEN sess ELSE [sess EXCEPT ![m] = MemberSessions(m, r)]
        /\ Step(IF ~delivered \/ m \in rt.broken THEN S
                ELSE IF mine = {} THEN R
                ELSE AnswerJoin(R, CHOOSE a \in mine : TRUE, resp), gone)
        /\ UNCHANGED place

Answer(m) == Serve(m, TRUE, FALSE) /\ UNCHANGED budget
LoseAnswer(m) == Serve(m, FALSE, FALSE) /\ Fault("lost")
Refuse(m) == Serve(m, TRUE, TRUE) /\ Fault("refused")

\* The deadline passes.  A member that is answering is late only by fault.
Coming(a) == /\ a.to \notin rt.stuck \cup rt.broken
             /\ \E k \in DOMAIN rt.q[a.to] : rt.q[a.to][k].cid = a.cid
Expire(a) ==
    /\ Settled(rt)
    /\ IF Coming(a) THEN Fault("late") ELSE UNCHANGED budget
    /\ Step(AnswerJoin([rt EXCEPT !.await = @ \ {a}, !.quiet = @ \cup {a.to}], a, Bad("io")), {})
    /\ UNCHANGED <<place, stored, sess>>

\* Members::flush, and the members' side of it.
Stick(m) == /\ m \notin rt.stuck /\ Fault("stuck")
            /\ rt' = [rt EXCEPT !.stuck = @ \cup {m}]
            /\ UNCHANGED <<place, stored, sess, acked, wrong>>
Unstick(m) == /\ m \in rt.stuck
              /\ rt' = [rt EXCEPT !.stuck = @ \ {m}, !.owed = @ \ {m}, !.stalled = @ \ {m}]
              /\ UNCHANGED <<place, stored, sess, budget, acked, wrong>>
\* Mutant: a frame may be owed for ever.
StallNever(m) == FALSE /\ UNCHANGED vars

Stall(m) == /\ m \in rt.owed \ rt.stalled
            /\ rt' = [rt EXCEPT !.stalled = @ \cup {m}]
            /\ UNCHANGED <<place, stored, sess, budget, acked, wrong>>
\* An answer channel carried a header no frame can have.
Break(m) == /\ m \notin rt.broken /\ Fault("broken")
            /\ rt' = [rt EXCEPT !.broken = @ \cup {m}]
            /\ UNCHANGED <<place, stored, sess, acked, wrong>>

\* A member loses a body, its sessions kept.
Wipe(m, name) == /\ name \in stored[m] /\ Fault("wiped")
                 /\ stored' = [stored EXCEPT ![m] = @ \ {name}]
                 /\ Step(rt, {<<name, m>>})
                 /\ UNCHANGED <<place, sess>>

Scrub == /\ budget.scrub /\ ~rt.scrubBusy /\ Settled(rt)
         /\ Step(ScrubKick(rt), {})
         /\ UNCHANGED <<place, stored, sess, budget>>

\* placement_router: an update that changes nothing is not published.
FleetUpdate(f) == /\ f # place.fleet /\ Fault("fleet")
                  /\ place' = [fleet |-> f, emitted |-> FALSE]
                  /\ UNCHANGED <<rt, stored, sess, acked, wrong>>
FleetEpoch == /\ ~place.emitted
              /\ place' = [place EXCEPT !.emitted = TRUE]
              /\ rt' = [rt EXCEPT !.fleet = place.fleet]
              /\ UNCHANGED <<stored, sess, budget, acked, wrong>>

Init == /\ rt = NewRouter
        /\ place = [fleet |-> Member, emitted |-> TRUE]
        /\ stored = [m \in Member |-> {}]
        /\ sess = [m \in Member |-> [w \in 0..(Wids - 1) |-> NoSession]]
        /\ budget \in Configs
        /\ acked = {} /\ wrong = {}

Next == \/ \E c \in Client, op \in Op, n \in Name \cup {None} : Request(c, op, n)
        \/ \E m \in Member : Answer(m) \/ LoseAnswer(m) \/ Refuse(m)
        \/ \E a \in rt.await : Expire(a)
        \/ \E m \in Member : Stick(m) \/ Unstick(m) \/ Stall(m) \/ Break(m)
        \/ \E m \in Member, n \in Name : Wipe(m, n)
        \/ Scrub
        \/ \E f \in Fleets : FleetUpdate(f)
        \/ FleetEpoch

ExpireOf(i) == \E a \in rt.await : a.join = i /\ Expire(a)

CanAnswer(m) == rt.q[m] # <<>> /\ m \notin rt.stuck /\ Settled(rt)
CanExpire(i) == /\ Settled(rt)
                /\ \E a \in rt.await :
                      a.join = i /\ (Coming(a) => "late" \in budget.kinds /\ budget.faults > 0)
CanScrub == budget.scrub /\ ~rt.scrubBusy /\ Settled(rt) /\ ScrubKick(rt) # rt

\* Clocks pass deadlines, members that read answer, the scrub's timer
\* fires; a member that stopped reading may never start again.  Weak fairness of each, written with
\* its guard where the enabling condition is that.
Fairness == /\ \A i \in 1..Joins : []<>(~CanExpire(i)) \/ []<><<ExpireOf(i)>>_vars
            /\ \A m \in Member : /\ ([]<>(~CanAnswer(m)) \/ []<><<Answer(m)>>_vars)
                                  /\ WF_vars(Stall(m))
            /\ ([]<>(~CanScrub) \/ []<><<Scrub>>_vars)
            /\ WF_vars(FleetEpoch)

Spec == Init /\ [][Next]_vars
FairSpec == Spec /\ Fairness

-----------------------------------------------------------------------------
(* Properties *)

JoinType == [kind : {"free", "client", "repair", "admin_scan", "scan", "probe", "fetch", "open",
                     "append", "commit", "abort"},
             op : Op \cup {None},
             name : Name \cup {None}, client : Client \cup {None}, gen : {0, 1},
             need : 0..Members, ack : 0..Members, fail : 0..Members,
             targets : Seq(Member), attempt : 1..(Members + 1),
             missing : SUBSET Member, present : SUBSET Member,
             errno : Errno \cup {None}, sid : 0..Sids,
             repair : Seq(Member)]

\* Every record of the router, the members and the fleet keeps its shape,
\* and a walk's cursor never passes the end of its replica set.
TypeOK ==
    /\ \A i \in 1..Joins : /\ rt.joins[i] \in JoinType
                            /\ rt.joins[i].ack + rt.joins[i].fail <= rt.joins[i].need
    /\ rt.await \subseteq [cid : Nat, to : Member, join : 1..Joins, gen : {0, 1}]
    /\ Cardinality(rt.await) <= Pending
    /\ rt.stalled \subseteq rt.owed /\ rt.owed \subseteq rt.stuck
    /\ rt.quiet \subseteq Member /\ rt.fleet \subseteq Member /\ rt.scrubAt \in Member
    /\ rt.mine \in [Client -> 0..Sids] /\ rt.sent \in [Client -> BOOLEAN]
    /\ stored \in [Member -> SUBSET Name]
    /\ place \in [fleet : SUBSET Member, emitted : BOOLEAN]

\* A body a client was told is stored is on every member the write was for,
\* whatever answers were late, lost or for another write in the same slot
\* (answer_join, apply_join_response).
AckedReplicated == \A p \in acked : p[1] \in stored[p[2]]

\* No request is answered twice ("twice"): an answer that comes after its join
\* was freed, or was given to another request, reaches nobody (answer_join).
\* And a body acknowledged on its full replica set, and neither deleted nor
\* lost by a member since, is never answered NOT_FOUND ("denied"): members that
\* are quiet, stalled or refuse make it an I/O error (advance_read).
AnswersRight == wrong = {}

\* Every upstream request is answered, whatever members do: silence ends at
\* the deadline and a member that stops reading is stalled (module_step_impl).
\* And every join slot comes back, also those of repairs, probes and aborts that
\* nobody waits for: the table is never lost slot by slot (free_join).
RequestAnswered ==
    /\ \A c \in Client : rt.asked[c] # Idle ~> rt.asked[c] = Idle
    /\ \A i \in 1..Joins : []<>(rt.joins[i].kind = "free")

\* Once requests and faults end, a body on some member of its replica set is
\* on all of them: the scrub probes, fetches and repairs it (scrub_kick).
Whole(n) == LET ranked == Range(RankTargets(rt, Rank[n]))
            IN  \/ \A m \in ranked : n \in stored[m]
                \/ \A m \in ranked : n \notin stored[m]
ScrubHeals == <>[](budget.scrub /\ rt.broken \cup rt.stuck = {} => \A n \in Name : Whole(n))
=============================================================================
