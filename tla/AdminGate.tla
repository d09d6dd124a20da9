----------------------------- MODULE AdminGate -----------------------------
(***************************************************************************)
(* admin_gate: the admin plane's front door.  It frames every session's    *)
(* requests, admits each under the grants the session presented, forwards  *)
(* it to admin_router under a correlation id of its own, and routes the    *)
(* answer back.  From admin_gate_body.rs.                                  *)
(*                                                                         *)
(* The handlers are operators from gate state to gate state; g holds the   *)
(* tables and the channels the gate is wired with.  A session is named by  *)
(* its slot: slots 1..NetSlots are the network table, the rest the link    *)
(* table, where conn is the link and gen the session number on it.  Frames *)
(* arrive whole, several to a transport fragment; from, gone and at are    *)
(* history (AdminClient).                                                  *)
(***************************************************************************)
EXTENDS AdminClient, FiniteSetsExt

CONSTANTS
    NetSlots, LinkSlots,   \* NET_SESSIONS, LINK_SESSIONS
    PendSlots,             \* PENDING
    Links,                 \* LINKS
    Ops,                   \* OPS_PER_STEP
    MaxGrants,             \* MAX_SESSION_GRANTS
    ScopeDepth,            \* ADMIN_SCOPE_DEPTH
    OutCap,                \* what a channel out of the gate holds
    RouterCap              \* what the router's request channel holds

ASSUME GateAssumption ==
    {NetSlots, LinkSlots, PendSlots, Links, Ops, MaxGrants, ScopeDepth, OutCap, RouterCap}
        \subseteq Nat \ {0}

NetSlot == 1..NetSlots
LinkSlot == (NetSlots + 1)..(NetSlots + LinkSlots)
Slot == NetSlot \cup LinkSlot

NoAuth == [bound |-> FALSE, id |-> NoId, grants |-> <<>>, streams |-> {}]
FreeSlot == [use |-> FALSE, acc |-> FALSE, conn |-> 0, gen |-> 0, inc |-> 0, auth |-> NoAuth,
             rx |-> <<>>]
NoPend == [use |-> FALSE, slot |-> 0, inc |-> 0, cid |-> 0, for |-> 0, op |-> "none"]

\* module_new_impl, with the channels empty.
NewGate ==
    [sess |-> [i \in Slot |-> FreeSlot], pend |-> [k \in 1..PendSlots |-> NoPend],
     inc |-> 0, cid |-> 0, req |-> <<>>, out |-> <<>>,
     netIn |-> <<>>, ids |-> <<>>, netOut |-> <<>>,
     linkIn |-> [l \in 1..Links |-> <<>>], linkOut |-> [l \in 1..Links |-> <<>>],
     rIn |-> <<>>, rOut |-> <<>>]

Owed(g) == g.req # <<>> \/ g.out # <<>>
Lowest(S) == IF S = {} THEN 0 ELSE Min(S)

-----------------------------------------------------------------------------
(* What is owed: one request to the router, one answer to a client.         *)

FlushRequest(g) ==
    IF g.req = <<>> \/ Len(g.rIn) >= RouterCap THEN g
    ELSE [g EXCEPT !.rIn = Append(@, g.req[1]), !.req = <<>>]

\* A command the transport has no room for is not sent, and not sent again.
NetClose(g, conn) ==
    IF Len(g.netOut) >= OutCap THEN g
    ELSE [g EXCEPT !.netOut = Append(@, [cmd |-> "close", conn |-> conn, ans |-> <<>>])]

FlushNet(g, o) ==
    LET room == Len(g.netOut) < OutCap
        sent == IF o.sent \/ ~room THEN g
                ELSE [g EXCEPT !.netOut = Append(@, [cmd |-> "send", conn |-> o.conn,
                                                     ans |-> <<o.ans>>]),
                               !.out[1].sent = TRUE]
    IN  CASE ~o.sent /\ ~room -> g
          [] (o.sent \/ room) /\ ~o.close -> [sent EXCEPT !.out = <<>>]
          [] OTHER -> IF Len(sent.netOut) >= OutCap THEN sent
                      ELSE [NetClose(sent, o.conn) EXCEPT !.out = <<>>]
\* Mutant: an answer its channel has no room for is given up.
FlushAnswerOnce(g) ==
    IF g.out = <<>> THEN g
    ELSE LET o == g.out[1]
             t == IF o.net THEN FlushNet(g, o)
                  ELSE IF Len(g.linkOut[o.conn]) >= OutCap THEN g
                  ELSE [g EXCEPT !.linkOut[o.conn] = Append(@, [session |-> o.gen, ans |-> o.ans])]
         IN  [t EXCEPT !.out = <<>>]
FlushAnswer(g) ==
    IF g.out = <<>> THEN g
    ELSE LET o == g.out[1]
         IN  CASE o.net -> FlushNet(g, o)
               [] ~o.net /\ Len(g.linkOut[o.conn]) >= OutCap -> g
               [] OTHER -> [g EXCEPT !.linkOut[o.conn] = Append(@, [session |-> o.gen,
                                                                    ans |-> o.ans]),
                                     !.out = <<>>]

\* The outbox names the connection or link and session, not the slot.
Stage(g, i, ans) ==
    [g EXCEPT !.out = <<[net |-> i \in NetSlot, conn |-> g.sess[i].conn, gen |-> g.sess[i].gen,
                         ans |-> ans, sent |-> FALSE, close |-> FALSE]>>]
Answer(f, t, status, pfid) ==
    [t |-> t, cid |-> f.cid, status |-> status, pfid |-> pfid, from |-> f.from]
Refuse(g, i, f, status) == Stage(g, i, Answer(f, "ack", status, 0))

-----------------------------------------------------------------------------
(* Sessions.                                                                *)

NetFind(g, conn, gen) ==
    Lowest({i \in NetSlot : g.sess[i].use /\ g.sess[i].conn = conn /\ g.sess[i].gen = gen})
NetByConn(g, conn) ==
    Lowest({i \in NetSlot : g.sess[i].use /\ g.sess[i].acc /\ g.sess[i].conn = conn})

EndSession(g, i) == [g EXCEPT !.sess[i].use = FALSE, !.sess[i].auth = NoAuth, !.sess[i].rx = <<>>]
CloseNet(g, i) == NetClose(EndSession(g, i), g.sess[i].conn)

Claimed(g, i, conn, gen, auth) ==
    [g EXCEPT !.inc = @ + 1,
              !.sess[i] = [FreeSlot EXCEPT !.use = TRUE, !.conn = conn, !.gen = gen,
                                           !.inc = g.inc + 1, !.auth = auth]]

\* i = 0: the table is full.  A session of an earlier generation is stale.
NetAlloc(g, conn, gen) ==
    LET stale == {i \in NetSlot : g.sess[i].use /\ g.sess[i].conn = conn /\ g.sess[i].gen # gen}
        t == FoldSet(LAMBDA i, s : EndSession(s, i), g, stale)
        i == Lowest({j \in NetSlot : ~t.sess[j].use})
    IN  [i |-> i, g |-> IF i = 0 THEN t ELSE Claimed(t, i, conn, gen, NoAuth)]
NetSession(g, conn, gen) ==
    LET i == NetFind(g, conn, gen) IN IF i # 0 THEN [i |-> i, g |-> g] ELSE NetAlloc(g, conn, gen)

ReadIdentity(g, round) ==
    IF g.ids = <<>> THEN g
    ELSE LET r == Head(g.ids)
             a == NetSession([g EXCEPT !.ids = Tail(@)], r.conn, r.gen)
         IN  CASE a.i = 0 -> a.g
               [] a.i # 0 /\ r.id = NoId -> [a.g EXCEPT !.sess[a.i].auth.bound = FALSE]
               [] OTHER -> [a.g EXCEPT !.sess[a.i].auth.bound = TRUE,
                                       !.sess[a.i].auth.id = r.id]

-----------------------------------------------------------------------------
(* Authority.                                                               *)

Bodies == <<"bodies">>

\* request_scope: what an operation touches and needs.
StreamOps == {"chunk", "commit"}
BodyOps == {"get_body", "put_body", "put_body_keyed", "delete_body"}
Need(op) == CASE op \in {"get_file", "stat_file", "lookup", "read_file_range", "list_files", "get_body"} ->
                    "read"
              [] op \in {"put_body_keyed", "delete_body"} -> "admin"
              [] OTHER -> "write"

\* The scopes that admit a key: its prefixes that end in a separator.
Scopes(f) ==
    IF f.op \in BodyOps THEN {Bodies}
    ELSE {SubSeq(f.key, 1, n) : n \in 1..Min({Len(f.key) - 1, ScopeDepth})}

\* clk: the trusted clock, which may not be known, is off by no more than its
\* uncertainty, and may be gone when a lease reads it again.  The end of a window
\* is judged at its latest reading.
Within(clk, ttl, until) == clk.known /\ clk.now + clk.uncertainty + ttl <= until

\* The grants of a session that admit a request, the shallowest first.
Admitting(a, f, clk) ==
    {n \in DOMAIN a.grants : /\ a.grants[n].scope \in Scopes(f)
                             /\ Need(f.op) \in a.grants[n].perms
                             /\ Within(clk, 0, a.grants[n].until)}
Shallowest(a, S) == CHOOSE n \in S : \A m \in S : Len(a.grants[n].scope) < Len(a.grants[m].scope)
                                                  \/ (Len(a.grants[n].scope) = Len(a.grants[m].scope)
                                                      /\ n <= m)

\* A lease may not outlive the authority it was taken under.
\* Mutant: it may.
LeaseFitsAny(a, f, clk) == TRUE
LeaseFits(a, f, clk) ==
    \/ f.op # "lease"
    \/ clk.again /\ Within(clk, f.ttl, a.grants[Shallowest(a, Admitting(a, f, clk))].until)

Admitted(a, f, clk) ==
    IF f.op \in StreamOps THEN f.pfid \in a.streams
    ELSE Admitting(a, f, clk) # {} /\ LeaseFits(a, f, clk)

-----------------------------------------------------------------------------
(* Frames.                                                                  *)

\* Wraps, and passes over what is taken.
\* Mutant: it wraps onto what is taken.
NextCidAny(g) == IF g.cid > PendSlots THEN 1 ELSE g.cid + 1
NextCid(g) ==
    LET taken == {g.pend[k].cid : k \in {j \in 1..PendSlots : g.pend[j].use}}
        after == {n \in 1..(PendSlots + 1) : n > g.cid /\ n \notin taken}
    IN  IF after # {} THEN Min(after) ELSE Min((1..(PendSlots + 1)) \ taken)

Forward(g, i, f, clk) ==
    LET k == Lowest({j \in 1..PendSlots : ~g.pend[j].use})
        cid == NextCid(g)
        entry == [use |-> TRUE, slot |-> i, inc |-> g.sess[i].inc, cid |-> cid, for |-> f.cid,
                  op |-> f.op]
    IN  IF k = 0 THEN Refuse(g, i, f, "busy")
        ELSE FlushRequest([g EXCEPT !.pend[k] = entry, !.cid = cid,
                                    !.req = <<[f EXCEPT !.cid = cid, !.at = clk.now]>>])

\* The holder a lease or volume request names is bound to the session's identity.
BoundHolder(a, f) == [f EXCEPT !.holder = IF f.op \in {"lease", "volume"} THEN <<a.id, @[2]>> ELSE @]

\* Mutant: a commit leaves its stream to the session.
ReleasedKept(g, i, f) == g
Released(g, i, f) == IF f.op = "commit" THEN [g EXCEPT !.sess[i].auth.streams = @ \ {f.pfid}] ELSE g

Request(g, i, f, clk) ==
    LET a == g.sess[i].auth
    IN  IF ~Admitted(a, f, clk) THEN Refuse(g, i, f, "forbidden")
        ELSE Forward(Released(g, i, f), i, BoundHolder(a, f), clk)

Present(g, i, f, clk) ==
    LET a == g.sess[i].auth
        granted == [g EXCEPT !.sess[i].auth.grants = Append(@, [f.chain EXCEPT !.p = f.cid])]
    IN  CASE ~a.bound -> Stage(g, i, Answer(f, "cap", "unauthenticated", 0))
          [] a.bound /\ ~(f.chain.ok /\ Within(clk, 0, f.chain.until)) ->
                Stage(g, i, Answer(f, "cap", "refused", 0))
          [] OTHER -> IF Len(a.grants) >= MaxGrants
                      THEN Stage(g, i, Answer(f, "cap", "full", 0))
                      ELSE Stage(granted, i, Answer(f, "cap", "granted", 0))
Withdraw(g, i, f) == [g EXCEPT !.sess[i].auth.grants = SelectSeq(@, LAMBDA c : c.p # f.chain.p)]

\* keep: FALSE when the session must end.
HandleFrame(g, i, f, clk) ==
    CASE f.t = "present" -> [keep |-> TRUE, g |-> Present(g, i, f, clk)]
      [] f.t = "withdraw" -> [keep |-> TRUE, g |-> Withdraw(g, i, f)]
      [] f.t = "request" -> [keep |-> TRUE, g |-> Request(g, i, f, clk)]
      [] f.t = "malformed" -> [keep |-> FALSE, g |-> g]

\* The frame at the front of a session's bytes.  One that names no request is
\* answered, and the connection closed behind the answer.
ServeFrame(g, i, clk) ==
    LET f == Head(g.sess[i].rx)
        h == HandleFrame(g, i, f, clk)
        t == [h.g EXCEPT !.sess[i].rx = Tail(@)]
    IN  CASE ~g.sess[i].use \/ g.sess[i].rx = <<>> \/ Owed(g) -> g
          [] g.sess[i].use /\ g.sess[i].rx # <<>> /\ ~Owed(g) /\ f.t = "unknown" ->
                EndSession([Refuse(g, i, f, "forbidden") EXCEPT !.out[1].close = TRUE], i)
          [] OTHER -> IF h.keep THEN t ELSE CloseNet(t, i)
ServeNet(g, i, clk) == FoldLeft(LAMBDA s, round : ServeFrame(s, i, clk), g, g.sess[i].rx)
ServeAll(g, clk) ==
    FoldLeft(LAMBDA s, i : IF s.sess[i].use /\ s.sess[i].acc THEN ServeNet(s, i, clk) ELSE s, g,
             [i \in NetSlot |-> i])

-----------------------------------------------------------------------------
(* The network and the links.                                               *)

Accepted(g, e) ==
    LET a == NetSession(g, e.conn, e.gen)
    IN  IF a.i = 0 THEN NetClose(a.g, e.conn) ELSE [a.g EXCEPT !.sess[a.i].acc = TRUE]
Data(g, e, clk) ==
    LET i == NetByConn(g, e.conn)
    IN  IF i = 0 THEN g ELSE ServeNet([g EXCEPT !.sess[i].rx = @ \o e.frames], i, clk)
Closed(g, e) ==
    LET i == NetByConn(g, e.conn)
    IN  NetClose(IF i = 0 THEN g ELSE EndSession(g, i), e.conn)
NetEvent(g, e, clk) ==
    CASE e.ev = "accepted" -> Accepted(g, e)
      [] e.ev = "data" -> Data(g, e, clk)
      [] e.ev = "closed" -> Closed(g, e)
ReadNet(g, clk) ==
    FoldLeft(LAMBDA s, round : IF Owed(s) \/ s.netIn = <<>> THEN s
                               ELSE NetEvent([s EXCEPT !.netIn = Tail(@)], Head(s.netIn), clk),
             g, [n \in 1..(4 * Ops) |-> n])

LinkFind(g, l, session) ==
    Lowest({j \in LinkSlot : g.sess[j].use /\ g.sess[j].conn = l /\ g.sess[j].gen = session})
\* The wiring authenticated it; its identity is the link it is on.
LinkAlloc(g, l, session) ==
    LET j == Lowest({i \in LinkSlot : ~g.sess[i].use})
    IN  [i |-> j, g |-> IF j = 0 THEN g
                        ELSE Claimed(g, j, l, session, [NoAuth EXCEPT !.bound = TRUE, !.id = <<"link", l>>])]
RefuseUnsessioned(g, l, r) ==
    LET out(ans) == [g EXCEPT !.out = <<[net |-> FALSE, conn |-> l, gen |-> r.session, ans |-> ans,
                                         sent |-> FALSE, close |-> FALSE]>>]
    IN  CASE r.frame.t = "present" -> out(Answer(r.frame, "cap", "full", 0))
          [] r.frame.t = "withdraw" -> g
          [] OTHER -> out(Answer(r.frame, "ack", "busy", 0))
LinkRecord(g, l, r, clk) ==
    LET found == LinkFind(g, l, r.session)
        a == IF found # 0 THEN [i |-> found, g |-> g] ELSE LinkAlloc(g, l, r.session)
        h == HandleFrame(a.g, a.i, r.frame, clk)
    IN  CASE r.frame.t = "end" -> IF found = 0 THEN g ELSE EndSession(g, found)
          [] r.frame.t # "end" /\ a.i = 0 -> RefuseUnsessioned(g, l, r)
          [] r.frame.t = "unknown" /\ a.i # 0 ->
                EndSession(Refuse(a.g, a.i, r.frame, "forbidden"), a.i)
          [] OTHER -> IF h.keep THEN h.g ELSE EndSession(h.g, a.i)
ReadLink(g, l, clk) ==
    FoldLeft(LAMBDA s, round : IF Owed(s) \/ s.linkIn[l] = <<>> THEN s
                               ELSE LinkRecord([s EXCEPT !.linkIn[l] = Tail(@)], l,
                                               Head(s.linkIn[l]), clk),
             g, [n \in 1..Ops |-> n])

-----------------------------------------------------------------------------
(* The router's answers.                                                    *)

\* Mutant: whoever has the slot by now.
LiveAny(g, p) == g.sess[p.slot].use
Live(g, p) == g.sess[p.slot].use /\ g.sess[p.slot].inc = p.inc

RouterAnswer(g, round) ==
    IF g.out # <<>> \/ g.rOut = <<>> THEN g
    ELSE LET a == Head(g.rOut)
             k == Lowest({j \in 1..PendSlots : g.pend[j].use /\ g.pend[j].cid = a.cid})
             p == g.pend[k]
             read == [g EXCEPT !.rOut = Tail(@)]
             taken == [read EXCEPT !.pend[k] = NoPend]
             opened == IF p.op = "open" /\ a.status = "ok"
                       THEN [taken EXCEPT !.sess[p.slot].auth.streams = @ \cup {a.pfid}]
                       ELSE taken
         IN  CASE k = 0 -> read
               [] k # 0 /\ ~Live(g, p) -> taken
               [] OTHER -> FlushAnswer(Stage(opened, p.slot, [a EXCEPT !.cid = p.for]))

\* module_step_impl.
GateStep(g, clk) ==
    LET rounds == [n \in 1..Ops |-> n]
        a == FlushAnswer(FlushRequest(g))
        b == FoldLeft(ReadIdentity, a, rounds)
        c == FoldLeft(RouterAnswer, b, rounds)
        d == ReadNet(ServeAll(c, clk), clk)
        e == FoldLeft(LAMBDA s, l : ReadLink(s, l, clk), d, [l \in 1..Links |-> l])
    IN  FlushAnswer(FlushRequest(e))
=============================================================================
