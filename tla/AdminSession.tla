---------------------------- MODULE AdminSession ----------------------------
(***************************************************************************)
(* Clients, the transport they dial over, the gate, and the router behind  *)
(* it: the admin plane from the side of those who ask.                     *)
(*                                                                         *)
(* AdminGate and AdminClient are what the repository's code does; tls is   *)
(* taken as that code uses it.  It numbers connections and gives a number  *)
(* out again, with the next generation, once both sides have closed it.    *)
(* Of the router the table of streamed writes is here; for the rest it     *)
(* answers each request once, in any order (AdminRouter has it all).       *)
(*                                                                         *)
(* cfg, chosen in Init, says who the clients are and what may go wrong.    *)
(***************************************************************************)
EXTENDS AdminGate

CONSTANTS
    Configs,
    NClients, NConns,
    Pfids          \* ADMIN_STREAMED_PUTFILE: the router's streamed-write slots

VARIABLES
    cfg,
    g,        \* the gate and its channels
    cl,       \* the clients
    tin, tout,  \* each client's side of its tls; shared, the first client's
    net,      \* tls's connections
    held,     \* requests the router is serving
    slots,    \* the router's streams: who opened each, and whether its id was given out
    now,
    left,     \* what may still go wrong: drops, refusals, naks
    lost,     \* history: clients whose own connection, dial or session was ended
    cut       \* history: clients whose stream ended by the refusal of a part

vars == <<cfg, g, cl, tin, tout, net, held, slots, now, left, lost, cut>>

Client == 1..NClients
Conn == 1..NConns
FreeConn == [ph |-> "free", gen |-> 0, who |-> 0, cside |-> FALSE, gside |-> FALSE]
FreeStream == [who |-> 0, ready |-> FALSE]

\* The tls a client dials over.
Tls(c) == IF cfg.shared THEN 1 ELSE c
Id(c) == IF cfg.who[c].kind = "link" THEN <<"link", cfg.who[c].link>> ELSE cfg.who[c].id

Init ==
    /\ cfg \in Configs
    /\ g = NewGate
    /\ cl = [c \in Client |-> NoClient]
    /\ tin = [c \in Client |-> <<>>] /\ tout = [c \in Client |-> <<>>]
    /\ net = [k \in Conn |-> FreeConn]
    /\ held = {} /\ slots = [p \in Pfids |-> FreeStream] /\ now = 0
    /\ left = [drops |-> cfg.drops, refusals |-> cfg.refusals, naks |-> cfg.naks]
    /\ lost = {} /\ cut = {}

\* The platform vouches for its clock at some times and not at others.
Clock == [known |-> now \in cfg.vouched, now |-> now, uncertainty |-> cfg.uncertainty,
          again |-> TRUE]

\* A client with the channels it is wired with, and what it did to them.
Wired(c) ==
    IF cl[c].kind = "link"
    THEN [c |-> cl[c], in |-> g.linkOut[cl[c].link], out |-> g.linkIn[cl[c].link]]
    ELSE [c |-> cl[c], in |-> tin[Tls(c)], out |-> tout[Tls(c)]]
Ran(c, w) ==
    /\ cl' = [cl EXCEPT ![c] = w.c]
    /\ IF cl[c].kind = "link"
       THEN /\ g' = [g EXCEPT !.linkOut[cl[c].link] = w.in, !.linkIn[cl[c].link] = w.out]
            /\ UNCHANGED <<tin, tout>>
       ELSE /\ tin' = [tin EXCEPT ![Tls(c)] = w.in] /\ tout' = [tout EXCEPT ![Tls(c)] = w.out]
            /\ UNCHANGED g

-----------------------------------------------------------------------------
(* The gate.                                                                *)

Gate ==
    /\ \E again \in {TRUE, cfg.steady} : g' = GateStep(g, [Clock EXCEPT !.again = again])
    /\ g' # g
    /\ UNCHANGED <<cfg, cl, tin, tout, net, held, slots, now, left, lost, cut>>

-----------------------------------------------------------------------------
(* Clients.  An owner loads the capability file, opens the session, and     *)
(* drives it.                                                               *)

\* The owner has no chains yet; it may be one that comes after another's end.
Unloaded(c) ==
    /\ cl[c].st = "off" /\ cl[c].load # "loaded"
    /\ \A b \in Client : cfg.who[c].after = b => cl[b].st = "failed"

\* The chains are handed over whole, or read from a file.
LoadHanded(c) ==
    /\ Unloaded(c) /\ cfg.who[c].handed
    /\ cl' = [cl EXCEPT ![c] = LoadText(@, cfg.who[c].file)]
    /\ UNCHANGED <<cfg, g, tin, tout, net, held, slots, now, left, lost, cut>>
Load(c, answer) ==
    /\ Unloaded(c) /\ ~cfg.who[c].handed
    /\ cl' = [cl EXCEPT ![c] = LoadStep(@, cfg.who[c].file, answer)]
    /\ UNCHANGED <<cfg, g, tin, tout, net, held, slots, now, left, lost, cut>>

Open(c) ==
    /\ cl[c].st = "off" /\ cl[c].load = "loaded"
    /\ LET s == cfg.who[c]
           d == [cl[c] EXCEPT !.me = c, !.left = s.n, !.shared = cfg.shared /\ s.kind = "net",
                              !.link = s.link, !.session = s.session]
       IN  cl' = [cl EXCEPT ![c] = IF s.kind = "link" THEN InitLink(d) ELSE InitNet(d)]
    /\ UNCHANGED <<cfg, g, tin, tout, net, held, slots, now, left, lost, cut>>

Running(c) == cl[c].st \in {"connecting", "presenting", "ready"}

PollStep(c) ==
    /\ Running(c)
    /\ Poll(Wired(c), FALSE) # Wired(c)
    /\ Ran(c, Poll(Wired(c), FALSE))
    /\ UNCHANGED <<cfg, net, held, slots, now, left, lost, cut>>

SetupTimeout(c) ==
    /\ cfg.timeouts /\ Running(c) /\ cl[c].st # "ready"
    /\ Ran(c, Poll(Wired(c), TRUE))
    /\ UNCHANGED <<cfg, net, held, slots, now, left, lost, cut>>

\* drive: the shared transport is read once, with room in every client.
Feed ==
    /\ cfg.shared /\ tin[1] # <<>>
    /\ \A c \in Client : cl[c].st = "failed" \/ HasRoom(cl[c])
    /\ LET fed == FeedAll([c |-> cl, out |-> tout[1]], Head(tin[1]))
       IN  cl' = fed.c /\ tout' = [tout EXCEPT ![1] = fed.out]
    /\ tin' = [tin EXCEPT ![1] = Tail(@)]
    /\ UNCHANGED <<cfg, g, net, held, slots, now, left, lost, cut>>

\* The owner sends a frame of its own under a correlation id of its own; cfg may
\* fix which of its frames one is.
Ask(c, f) ==
    /\ CanSend(cl[c]) /\ cl[c].left > 0
    /\ f.cid \in {0, cfg.who[c].n - cl[c].left + 1}
    /\ LET cid == cfg.who[c].n - cl[c].left + 1
           w == Send(Wired(c), [f EXCEPT !.cid = cid, !.from = c, !.gone = cl[c].gone])
       IN  Ran(c, [w EXCEPT !.c.left = @ - 1,
                            !.c.gone = IF f.t = "withdraw" THEN @ \cup {f.chain.p} ELSE @,
                            !.c.asked = IF f.t \in {"request", "unknown"} THEN @ \cup {cid} ELSE @])
    /\ UNCHANGED <<cfg, net, held, slots, now, left, lost, cut>>

Taken(c) ==
    /\ Running(c) /\ Recv(cl[c]).held
    /\ cl' = [cl EXCEPT ![c] = Take(Recv(@))]
    /\ UNCHANGED <<cfg, g, tin, tout, net, held, slots, now, left, lost, cut>>

Leave(c) ==
    /\ cfg.who[c].leaves /\ Running(c)
    /\ Ran(c, Close(Wired(c)))
    /\ lost' = lost \cup {c}
    /\ UNCHANGED <<cfg, net, held, slots, now, left, cut>>

-----------------------------------------------------------------------------
(* tls, from how the two sides use it.                                      *)

Event(ev, conn, tag, ans) == [ev |-> ev, conn |-> conn, tag |-> tag, ans |-> ans, again |-> FALSE]
ToClient(k, e) == [tin EXCEPT ![Tls(net[k].who)] = Append(@, e)]
ToGate(k, ev, frames) ==
    [g EXCEPT !.netIn = Append(@, [ev |-> ev, conn |-> k, gen |-> net[k].gen, frames |-> frames])]

\* Free again once neither side holds the number.
Settled(n) == IF n.cside \/ n.gside THEN n ELSE [n EXCEPT !.ph = "free", !.who = 0]

\* One outbound connection at a time.
TlsConnect(t, cmd) ==
    /\ cmd.cmd = "connect"
    /\ IF \E k \in Conn : net[k].ph = "dial" /\ Tls(net[k].who) = t
       THEN /\ tin' = [tin EXCEPT ![t] = Append(@, [Event("error", 0, cmd.tag, <<>>)
                                                    EXCEPT !.again = TRUE])]
            /\ UNCHANGED net
       ELSE \E k \in Conn :
              /\ net[k].ph = "free" /\ \A j \in 1..(k - 1) : net[j].ph # "free"
              /\ net' = [net EXCEPT ![k] = [@ EXCEPT !.ph = "dial", !.gen = 1 - @, !.who = cmd.tag]]
              /\ UNCHANGED tin
    /\ UNCHANGED g
TlsSend(t, cmd) ==
    /\ cmd.cmd = "send"
    /\ g' = IF net[cmd.conn].ph = "open" /\ Tls(net[cmd.conn].who) = t THEN ToGate(cmd.conn, "data", cmd.frame) ELSE g
    /\ UNCHANGED <<net, tin>>
TlsClose(t, cmd) ==
    /\ cmd.cmd = "close"
    /\ LET k == cmd.conn
       IN  /\ net' = [net EXCEPT ![k] = Settled([@ EXCEPT !.cside = FALSE, !.ph = "gone"])]
           /\ g' = IF net[k].ph = "open" THEN ToGate(k, "closed", <<>>) ELSE g
    /\ UNCHANGED tin
TlsCommand(t) ==
    /\ tout[t] # <<>>
    /\ tout' = [tout EXCEPT ![t] = Tail(@)]
    /\ \/ TlsConnect(t, Head(tout[t]))
       \/ TlsSend(t, Head(tout[t]))
       \/ TlsClose(t, Head(tout[t]))
    /\ UNCHANGED <<cfg, cl, held, slots, now, left, lost, cut>>

\* The peer's identity is published with its connection.
Handshake(k) ==
    /\ net[k].ph = "dial"
    /\ net' = [net EXCEPT ![k] = [@ EXCEPT !.ph = "open", !.cside = TRUE, !.gside = TRUE]]
    /\ g' = [ToGate(k, "accepted", <<>>) EXCEPT
                !.ids = Append(@, [conn |-> k, gen |-> net[k].gen, id |-> Id(net[k].who)])]
    /\ tin' = ToClient(k, Event("connected", k, net[k].who, <<>>))
    /\ UNCHANGED <<cfg, cl, tout, held, slots, now, left, lost, cut>>

\* The dial fails, told by its tag or, past tls, by its connection alone.
HandshakeFails(k, ev) ==
    /\ net[k].ph = "dial" /\ left.refusals > 0
    /\ net' = [net EXCEPT ![k] = Settled(@)]
    /\ tin' = ToClient(k, Event(ev, k, net[k].who, <<>>))
    /\ lost' = lost \cup {net[k].who}
    /\ left' = [left EXCEPT !.refusals = @ - 1]
    /\ UNCHANGED <<cfg, g, cl, tout, held, slots, now, cut>>

\* The gate's commands.
TlsAnswer ==
    /\ g.netOut # <<>>
    /\ LET cmd == Head(g.netOut)
           k == cmd.conn
           open == net[k].ph = "open"
           done == Settled([net[k] EXCEPT !.gside = FALSE, !.ph = "gone"])
       IN  /\ tin' = CASE ~open -> tin
                       [] open /\ cmd.cmd = "send" -> ToClient(k, Event("data", k, 0, cmd.ans))
                       [] OTHER -> ToClient(k, Event("closed", k, 0, <<>>))
           /\ net' = IF cmd.cmd = "close" /\ net[k].gside THEN [net EXCEPT ![k] = done] ELSE net
           /\ lost' = IF cmd.cmd = "close" /\ open THEN lost \cup {net[k].who} ELSE lost
    /\ g' = [g EXCEPT !.netOut = Tail(@)]
    /\ UNCHANGED <<cfg, cl, tout, held, slots, now, left, cut>>

\* A connection ends, with an error or without.
Drop(k, ev) ==
    /\ net[k].ph = "open" /\ left.drops > 0
    /\ net' = [net EXCEPT ![k] = [@ EXCEPT !.ph = "gone"]]
    /\ tin' = ToClient(k, Event(ev, k, 0, <<>>))
    /\ g' = ToGate(k, "closed", <<>>)
    /\ lost' = lost \cup {net[k].who}
    /\ left' = [left EXCEPT !.drops = @ - 1]
    /\ UNCHANGED <<cfg, cl, tout, held, slots, now, cut>>

-----------------------------------------------------------------------------
(* The router.                                                              *)

\* A stream's slot is taken by its open; a part or a commit needs the id to
\* have been given out.  room: forward_body's; without it a commit ends the
\* stream and a part does not.
Goes(r) ==
    CASE r.op = "open" -> \E p \in Pfids : slots[p].who = 0
      [] r.op \in StreamOps -> slots[r.pfid].who # 0 /\ slots[r.pfid].ready
      [] OTHER -> FALSE
Taken1(r, p, asked, status) ==
    held \cup {[cid |-> r.cid, op |-> r.op, pfid |-> p, from |-> r.from, asked |-> asked,
                status |-> status]}
RouterOpen(r, room) ==
    /\ r.op = "open"
    /\ IF Goes(r) /\ room
       THEN LET p == Min({q \in Pfids : slots[q].who = 0})
            IN  /\ slots' = [slots EXCEPT ![p] = [who |-> r.from, ready |-> FALSE]]
                /\ held' = Taken1(r, p, TRUE, "ok")
       ELSE held' = Taken1(r, r.pfid, FALSE, "busy") /\ UNCHANGED slots
RouterPart(r, room) ==
    /\ r.op # "open"
    /\ held' = CASE Goes(r) /\ room -> Taken1(r, r.pfid, TRUE, "ok")
                 [] r.op \in StreamOps /\ ~(Goes(r) /\ room) -> Taken1(r, r.pfid, FALSE, "nak")
                 [] OTHER -> Taken1(r, r.pfid, FALSE, "ok")
    /\ slots' = IF r.op = "commit" /\ Goes(r) /\ ~room
                THEN [slots EXCEPT ![r.pfid] = FreeStream] ELSE slots
RouterTake(room) ==
    /\ g.rIn # <<>>
    /\ LET r == Head(g.rIn)
       IN  /\ room \/ (Goes(r) /\ left.naks > 0)
           /\ RouterOpen(r, room) \/ RouterPart(r, room)
    /\ g' = [g EXCEPT !.rIn = Tail(@)]
    /\ left' = IF room THEN left ELSE [left EXCEPT !.naks = @ - 1]
    /\ UNCHANGED <<cfg, cl, tin, tout, net, now, lost, cut>>

\* An answer goes out: the body plane's for a stream, in any order, or the
\* router's own.  A commit ends the stream, and so does the refusal of an open or
\* of a part, whoever has the slot by then.
RouterAnswers(r, ok) ==
    /\ Len(g.rOut) < RouterCap
    /\ ok \/ (r.asked /\ left.naks > 0)
    /\ g' = [g EXCEPT !.rOut = Append(@, [t |-> "ack", cid |-> r.cid, pfid |-> r.pfid, from |-> r.from,
                                          status |-> IF ok THEN r.status ELSE "nak"])]
    /\ held' = held \ {r}
    /\ slots' = CASE ~r.asked -> slots
                  [] r.asked /\ (~ok \/ r.op = "commit") -> [slots EXCEPT ![r.pfid] = FreeStream]
                  [] OTHER -> [slots EXCEPT ![r.pfid].ready = TRUE]
    /\ left' = IF ok THEN left ELSE [left EXCEPT !.naks = @ - 1]
    /\ cut' = IF r.op = "chunk" /\ ~ok THEN cut \cup {slots[r.pfid].who} ELSE cut
    /\ UNCHANGED <<cfg, cl, tin, tout, net, now, lost>>

Tick ==
    /\ now < cfg.ticks
    /\ now' = now + 1
    /\ UNCHANGED <<cfg, g, cl, tin, tout, net, held, slots, left, lost, cut>>

Next ==
    \/ Gate \/ Feed \/ TlsAnswer \/ Tick
    \/ \E room \in BOOLEAN : RouterTake(room)
    \/ \E c \in Client : \/ \E answer \in LoadAnswers(cl[c], cfg.who[c].file) : Load(c, answer)
                         \/ LoadHanded(c) \/ Open(c) \/ PollStep(c) \/ SetupTimeout(c) \/ Taken(c) \/ Leave(c)
                         \/ \E f \in cfg.who[c].frames : Ask(c, f)
                         \/ TlsCommand(c)
    \/ \E k \in Conn : \/ Handshake(k)
                     \/ \E ev \in {"error", "closed"} : HandshakeFails(k, ev) \/ Drop(k, ev)
    \/ \E r \in held, ok \in BOOLEAN : RouterAnswers(r, ok)

Spec == Init /\ [][Next]_vars

\* Every module of the graph is stepped for ever, and so is tls: while one of them
\* has something to do, one of them does.  What may go wrong, the clock and what
\* an owner asks are not owed.
Owing ==
    \/ GateStep(g, Clock) # g
    \/ g.netOut # <<>> \/ g.rIn # <<>>
    \/ held # {} /\ Len(g.rOut) < RouterCap
    \/ cfg.shared /\ tin[1] # <<>> /\ \A c \in Client : cl[c].st = "failed" \/ HasRoom(cl[c])
    \/ \E c \in Client : \/ tout[c] # <<>>
                         \/ Running(c) /\ (Poll(Wired(c), FALSE) # Wired(c) \/ Recv(cl[c]).held)
Stepped ==
    \/ Gate \/ TlsAnswer \/ Feed
    \/ \E room \in BOOLEAN : RouterTake(room)
    \/ \E r \in held, ok \in BOOLEAN : RouterAnswers(r, ok)
    \/ \E c \in Client : PollStep(c) \/ Taken(c) \/ TlsCommand(c)
FairSpec == Spec /\ ([]<>~Owing \/ []<><<Stepped>>_vars)

-----------------------------------------------------------------------------
(* Properties.                                                              *)

Forwarded == ToSet(g.req) \cup ToSet(g.rIn)
InUse == {k \in 1..PendSlots : g.pend[k].use}

\* Every entry of the pending table has its own correlation id and stands for
\* one message between the gate and the router, and every such message for one
\* entry: an id that wraps onto one still out would answer the wrong request.
TypeOK ==
    LET cids == {f.cid : f \in Forwarded} \cup {r.cid : r \in held}
                    \cup {a.cid : a \in ToSet(g.rOut)}
    IN  /\ Cardinality(InUse) = Cardinality({g.pend[k].cid : k \in InUse})
        /\ {g.pend[k].cid : k \in InUse} = cids
        /\ Len(g.rIn) + Len(g.req) + Cardinality(held) + Len(g.rOut) = Cardinality(cids)
        /\ Len(g.req) <= 1 /\ Len(g.out) <= 1
        /\ \A c \in Client : Len(cl[c].rx) <= RxCap /\ Len(cl[c].chains) <= MaxChains

\* A client is handed answers to its own requests only, each once: never one the
\* gate held for a session that had the slot, the connection or the link before.
AnswerRouted ==
    \A c \in Client : \A n \in DOMAIN cl[c].rx :
        LET a == cl[c].rx[n]
        IN  a.from = c /\ (a.t = "ack" => /\ a.cid \in cl[c].asked
                                          /\ \A m \in 1..(n - 1) : cl[c].rx[m].cid # a.cid)

\* Whatever reaches the router was covered, when it was admitted, by a chain its
\* sender presented and had not withdrawn; a lease ends within that chain; a
\* holder is bound to the sender's own identity.  Streamed writes are StreamKept's.
AdmittedCovered ==
    \A f \in Forwarded :
        f.op \notin StreamOps =>
            /\ Id(f.from) # NoId
            /\ \E n \in DOMAIN cl[f.from].chains :
                  LET c == cl[f.from].chains[n]
                  IN  /\ c.ok /\ n \notin f.gone
                      /\ c.scope \in Scopes(f) /\ Need(f.op) \in c.perms
                      /\ f.at \in cfg.vouched /\ f.at + cfg.uncertainty + f.ttl <= c.until
            /\ f.op \in {"lease", "volume"} => f.holder[1] = Id(f.from)

\* "A write stream: decided by which session opened it": a part or the commit of
\* a streamed write never reaches the router for a stream another client opened.
\* False: the refusal of a part frees the stream in the router, while the gate
\* still holds it for the session that opened it.
StreamOwned == \A f \in Forwarded : f.op \in StreamOps => slots[f.pfid].who \in {0, f.from}

\* What holds of it: only a client whose stream ended by the refusal of a part
\* reaches another's stream; one that committed it never does, however its parts,
\* its answers and the next open are ordered.
StreamKept ==
    \A f \in Forwarded : f.op \in StreamOps => slots[f.pfid].who \in {0, f.from} \/ f.from \in cut

\* "A close naming no client's connection belongs to the one client whose dial is
\* still out": a client reports its transport gone only when its own dial or
\* connection is.  False on a shared transport: a close that names the connection
\* of a client it has just failed is charged to the one that is dialing as well.
FailsForCause == \A c \in Client : cl[c].why = "transport" => c \in lost

\* What holds of it: a client that is connected, or has its transport to itself,
\* fails with its own connection only; one that dials over a shared transport
\* fails when something there ended, never because its dial was put off.
LossCharged ==
    \A c \in Client : cl[c].why = "transport" =>
        c \in lost \/ (cl[c].shared /\ ~cl[c].connected /\ lost # {})

\* A client is ready with all the chains of its file, however the file came in
\* and whatever its length.
LoadExact ==
    \A c \in Client : cl[c].load = "loaded" => cl[c].chains = ChainsOf(cfg.who[c].file)

\* A client's requests are all answered, or the client fails.
RequestAnswered ==
    \A c \in Client : cl[c].asked # {} ~> cl[c].asked = {} \/ cl[c].st = "failed"
=============================================================================
