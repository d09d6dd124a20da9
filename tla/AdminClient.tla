---------------------------- MODULE AdminClient ----------------------------
(***************************************************************************)
(* admin_client: how a module of the graph reaches admin_gate.  It loads   *)
(* its capability chains, dials (or is wired by a link), presents each     *)
(* chain and waits for its answer, then carries one request at a time and  *)
(* yields the answers whole.  From admin_client.rs.                        *)
(*                                                                         *)
(* The functions are operators on w = [c, in, out]: a client and the       *)
(* channels it reads and writes.  me, asked, gone and left are history:    *)
(* who the client is, the requests it has not taken an answer for, the     *)
(* chains it withdrew, and how many more frames its owner will send.       *)
(***************************************************************************)
EXTENDS Naturals, SequencesExt

CONSTANTS
    RxCap,       \* answers rx holds (RX_MAX)
    CmdCap,      \* what a channel out of a client holds
    ReadBurst,   \* transport frames one poll reads
    MaxChains,   \* MAX_CHAINS
    FileMax      \* CAP_FILE_MAX, in lines

ASSUME ClientAssumption == {RxCap, CmdCap, ReadBurst, MaxChains, FileMax} \subseteq Nat \ {0}

NoId == <<"none", 0>>
NoHolder == <<NoId, 0>>
NoChain == [p |-> 0, scope |-> <<>>, perms |-> {}, until |-> 0, ok |-> FALSE]

\* A frame to the gate; from, gone and at are history: who sent it, which of its
\* chains it had withdrawn by then, and when the gate admitted it.
Frame(t, from) ==
    [t |-> t, cid |-> 0, op |-> "none", key |-> <<>>, pfid |-> 0, holder |-> NoHolder, ttl |-> 0,
     chain |-> NoChain, from |-> from, gone |-> {}, at |-> 0]

NoClient == [me |-> 0, kind |-> "none", st |-> "off", why |-> "none", shared |-> FALSE,
             link |-> 0, session |-> 0, conn |-> 0, connected |-> FALSE, dialed |-> FALSE,
             redial |-> 0, load |-> "idle", filled |-> 0, fd |-> FALSE, chains |-> <<>>,
             presenting |-> 0, awaiting |-> FALSE, tx |-> <<>>, rx |-> <<>>, held |-> FALSE,
             asked |-> {}, gone |-> {}, left |-> 0]

Fail(c, why) == [c EXCEPT !.st = "failed", !.why = why]

InitLink(c) == [c EXCEPT !.kind = "link", !.st = "presenting"]
InitNet(c) == [c EXCEPT !.kind = "net", !.st = "connecting"]

-----------------------------------------------------------------------------
(* The capability file, a sequence of lines, each with a chain or a comment *)
(* or neither.                                                              *)

ChainsOf(text) ==
    LET lines == SelectSeq(text, LAMBDA x : x.k = "chain") IN [n \in DOMAIN lines |-> lines[n].chain]
Decodes(text) == (\A n \in DOMAIN text : text[n].k # "bad") /\ Len(ChainsOf(text)) <= MaxChains

EndLoad(c, why) ==
    LET d == [c EXCEPT !.fd = FALSE, !.filled = 0, !.load = "idle"]
    IN  IF why = "loaded" THEN [d EXCEPT !.load = "loaded"] ELSE Fail(d, why)

\* What was read is the file: load it.
LoadText(c, text) ==
    CASE ~Decodes(text) -> EndLoad(c, "bad_line")
      [] Decodes(text) /\ ChainsOf(text) = <<>> -> EndLoad(c, "empty")
      [] OTHER -> [EndLoad(c, "loaded") EXCEPT !.chains = ChainsOf(text)]

\* One answer of the provider: not yet, a failure, or a count, 0 at the end.
LoadOpen(c, answer) ==
    CASE answer.s = "again" -> c
      [] answer.s = "error" -> Fail(c, "unopenable")
      [] OTHER -> [c EXCEPT !.fd = TRUE, !.filled = 0, !.load = "read"]
\* Mutant: a full buffer is the file.
LoadProbeNone(c, file, answer) == LoadText(c, SubSeq(file, 1, c.filled))
LoadProbe(c, file, answer) ==
    CASE answer.s = "again" -> [c EXCEPT !.load = "probe"]
      [] answer.s = "error" -> EndLoad(c, "unreadable")
      [] OTHER -> IF Len(file) > c.filled THEN EndLoad(c, "too_large")
                  ELSE LoadText(c, SubSeq(file, 1, c.filled))
LoadRead(c, file, answer) ==
    CASE answer.s = "again" -> c
      [] answer.s = "error" -> EndLoad(c, "unreadable")
      [] answer.n = 0 -> LoadText(c, SubSeq(file, 1, c.filled))
      [] OTHER -> [c EXCEPT !.filled = @ + answer.n]
LoadAnswers(c, file) ==
    LET most == IF Len(file) < FileMax THEN Len(file) ELSE FileMax
        counts == IF c.load = "idle" \/ c.filled = most THEN {0} ELSE 1..(most - c.filled)
    IN  [s : {"again", "error"}, n : {0}] \cup [s : {"ok"}, n : counts]
LoadStep(c, file, answer) ==
    CASE c.load = "idle" -> LoadOpen(c, answer)
      [] c.load # "idle" /\ c.filled = FileMax -> LoadProbe(c, file, answer)
      [] OTHER -> LoadRead(c, file, answer)

-----------------------------------------------------------------------------
(* Sending.                                                                 *)

NetCmd(w, cmd) == IF Len(w.out) >= CmdCap THEN w ELSE [w EXCEPT !.out = Append(@, cmd)]
CloseCmd(conn) == [cmd |-> "close", conn |-> conn, frame |-> <<>>, tag |-> 0]

Flush(w) ==
    IF w.c.tx = <<>> \/ Len(w.out) >= CmdCap \/ (w.c.kind = "net" /\ ~w.c.connected) THEN w
    ELSE LET rec == IF w.c.kind = "link"
                    THEN [session |-> w.c.session, frame |-> w.c.tx[1]]
                    ELSE [cmd |-> "send", conn |-> w.c.conn, frame |-> w.c.tx, tag |-> 0]
         IN  [w EXCEPT !.out = Append(@, rec), !.c.tx = <<>>]

CanSend(c) == c.st = "ready" /\ c.tx = <<>>
Send(w, f) == Flush([w EXCEPT !.c.tx = <<f>>])

-----------------------------------------------------------------------------
(* Answers.                                                                 *)

OnCapAnswer(c, a) ==
    LET d == [c EXCEPT !.awaiting = FALSE]
    IN  CASE ~c.awaiting -> Fail(c, "protocol")
          [] c.awaiting /\ a.status = "granted" -> [d EXCEPT !.presenting = @ + 1]
          [] OTHER -> Fail(d, a.status)
RecvOne(c, round) ==
    CASE c.held \/ c.rx = <<>> \/ c.st = "failed" -> c
      [] ~c.held /\ c.rx # <<>> /\ c.st # "failed" /\ Head(c.rx).t = "cap" ->
            [OnCapAnswer(c, Head(c.rx)) EXCEPT !.rx = Tail(@)]
      [] OTHER -> [c EXCEPT !.held = TRUE]
Recv(c) == FoldLeft(RecvOne, c, c.rx)
Take(c) == [c EXCEPT !.held = FALSE, !.rx = Tail(@), !.asked = @ \ {Head(c.rx).cid}]

HasRoom(c) == Len(c.rx) < RxCap
\* Presentation answers come before any admin answer.
Absorb(c, ans) ==
    LET d == [c EXCEPT !.rx = @ \o ans] IN IF c.st = "presenting" THEN Recv(d) ELSE d

LinkAnswer(w, rec) ==
    IF ~HasRoom(w.c) THEN w
    ELSE LET x == [w EXCEPT !.in = Tail(@)]
         IN  IF rec.session # w.c.session THEN x ELSE [x EXCEPT !.c = Absorb(@, <<rec.ans>>)]
LinkPoll(w) == FoldLeft(LinkAnswer, w, w.in)

-----------------------------------------------------------------------------
(* The network.                                                             *)

\* Another dial over the same transport is in flight: dial again later.
\* Mutant: the dial has failed.
DialAgainNever(c) == Fail(c, "transport")
DialAgain(c) == [c EXCEPT !.dialed = FALSE, !.redial = 1]

ClientEvent(w, e) ==
    LET c == w.c
    IN  CASE e.ev = "connected" /\ e.tag = c.me ->
                IF c.connected THEN NetCmd(w, CloseCmd(e.conn))
                ELSE [w EXCEPT !.c.conn = e.conn, !.c.connected = TRUE, !.c.st = "presenting"]
          [] e.ev = "data" /\ c.connected /\ e.conn = c.conn -> [w EXCEPT !.c = Absorb(@, e.ans)]
          [] e.ev = "closed" /\ c.connected /\ e.conn = c.conn ->
                [NetCmd(w, CloseCmd(c.conn)) EXCEPT !.c = Fail(@, "transport")]
          [] e.ev = "closed" /\ ~c.connected /\ c.dialed /\ ~c.shared ->
                [w EXCEPT !.c = Fail(@, "transport")]
          [] e.ev = "error" /\ e.tag = c.me /\ ~c.connected ->
                [w EXCEPT !.c = IF e.again THEN DialAgain(@) ELSE Fail(@, "transport")]
          [] e.ev = "error" /\ c.connected /\ e.conn = c.conn ->
                [w EXCEPT !.c = Fail(@, "transport")]
          [] OTHER -> w
NetRead1(w, round) ==
    IF w.in = <<>> \/ w.c.st = "failed" \/ ~HasRoom(w.c) THEN w
    ELSE ClientEvent([w EXCEPT !.in = Tail(@)], Head(w.in))
NetDial(w) ==
    IF w.c.connected \/ w.c.dialed \/ w.c.redial # 0 \/ Len(w.out) >= CmdCap THEN w
    ELSE [w EXCEPT !.out = Append(@, [cmd |-> "connect", conn |-> 0, frame |-> <<>>,
                                      tag |-> w.c.me]),
                   !.c.dialed = TRUE]
NetPoll(w) ==
    LET d == NetDial(w)
    IN  IF w.c.shared THEN d ELSE FoldLeft(NetRead1, d, [n \in 1..ReadBurst |-> n])

\* An event of a transport several clients dial over; ws: them and its channel.
\* The close of a dial that never connected names no client: it is the one
\* whose dial is still out.
FeedAll(ws, e) ==
    LET Feed(w) == IF w.c.st \in {"off", "failed"} THEN w ELSE ClientEvent(w, e)
        fed == FoldLeft(LAMBDA acc, n : LET x == Feed([c |-> acc.c[n], in |-> <<>>, out |-> acc.out])
                                        IN  [c |-> [acc.c EXCEPT ![n] = x.c], out |-> x.out],
                        ws, [n \in DOMAIN ws.c |-> n])
        alive == {n \in DOMAIN fed.c : fed.c[n].st # "failed"}
        owns == \E n \in alive : fed.c[n].connected /\ fed.c[n].conn = e.conn
        out == {n \in alive : ~fed.c[n].connected /\ fed.c[n].dialed}
    IN  IF e.ev # "closed" \/ owns \/ out = {} THEN fed
        ELSE LET last == CHOOSE n \in out : \A m \in out : m <= n
             IN  [fed EXCEPT !.c[last] = Fail(@, "transport")]

-----------------------------------------------------------------------------
(* poll.                                                                    *)

Presented(w) ==
    LET c == w.c
        f(chain) == [Frame("present", c.me) EXCEPT !.cid = c.presenting + 1, !.chain = chain]
    IN  CASE c.st # "presenting" \/ c.awaiting \/ c.tx # <<>> -> w
          [] c.st = "presenting" /\ ~c.awaiting /\ c.tx = <<>> /\ c.presenting >= Len(c.chains) ->
                [w EXCEPT !.c.st = "ready"]
          [] OTHER -> [w EXCEPT !.c.tx = <<f(c.chains[c.presenting + 1])>>, !.c.awaiting = TRUE]

\* late: SETUP_TIMEOUT_MS is over.  A redial waits for the poll after next.
Poll(w, late) ==
    LET waited == [w EXCEPT !.c.redial = CASE @ = 1 -> 2 [] OTHER -> 0]
        moved == IF w.c.kind = "link" THEN LinkPoll(waited) ELSE NetPoll(waited)
    IN  CASE w.c.st = "failed" -> w
          [] w.c.st \notin {"failed", "ready"} /\ late -> [w EXCEPT !.c = Fail(@, "timeout")]
          [] OTHER -> Flush(Presented(moved))

\* The end of the session, for a link a record with no frame.
Close(w) ==
    LET done == [w EXCEPT !.c = Fail([@ EXCEPT !.connected = FALSE], "transport")]
    IN  IF w.c.kind = "net"
        THEN IF w.c.connected THEN NetCmd(done, CloseCmd(w.c.conn)) ELSE done
        ELSE NetCmd(done, [session |-> w.c.session, frame |-> Frame("end", w.c.me)])
=============================================================================
