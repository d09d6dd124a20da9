--------------------------- MODULE MCAdminSession ---------------------------
(* Small instances of AdminSession.                                         *)
EXTENDS AdminSession

Chain(scope, perms, until) == [NoChain EXCEPT !.scope = scope, !.perms = perms, !.until = until, !.ok = TRUE]
Line(chain) == [k |-> "chain", chain |-> chain]
Comment == [k |-> "comment", chain |-> NoChain]
Bad == [k |-> "bad", chain |-> NoChain]

Req(op, key) == [Frame("request", 0) EXCEPT !.op = op, !.key = key]
Part(op) == [Frame("request", 0) EXCEPT !.op = op, !.pfid = 1]
Nth(n, f) == [f EXCEPT !.cid = n]
OpenIt == Req("open", <<"r", "f">>)
Look == Req("lookup", <<"r", "f">>)
LookDeep == Req("lookup", <<"r", "d", "f">>)
Lease(key, ttl) == [Req("lease", key) EXCEPT !.ttl = ttl]
Other == Req("lookup", <<"q", "f">>)
Withdrawn == [Frame("withdraw", 0) EXCEPT !.chain.p = 1]

Reads == Line(Chain(<<"r">>, {"read"}, 9))
Writes == Line(Chain(<<"r">>, {"read", "write"}, 9))

Net(id, file, frames, n) ==
    [kind |-> "net", id |-> <<"peer", id>>, link |-> 0, session |-> 0, after |-> 0, leaves |-> FALSE,
     handed |-> TRUE, file |-> file, frames |-> frames, n |-> n]
Link(l, session, file, frames, n) ==
    [Net(0, file, frames, n) EXCEPT !.kind = "link", !.id = NoId, !.link = l, !.session = session]
Base == [who |-> <<>>, shared |-> FALSE, timeouts |-> FALSE, drops |-> 0, refusals |-> 0,
         naks |-> 0, ticks |-> 0, vouched |-> 0..9, uncertainty |-> 0, steady |-> TRUE]

\* One client's stream and another's, with one slot for both.
Streams == [Base EXCEPT !.who = <<Link(1, 5, <<Writes>>, {Nth(1, OpenIt), Part("commit"), Nth(3, Part("chunk"))}, 3),
                                  Link(2, 5, <<Writes>>, {OpenIt}, 1)>>]
\* The same, and one part, open or commit refused.
Refused == [Base EXCEPT !.who = <<Link(1, 5, <<Writes>>, {Nth(1, OpenIt), Nth(2, Part("chunk")), Nth(3, Part("chunk"))}, 3),
                                  Link(2, 5, <<Writes>>, {OpenIt}, 1)>>,
                        !.naks = 1]
\* A session ends with a request out and the next takes its slot.
Reuse == [Base EXCEPT !.who = <<Net(1, <<Reads>>, {Look}, 1), Net(2, <<Reads>>, {Look, Other}, 1)>>, !.drops = 1]
Relink == [Base EXCEPT !.who = <<[Link(1, 5, <<Reads>>, {Look, LookDeep}, 2) EXCEPT !.leaves = TRUE],
                                 [Link(1, 6, <<Line(Chain(Bodies, {"write"}, 9))>>,
                                       {Req("put_body", <<>>), Req("delete_body", <<>>)}, 1) EXCEPT !.after = 1]>>]
Shared == [Base EXCEPT !.who = <<Net(1, <<Reads>>, {Look}, 1), Net(2, <<Reads>>, {Look}, 1)>>,
                       !.shared = TRUE, !.refusals = 1]
Dropped == [Shared EXCEPT !.refusals = 0, !.drops = 1]
\* Grants that run out, of two depths, by a clock that is off by up to a tick.
Timed == [Base EXCEPT !.who = <<Net(1, <<Line(Chain(<<"r">>, {"write"}, 2)), Line(Chain(<<"r", "d">>, {"read", "write"}, 3))>>,
                                    {LookDeep, Lease(<<"r", "d", "f">>, 1), Withdrawn}, 2),
                                Link(1, 5, <<Comment, Bad>>, {}, 0)>>,
                      !.ticks = 3, !.uncertainty = 1, !.timeouts = TRUE]
\* A clock the platform does not always vouch for.
Unvouched == [Base EXCEPT !.who = <<Link(1, 5, <<Writes>>, {Look, Lease(<<"r", "f">>, 1)}, 2),
                                    Link(2, 5, <<Reads>>, {}, 0)>>,
                          !.ticks = 2, !.vouched = {0, 2}, !.steady = FALSE]
\* No certificate; files of chains, too long and of the most that may be.
FromFile(who) == [who EXCEPT !.handed = FALSE]
Odd == [Base EXCEPT !.who = <<FromFile([Net(0, <<Reads, Comment, Reads>>, {Look}, 1) EXCEPT !.id = NoId]),
                              FromFile(Link(1, 5, <<Comment, Reads, Comment, Reads>>, {}, 0))>>]
\* A byte that names no request.
Unframed == [Base EXCEPT !.who = <<Net(1, <<Reads>>, {Frame("unknown", 0), Frame("malformed", 0)}, 1),
                                   Link(1, 5, <<Reads, Comment, Reads>>, {Frame("unknown", 0), Frame("malformed", 0)}, 1)>>]
MCConfigs == {Streams, Refused, Reuse, Relink, Shared, Dropped, Timed, Unvouched, Odd, Unframed}
MCDropped == {Dropped}
MCStreams == {Refused}
=============================================================================
