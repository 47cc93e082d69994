----------------------------- MODULE EpollNode -----------------------------
(***************************************************************************)
(* One descriptor registered with an epoll instance by kevent filters: the *)
(* rest of src/src/epollfd_ctx.c beside EpollPoll.  The node knows what    *)
(* end-of-file conditions it has seen (eof_state), derives from them and   *)
(* from the events asked for which filters it needs, and registers them    *)
(* level triggered or with EV_CLEAR.  epoll_wait turns kevents into epoll  *)
(* events and registers again when the needed filters have changed.        *)
(*                                                                         *)
(* epoll_ctl and epoll_wait hold the instance's mutex, so one of them runs *)
(* at a time; the descriptor itself changes between any two of their       *)
(* system calls.  The build is one without EVFILT_EXCEPT.                  *)
(***************************************************************************)
EXTENDS Naturals, Sequences, SequencesExt

CONSTANTS NodeTypes,    \* the kinds of descriptor
          Requests      \* what epoll_ctl may ask for: events, et, oneshot

FifoTypes == {"FIFO_R", "FIFO_W", "FIFO_RW"}

ASSUME EpollNodeAssumption ==
    /\ NodeTypes \subseteq FifoTypes \cup {"SOCKET", "KQUEUE", "OTHER"}
    /\ Requests \subseteq [events : SUBSET {"IN", "OUT", "RDHUP", "PRI"},
                           et : BOOLEAN, oneshot : BOOLEAN]

VARIABLES obj,       \* the descriptor: data, space, rd_eof, wr_eof, oob, err
          node,      \* RegisteredFDsNode
          knote,     \* kernel: the mode of each filter, and what the kqueue holds
          pc,
          batch,     \* epoll_wait: the kevents still to feed
          single,    \* epoll_wait: there is room for one kevent only
          listed,    \* epoll_wait: the node is in ev
          unseen,    \* history: conditions that arose since they were reported
          fired,     \* history: a one-shot node has reported, and was not modified
          ahead      \* history: a completion has changed what filters are needed

vars == <<obj, node, knote, pc, batch, single, listed, unseen, fired, ahead>>
wait_vars == <<batch, single, listed>>

Filters == {"READ", "WRITE"}
FULL_EOF == {"READ_EOF", "WRITE_EOF"}

NoNode(t) == [type |-> t, is_registered |-> FALSE, events |-> {}, et |-> FALSE,
              oneshot |-> FALSE, eof |-> {}, pollpri_active |-> FALSE, has |-> {},
              got |-> {}, revents |-> {}]
NoKnotes == [mode |-> [f \in Filters |-> "none"], active |-> {}, user |-> "none"]

Init == /\ obj = [data |-> FALSE, space |-> TRUE, rd_eof |-> FALSE, wr_eof |-> FALSE,
                  oob |-> FALSE, err |-> FALSE]
        /\ node \in {NoNode(t) : t \in NodeTypes}
        /\ knote = NoKnotes
        /\ pc = "idle"
        /\ batch = <<>>
        /\ single = FALSE /\ listed = FALSE
        /\ unseen = {} /\ fired = FALSE /\ ahead = FALSE

-----------------------------------------------------------------------------
(* The descriptor, outside this code. *)

\* A filter has something to report.  Urgent data counts for those who ask for it.
Holds(o, n, f) ==
    IF f = "READ" THEN o.data \/ o.rd_eof \/ (o.oob /\ "PRI" \in n.events)
    ELSE n.type # "KQUEUE" /\ (o.space \/ o.wr_eof)

\* What poll would report.
Conditions(o) ==
    CASE node.type = "SOCKET" ->
           {e \in {"IN", "OUT", "RDHUP", "PRI", "HUP", "ERR"} :
               \/ e = "IN" /\ (o.data \/ o.rd_eof)
               \/ e = "OUT" /\ (o.space \/ o.wr_eof)
               \/ e = "RDHUP" /\ o.rd_eof
               \/ e = "PRI" /\ o.oob
               \/ e = "HUP" /\ o.rd_eof /\ o.wr_eof
               \/ e = "ERR" /\ o.err}
      [] node.type = "KQUEUE" -> {e \in {"IN"} : o.data}
      [] OTHER ->
           {e \in {"IN", "OUT", "HUP"} :
               \/ e = "IN" /\ node.type # "FIFO_W" /\ o.data
               \/ e = "OUT" /\ node.type # "FIFO_R" /\ o.space /\ ~o.wr_eof
               \/ e = "HUP" /\ o.rd_eof}

\* The end of a FIFO is reported as EPOLLERR when it comes with the write filter.
Told(revents) ==
    revents \cup {h \in {"HUP"} : node.type \in FifoTypes /\ "ERR" \in revents}

\* The descriptor changes to o, which wakes the filters in fs.
Change(o, fs) ==
    /\ obj' = o
    /\ knote' = [knote EXCEPT !.active = @ \cup
                    {f \in fs : knote.mode[f] = "clear" /\ Holds(o, node, f)}]
    /\ unseen' = unseen \cup
          {e \in Conditions(o) : \/ "READ" \in fs /\ e \in {"IN", "RDHUP", "PRI", "HUP", "ERR"}
                                 \/ "WRITE" \in fs /\ e \in {"OUT", "HUP", "ERR"}}
    /\ UNCHANGED <<node, pc, wait_vars, fired, ahead>>

DataArrives == ~obj.rd_eof /\ node.type # "FIFO_W" /\ Change([obj EXCEPT !.data = TRUE], {"READ"})
Drained     == obj.data /\ Change([obj EXCEPT !.data = FALSE], {})
SpaceFrees  == /\ ~obj.wr_eof /\ ~obj.space /\ node.type \notin {"FIFO_R", "KQUEUE"}
               /\ Change([obj EXCEPT !.space = TRUE], {"WRITE"})
FilledUp    == obj.space /\ ~obj.wr_eof /\ Change([obj EXCEPT !.space = FALSE], {})
UrgentData  == node.type = "SOCKET" /\ ~obj.rd_eof /\ Change([obj EXCEPT !.oob = TRUE], {"READ"})
UrgentRead  == obj.oob /\ Change([obj EXCEPT !.oob = FALSE], {})

\* One direction of a socket is shut down by either side ...
ReadShut  == /\ node.type = "SOCKET" /\ ~obj.rd_eof
             /\ Change([obj EXCEPT !.rd_eof = TRUE], {"READ"})
WriteShut == /\ node.type = "SOCKET" /\ ~obj.wr_eof
             /\ Change([obj EXCEPT !.wr_eof = TRUE], {"WRITE"})

\* ... or the other end goes, of a connection that was reset perhaps.
PeerCloses ==
    /\ node.type # "KQUEUE" /\ ~(obj.rd_eof /\ obj.wr_eof)
    /\ \E reset \in BOOLEAN :
         /\ reset => node.type = "SOCKET"
         /\ Change([obj EXCEPT !.rd_eof = TRUE, !.wr_eof = TRUE, !.err = reset], Filters)

\* A named FIFO can be opened again, not the pipe that is open at both ends.
PeerReopens ==
    /\ node.type \in {"FIFO_R", "FIFO_W"} /\ obj.rd_eof
    /\ Change([obj EXCEPT !.rd_eof = FALSE, !.wr_eof = FALSE], {})

Environment == \/ DataArrives \/ Drained \/ SpaceFrees \/ FilledUp \/ UrgentData \/ UrgentRead
               \/ ReadShut \/ WriteShut \/ PeerCloses \/ PeerReopens

-----------------------------------------------------------------------------
(* get_needed_filters *)

Level(b) == IF b THEN "level" ELSE "no"

OrElse(m, other) == IF m = "no" THEN other ELSE m

\* A filter that only looks out for end-of-file, and repeats it once it is there.
EofFilter(b) == IF b THEN "level" ELSE "clear"

\* Mutant: nothing looks out for a hangup when no event is asked for.
SocketFiltersNone(n) ==
    [READ |-> OrElse(Level("IN" \in n.events),
                     IF "RDHUP" \in n.events THEN EofFilter("READ_EOF" \in n.eof) ELSE "no"),
     WRITE |-> Level("OUT" \in n.events)]

SocketFilters(n) ==
    LET r == OrElse(OrElse(Level("IN" \in n.events),
                           IF "RDHUP" \in n.events THEN EofFilter("READ_EOF" \in n.eof) ELSE "no"),
                    IF "PRI" \in n.events THEN EofFilter(n.pollpri_active) ELSE "no")
        w == Level("OUT" \in n.events)
        driven == IF r # "level" /\ w # "level" THEN "level" ELSE r
    IN  CASE n.eof = FULL_EOF ->
               [READ |-> driven, WRITE |-> IF driven # "no" THEN "no" ELSE w]
          [] n.eof = {} ->
               [READ |-> IF r = "no" /\ w = "no" THEN "clear" ELSE r, WRITE |-> w]
          [] n.eof = {"READ_EOF"} -> [READ |-> r, WRITE |-> OrElse(w, "clear")]
          [] n.eof = {"WRITE_EOF"} -> [READ |-> OrElse(r, "clear"), WRITE |-> w]

NeededByType(n) ==
    LET r == Level("IN" \in n.events)
        w == Level("OUT" \in n.events)
        eof == EofFilter(n.eof # {})
    IN  CASE n.type = "SOCKET" -> SocketFilters(n)
          [] n.type = "FIFO_R" -> [READ |-> OrElse(r, eof), WRITE |-> "no"]
          [] n.type = "FIFO_W" -> [READ |-> "no", WRITE |-> OrElse(w, eof)]
          [] n.type = "KQUEUE" -> [READ |-> OrElse(r, "clear"), WRITE |-> "no"]
          [] OTHER -> [READ |-> IF n.events = {} THEN eof ELSE r, WRITE |-> w]

get_needed_filters(n) ==
    [f \in Filters |-> IF n.et /\ NeededByType(n)[f] # "no" THEN "clear" ELSE NeededByType(n)[f]]

-----------------------------------------------------------------------------
(* Registration.  x is a node and the knotes it has: [n, k]. *)

remove_node_from_kq(x) == [n |-> [x.n EXCEPT !.has = {}], k |-> NoKnotes]

\* EV_ADD of the filters in fs; one whose condition holds is active at once.
Added(k, n, modes, fs) ==
    [k EXCEPT !.mode = [f \in Filters |-> IF f \in fs THEN modes[f] ELSE @[f]],
              !.active = @ \cup {f \in fs : modes[f] = "clear" /\ Holds(obj, n, f)}]

\* EPIPE: the other end of a FIFO is gone.
Refused(n, f) == f = "WRITE" /\ n.type \in FifoTypes /\ obj.wr_eof

\* register_events.  The write end of a FIFO without readers refuses the filter
\* with EPIPE: the node triggers itself instead, to try again.
register_events(x) ==
    LET m == [x.n EXCEPT !.events = IF x.n.type = "SOCKET" THEN @ ELSE @ \cap {"IN", "OUT"}]
        needed == get_needed_filters(m)
        wanted == {f \in Filters : needed[f] # "no"}
        broken == \E f \in wanted : Refused(m, f)
        has == {f \in wanted : ~Refused(m, f)}
    IN  [n |-> [m EXCEPT !.has = has, !.eof = IF broken THEN FULL_EOF ELSE @],
         k |-> [Added(NoKnotes, m, needed, has)
                  EXCEPT !.user = IF broken /\ has = {} THEN "triggered" ELSE "none"]]

Becomes(x) == node' = x.n /\ knote' = x.k

with_request(n, r) ==
    [n EXCEPT !.events = r.events, !.et = r.et \/ r.oneshot, !.oneshot = r.oneshot]

\* EPOLL_CTL_ADD and EPOLL_CTL_MOD; a node that is modified keeps its eof_state.
Ctl(r) ==
    /\ pc = "idle"
    /\ Becomes(register_events([n |-> [with_request(node, r) EXCEPT !.is_registered = TRUE],
                                k |-> knote]))
    /\ unseen' = Conditions(obj)
    /\ fired' = FALSE /\ ahead' = FALSE
    /\ UNCHANGED <<obj, pc, batch, single, listed>>

CtlDel ==
    /\ pc = "idle" /\ node.is_registered
    /\ node' = NoNode(node.type)
    /\ knote' = remove_node_from_kq([n |-> node, k |-> knote]).k
    /\ fired' = FALSE /\ ahead' = FALSE
    /\ UNCHANGED <<obj, pc, batch, single, listed, unseen>>

-----------------------------------------------------------------------------
(* registered_fds_node_feed_event.  kev is what kevent returned: the filter, *)
(* EV_EOF, whether there was data or space, and an error.                    *)

Reportable(n) == n.events \cup {"HUP", "ERR"}

\* The trigger of a FIFO without readers: the filter is tried again.
FeedUser(x) ==
    LET needed == get_needed_filters(x.n)
    IN  IF Refused(x.n, "WRITE")
        THEN [n |-> [x.n EXCEPT !.revents = @ \cup ({"ERR", "OUT"} \cap Reportable(x.n))],
              k |-> [x.k EXCEPT !.user = IF x.n.et THEN "idle" ELSE "triggered"]]
        ELSE [n |-> [x.n EXCEPT !.has = {"WRITE"}],
              k |-> Added(x.k, x.n, needed, {"WRITE"})]

NewEof(n, kev) ==
    LET mine == IF kev.filter = "READ" THEN {"READ_EOF"} ELSE {"WRITE_EOF"}
    IN  CASE n.type = "SOCKET" /\ kev.eof -> n.eof \cup mine
          [] n.type = "SOCKET" /\ ~kev.eof -> n.eof \ mine
          [] OTHER -> IF kev.eof THEN FULL_EOF ELSE {}

\* What a node at end-of-file reports.
EofEvents(n, kev) ==
    CASE n.eof = {} -> {}
      [] n.eof # {} /\ n.type \in FifoTypes -> IF kev.filter = "READ" THEN {"HUP"} ELSE {"ERR"}
      [] n.eof # {} /\ n.type = "SOCKET" ->
           (IF "READ_EOF" \in n.eof THEN {"IN", "RDHUP"} ELSE {})
           \cup (IF "WRITE_EOF" \in n.eof THEN {"OUT"} ELSE {})
           \cup (IF n.eof = FULL_EOF THEN {"HUP"} ELSE {})
      [] OTHER -> {"HUP"}

\* Mutant: pollpri_active is set, and never reset.
PolledPriSticky(n, kev) ==
    n.pollpri_active \/ (kev.filter = "READ" /\ "PRI" \in n.events /\ obj.oob)

\* With the READ filter comes a poll for urgent data.
PolledPri(n, kev) ==
    IF kev.filter = "READ" /\ "PRI" \in n.events THEN obj.oob ELSE n.pollpri_active

FeedFilter(x, kev) ==
    LET pri == "PRI" \in x.n.events /\ obj.oob
        m == [x.n EXCEPT !.eof = NewEof(x.n, kev), !.pollpri_active = PolledPri(x.n, kev)]
        hollow == m.type \in FifoTypes /\ m.eof # {} /\ ~kev.data
        own == IF kev.filter = "READ" THEN {"IN"} \cup (IF pri THEN {"PRI"} ELSE {}) ELSE {"OUT"}
        revents == (IF hollow THEN {} ELSE own) \cup EofEvents(m, kev)
                   \cup (IF kev.eof /\ kev.err THEN {"ERR"} ELSE {})
        all == (x.n.revents \cup revents) \cap Reportable(m)
        \* both ends: the end-of-file comes with the READ filter
        ignored == m.type = "FIFO_RW" /\ m.eof # {} /\ kev.filter = "WRITE" /\ "READ" \in m.has
    IN  [k |-> x.k,
         n |-> IF ignored
               THEN [m EXCEPT !.revents = IF @ = {} THEN {} ELSE @ \cup {"HUP"}]
               ELSE [m EXCEPT !.revents = IF m.type = "KQUEUE"
                                          THEN Conditions(obj) \cap Reportable(m) ELSE all,
                              !.got = IF all = {} THEN @ ELSE @ \cup {kev.filter}]]

feed_event(x, kev) == IF kev.filter = "USER" THEN FeedUser(x) ELSE FeedFilter(x, kev)

\* The asserts of get_needed_filters and feed_event.
Asserts(x, kev) ==
    /\ \E f \in Filters : get_needed_filters(x.n)[f] # "no"
    /\ x.n.type = "KQUEUE" => x.n.eof = {}
    /\ kev.filter = "USER" => /\ x.n.type \in FifoTypes /\ x.n.revents = {} /\ x.n.has = {}
                              /\ get_needed_filters(x.n)["WRITE"] # "no"

-----------------------------------------------------------------------------
(* epollfd_ctx_wait *)

\* What the kqueue would return.
Ready(x) == {f \in Filters : /\ Holds(obj, x.n, f)
                             /\ x.k.mode[f] = "level" \/ f \in x.k.active}
            \cup {u \in {"USER"} : x.k.user = "triggered"}

\* An event with EV_CLEAR is gone from the kqueue once it is returned.
Returned(x, fs) == [x EXCEPT !.k.active = @ \ fs,
                             !.k.user = IF "USER" \in fs THEN "idle" ELSE @]

Kev(f) == [filter |-> f, err |-> obj.err,
           eof |-> IF f = "READ" THEN obj.rd_eof ELSE obj.wr_eof,
           data |-> IF f = "READ" THEN obj.data ELSE obj.space]

\* The node after feed_event needs other filters than before, and is to be registered
\* again; not an edge triggered one that has reached its end, FIFOs apart.
NeedsOthers(x, fed) ==
    /\ ~(fed.n.et /\ fed.n.eof = FULL_EOF /\ fed.n.type \notin FifoTypes)
    /\ get_needed_filters(fed.n) # get_needed_filters(x.n)

\* Mutant: the filters stay as they were registered first.
FedOnly(x, kev) == feed_event(x, kev)

Fed(x, kev) == LET fed == feed_event(x, kev)
               IN  IF NeedsOthers(x, fed) THEN register_events(fed) ELSE fed

\* registered_fds_node_complete: the node's other filter is asked in a kqueue of its
\* own, which may refuse it; an event that is returned there stays in the first one.
Completed(n, one) ==
    LET rest == {f \in n.has \ n.got : (one \/ n.et) /\ Holds(obj, n, f) /\ ~Refused(n, f)}
    IN  IF rest = {} THEN n
        ELSE feed_event([n |-> n, k |-> NoKnotes], Kev(CHOOSE f \in rest : TRUE)).n

\* The node has been reported; a one-shot node loses its filters.
Cleared(x) == LET c == [x EXCEPT !.n.revents = {}, !.n.got = {}]
              IN  IF x.n.oneshot THEN remove_node_from_kq(c) ELSE c

Self == [n |-> node, k |-> knote]
Orders == UNION {SetToSeqs(fs) : fs \in SUBSET (Filters \cup {"USER"})}

\* kevent, with room for one event or for all.
Fetch(one) ==
    /\ \/ pc = "idle" /\ node.is_registered
       \/ pc = "again" /\ one = single
    /\ listed' = FALSE
    /\ IF Ready(Self) = {} THEN pc' = "idle" /\ single' = FALSE /\ UNCHANGED <<batch, node, knote>>
       ELSE \E fs \in {q \in Orders : Range(q) = Ready(Self)} :
              LET taken == IF one THEN SubSeq(fs, 1, 1) ELSE fs
              IN  /\ batch' = [i \in DOMAIN taken |-> Kev(taken[i])]
                  /\ Becomes(Returned(Self, Range(taken)))
                  /\ pc' = "feed" /\ single' = one
    /\ UNCHANGED <<obj, unseen, fired, ahead>>

\* One kevent is fed to the node.
Feed == /\ pc = "feed"
        /\ Becomes(Fed(Self, Head(batch)))
        /\ listed' = (listed \/ node'.revents # {})
        /\ batch' = Tail(batch)
        /\ pc' = CASE ~Asserts(Self, Head(batch)) -> "abort"
                   [] Len(batch) = 1 -> "finish"
                   [] OTHER -> "feed"
        /\ ahead' = (ahead /\ ~NeedsOthers(Self, feed_event(Self, Head(batch))))
        /\ UNCHANGED <<obj, single, unseen, fired>>

\* The node is completed and reported.
Finish ==
    LET done == Completed(node, single)
    IN  /\ pc = "finish" /\ listed
        /\ Becomes(Cleared([n |-> done, k |-> knote]))
        /\ unseen' = unseen \ Told(done.revents)
        /\ fired' = node.oneshot
        /\ ahead' = (ahead \/ get_needed_filters(done) # get_needed_filters(node))
        /\ pc' = "idle" /\ single' = FALSE /\ listed' = FALSE
        /\ UNCHANGED <<obj, batch>>

\* Nothing came of the kevents: the next ones are fetched.
Again == /\ pc = "finish" /\ ~listed
         /\ pc' = "again"
         /\ UNCHANGED <<obj, node, knote, wait_vars, unseen, fired, ahead>>

-----------------------------------------------------------------------------
Next == \/ Environment
        \/ \E r \in Requests : Ctl(r)
        \/ CtlDel
        \/ \E one \in BOOLEAN : Fetch(one)
        \/ Feed \/ Finish \/ Again

Spec == Init /\ [][Next]_vars

-----------------------------------------------------------------------------
(* Properties *)

\* The asserts of get_needed_filters and of feed_event hold, whatever kevents the
\* node gets in whatever order: some filter is always needed, and the trigger of a
\* broken FIFO comes alone.
NodeAssertions ==
    /\ pc # "abort"
    /\ node.is_registered => \E f \in Filters : get_needed_filters(node)[f] # "no"

\* The filters that the node believes to have are those in the kqueue, and those are
\* the ones get_needed_filters asks for now, so that eof_state and pollpri_active are
\* never ahead of the filters registered for them.  A one-shot node that has reported
\* has none, and is silent until it is modified.  Three kinds of node are excused from
\* the second half: one that a completion, which does not register again, has put
\* ahead; an edge triggered one at its end, which epoll_wait leaves as it is lest a new
\* registration repeat the edge; and a FIFO at its end, whose write filter has been
\* refused and replaced by the trigger.
FiltersCurrent ==
    pc = "idle" /\ node.is_registered =>
        /\ node.has = {f \in Filters : knote.mode[f] # "none"}
        /\ \/ fired /\ node.has = {} /\ Ready(Self) = {}
           \/ ~fired /\ \A f \in Filters : get_needed_filters(node)[f] =
                            IF knote.mode[f] = "none" THEN "no" ELSE knote.mode[f]
           \/ ahead /\ ~fired
           \/ node.et /\ node.eof = FULL_EOF /\ ~fired
           \/ node.type \in FifoTypes /\ node.eof = FULL_EOF /\ ~fired

\* What the caller has a right to: level triggered, what holds now; edge triggered,
\* what has come to hold since it was reported.  An edge triggered write end of a FIFO
\* that had no reader when it was registered is left without a filter.
Due == IF ~node.is_registered \/ fired \/ (node.et /\ node.has = {}) THEN {}
       ELSE Conditions(obj) \cap Reportable(node) \cap (IF node.et THEN unseen ELSE Conditions(obj))

\* Calls of epoll_wait with room for all, on a descriptor that stays as it is: Round is
\* one pass of the inner loop, and Waited is one call, with ended when four passes are
\* enough for it: one of them has something to report, or the kqueue is empty.
Round(x) == LET fs == Ready(x)
            IN  IF x.n.revents # {} \/ fs = {} THEN x
                ELSE FoldLeft(LAMBDA y, f : IF f \in fs THEN Fed(y, Kev(f)) ELSE y,
                              Returned(x, fs), <<"READ", "WRITE", "USER">>)
Waited(x) == LET after[k \in 0 .. 4] == IF k = 0 THEN x ELSE Round(after[k - 1])
                 y == after[4]
                 done == Completed(y.n, FALSE)
             IN  IF y.n.revents = {} THEN [x |-> y, revents |-> {}, ended |-> Ready(y) = {}]
                 ELSE [x |-> Cleared([n |-> done, k |-> y.k]), revents |-> done.revents, ended |-> TRUE]

\* The requests for EPOLLPRI without EPOLLIN whose level the filters do not keep:
\* EPOLLRDHUP or EPOLLOUT takes the read filter's place.
PriHidden == /\ ~node.et /\ "PRI" \in node.events /\ "IN" \notin node.events
             /\ "RDHUP" \in node.events \/ ("OUT" \in node.events /\ node.eof = FULL_EOF)

\* A completion has found no urgent data any more, and left the read filter level
\* triggered: ordinary data makes it return for ever what nobody asked for.
PriSpins == ahead /\ ~node.pollpri_active /\ "PRI" \in node.events /\ "IN" \notin node.events

\* The event of a one-shot node; of another one, what the first call leaves out is
\* told by the second.
AllReported(first) ==
    LET missing == Due \ Told(first.revents)
    IN  \/ missing = {}
        \/ node.oneshot /\ first.revents # {}
        \/ ~node.oneshot /\ missing \subseteq Told(Waited(first.x).revents)

\* Urgent data makes the read filter report, and EPOLLIN with it.
Truthful(first) ==
    node.type = "SOCKET" => first.revents \subseteq Conditions(obj) \cup {e \in {"IN"} : obj.oob}

\* The inner loop of epoll_wait ends: a kevent that comes to nothing, because the end of
\* the descriptor or its urgent data is not there any more, is not returned for ever.
\* Every event that is due is reported by that epoll_wait or, when it discovers an
\* end-of-file and another filter has to look for the rest, by the one after it: no
\* state of the filters hides a condition of the descriptor.  A one-shot node reports
\* something.  The exceptions are PriSpins, and for the reports PriHidden and a node
\* whose needed filters a completion has changed.  And a socket reports nothing else: no
\* hangup of one that is open in a direction, no eof_state of before.
NextWaitsReport ==
    pc = "idle" => LET first == Waited(Self)
                   IN  /\ ~PriSpins => first.ended
                       /\ Truthful(first)
                       /\ ~PriHidden /\ ~ahead => AllReported(first)
=============================================================================
