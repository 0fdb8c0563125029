------------------------------ MODULE Presence ------------------------------
(***************************************************************************)
(* Live presence on one diagram: a browser tab mints a single-use ticket,  *)
(* opens a WebSocket with it and reconnects when it breaks (PresenceClient *)
(* and its store); the gateway holds one connection per accepted upgrade   *)
(* and subscribes it, once its user's name is known, to the broadcaster,   *)
(* whose process shares one Redis subscription with all its connections;   *)
(* other participants publish through other processes.  A line may break   *)
(* on either side first.  Each direction of a socket and the bus hold one  *)
(* frame at a time (bound); time is what the sweeps count.                 *)
(***************************************************************************)
EXTENDS Naturals, Sequences

CONSTANTS
    Tabs,            \* editors open on this process, each named by its user
    Peers,           \* users connected through other processes
    Conns,           \* bound: connections alive at once
    StaleSweeps,     \* STALE_REMOTE_AFTER_MS / SWEEP_INTERVAL_MS
    MaxBreaks        \* bound: broken lines, failed mints and upgrades

ASSUME PresenceAssumption == StaleSweeps \in Nat /\ MaxBreaks \in Nat

VARIABLES
    tab,        \* [Tabs -> the PresenceClient and its store]
    conn,       \* [Conns -> the gateway's side of a socket, from its ticket on]
    held,       \* subscribedChannels has the diagram's channel
    commands,   \* SUBSCRIBE and UNSUBSCRIBE sent to Redis, not yet applied
    listening,  \* Redis pushes the channel to this process
    bus,        \* events pushed, not yet relayed
    present,    \* the peers still there
    breaks

presenceVars == <<tab, conn, held, commands, listening, bus, present, breaks>>

Off == "off"

ASSUME OffAssumption == Off \notin Conns /\ Off \notin Tabs

NewTab == [phase |-> "connecting", pc |-> "new", conn |-> Off, disposed |-> FALSE,
           reconnect |-> FALSE, sweep |-> FALSE, throttle |-> FALSE, status |-> "active",
           age |-> [u \in {} |-> 0]]
FreeConn == [st |-> "free", tab |-> Off, ready |-> FALSE, sub |-> FALSE, code |-> 0, inbox |-> Off, out |-> <<>>]

\* the user ids with a remote cursor
Remotes(c) == DOMAIN tab[c].age

PresenceInit ==
    /\ tab = [c \in Tabs |-> NewTab]
    /\ conn = [k \in Conns |-> FreeConn]
    /\ held = FALSE /\ commands = <<>> /\ listening = FALSE /\ bus = <<>>
    /\ present = Peers
    /\ breaks = 0

-----------------------------------------------------------------------------
(* PresenceClient.                                                         *)

\* mutant: the sweep timer outlives the connection
StopTimersButSweep(t) == [t EXCEPT !.reconnect = FALSE, !.throttle = FALSE]

StopTimers(t) == [t EXCEPT !.reconnect = FALSE, !.sweep = FALSE, !.throttle = FALSE]

ClearRemotes(t) == [t EXCEPT !.age = [u \in {} |-> 0]]

\* markDisconnected, with the reconnection it schedules unless the code says not to
MarkDisconnected(t, code) ==
    IF t.disposed THEN t
    ELSE [ClearRemotes(StopTimers(t)) EXCEPT !.phase = "disconnected",
             !.pc = IF code \in {4403, 4413} THEN "refused" ELSE "waiting",
             !.reconnect = code \notin {4403, 4413}]

Connect(c) ==
    /\ tab[c].pc = "new" /\ ~tab[c].disposed
    /\ tab' = [tab EXCEPT ![c].phase = "connecting", ![c].pc = "minting"]
    /\ UNCHANGED <<conn, held, commands, listening, bus, present, breaks>>

\* close(): the socket is closed and every later continuation finds `disposed`
Dispose(c) ==
    /\ ~tab[c].disposed
    /\ tab' = [tab EXCEPT ![c] = [ClearRemotes(StopTimers(tab[c])) EXCEPT
                                    !.disposed = TRUE, !.phase = "disconnected", !.conn = Off]]
    /\ UNCHANGED <<conn, held, commands, listening, bus, present, breaks>>

\* the ticket's answer; a client disposed meanwhile goes no further
Minted(c, k) ==
    /\ tab[c].pc = "minting" /\ conn[k].st = "free"
    /\ conn' = [conn EXCEPT ![k] = [FreeConn EXCEPT !.st = "ticketed", !.tab = c]]
    /\ tab' = IF tab[c].disposed THEN [tab EXCEPT ![c].pc = "stopped"]
              ELSE [tab EXCEPT ![c].pc = "dialing", ![c].conn = k]
    /\ UNCHANGED <<held, commands, listening, bus, present, breaks>>

\* no answer, or a refusal: the route knows no membership for this diagram
MintFails(c) ==
    /\ tab[c].pc = "minting"
    /\ breaks < MaxBreaks /\ breaks' = breaks + 1
    /\ tab' = [tab EXCEPT ![c] = MarkDisconnected([@ EXCEPT !.pc = "stopped"], 0)]
    /\ UNCHANGED <<conn, held, commands, listening, bus, present>>

ReconnectFires(c) ==
    /\ tab[c].reconnect
    /\ tab' = [tab EXCEPT ![c].reconnect = FALSE, ![c].phase = "connecting", ![c].pc = "minting"]
    /\ UNCHANGED <<conn, held, commands, listening, bus, present, breaks>>

\* onopen: the sweep starts; a reconnection also asks the sync client to catch up
OnOpen(c, k) ==
    /\ conn[k].st = "up" /\ conn[k].tab = c /\ tab[c].pc = "dialing" /\ tab[c].conn = k
    /\ tab' = [tab EXCEPT ![c].phase = "connected", ![c].pc = "open", ![c].status = "active", ![c].sweep = TRUE]
    /\ UNCHANGED <<conn, held, commands, listening, bus, present, breaks>>

\* onclose, after the server's close or a line found broken here first
OnClose(c) ==
    /\ tab[c].conn # Off
    /\ LET k == tab[c].conn
           closed == conn[k].st = "closed"
       IN /\ closed \/ breaks < MaxBreaks
          /\ breaks' = IF closed THEN breaks ELSE breaks + 1
          /\ tab' = [tab EXCEPT ![c] = MarkDisconnected([@ EXCEPT !.conn = Off], IF closed THEN conn[k].code ELSE 1006)]
    /\ UNCHANGED <<conn, held, commands, listening, bus, present>>

\* publish(): only on an open socket.  The frame may then be lost with the line.
Publish(c, status) ==
    LET k == tab[c].conn IN
    conn' = IF tab[c].pc # "open" \/ k = Off \/ conn[k].st # "up" THEN conn
            ELSE [conn EXCEPT ![k].inbox = status]

LineFree(c) == \A k \in Conns : tab[c].conn = k => conn[k].inbox = Off

SendCursor(c) ==
    /\ ~tab[c].disposed /\ ~tab[c].throttle
    /\ tab' = [tab EXCEPT ![c].throttle = TRUE, ![c].status = "active"]
    /\ UNCHANGED <<conn, held, commands, listening, bus, present, breaks>>

ThrottleFires(c) ==
    /\ tab[c].throttle /\ LineFree(c)
    /\ tab' = [tab EXCEPT ![c].throttle = FALSE]
    /\ Publish(c, "active")
    /\ UNCHANGED <<held, commands, listening, bus, present, breaks>>

SendSelection(c) ==
    /\ ~tab[c].disposed /\ LineFree(c)
    /\ Publish(c, tab[c].status)
    /\ UNCHANGED <<tab, held, commands, listening, bus, present, breaks>>

\* mutant: the timer is not set again
SweepOnce(c) ==
    LET kept == {u \in Remotes(c) : tab[c].age[u] < StaleSweeps} IN
    /\ tab[c].sweep
    /\ tab' = [tab EXCEPT ![c].age = [u \in kept |-> @[u] + 1], ![c].sweep = FALSE]
    /\ UNCHANGED <<conn, held, commands, listening, bus, present, breaks>>

\* the sweep: idleness is announced once, remotes not heard from are pruned,
\* and the timer is set again
Sweep(c) ==
    LET kept == {u \in Remotes(c) : tab[c].age[u] < StaleSweeps} IN
    /\ tab[c].sweep
    /\ \E idle \in BOOLEAN :
        /\ idle => tab[c].status = "active" /\ LineFree(c)
        /\ tab' = [tab EXCEPT ![c].age = [u \in kept |-> @[u] + 1],
                              ![c].status = IF idle THEN "idle" ELSE @]
        /\ IF idle THEN Publish(c, "idle") ELSE UNCHANGED conn
    /\ UNCHANGED <<held, commands, listening, bus, present, breaks>>

\* handleMessage: own echoes are dropped, idle takes the cursor away
Receive(c, k) ==
    LET e == Head(conn[k].out)
        age == tab[c].age
    IN
    /\ conn[k].out # <<>> /\ conn[k].tab = c
    /\ conn' = [conn EXCEPT ![k].out = <<>>]
    /\ tab' = IF tab[c].conn # k \/ tab[c].pc # "open" \/ e.sender = c THEN tab
              ELSE IF e.status = "idle"
              THEN [tab EXCEPT ![c].age = [u \in Remotes(c) \ {e.sender} |-> age[u]]]
              ELSE [tab EXCEPT ![c].age = [u \in Remotes(c) \cup {e.sender} |-> IF u = e.sender THEN 0 ELSE age[u]]]
    /\ UNCHANGED <<held, commands, listening, bus, present, breaks>>

-----------------------------------------------------------------------------
(* The gateway.                                                            *)

\* consumeWsTicket, then the upgrade and its hello
Upgrade(k) ==
    /\ conn[k].st = "ticketed" /\ tab[conn[k].tab].conn = k
    /\ conn' = [conn EXCEPT ![k].st = "up"]
    /\ UNCHANGED <<tab, held, commands, listening, bus, present, breaks>>

\* the ticket expired unused, or the handshake did not come through
TicketExpires(k) ==
    /\ conn[k].st = "ticketed"
    /\ IF tab[conn[k].tab].conn # k THEN UNCHANGED breaks ELSE breaks < MaxBreaks /\ breaks' = breaks + 1
    /\ conn' = [conn EXCEPT ![k].st = "closed", ![k].ready = TRUE, ![k].code = 1006]
    /\ UNCHANGED <<tab, held, commands, listening, bus, present>>

\* the broadcaster's unsubscribe function: the channel goes with its last listener
Unsubscribe(k) ==
    IF ~conn[k].sub THEN UNCHANGED <<held, commands>>
    ELSE IF (\A j \in Conns \ {k} : ~conn[j].sub) /\ held
    THEN held' = FALSE /\ commands' = Append(commands, "UNSUBSCRIBE")
    ELSE UNCHANGED <<held, commands>>

CloseConn(k, code) ==
    /\ conn' = [conn EXCEPT ![k].st = "closed", ![k].sub = FALSE, ![k].code = code, ![k].inbox = Off]
    /\ Unsubscribe(k)

\* the socket's close event: the tab closed it or left it, or the line broke
OnSocketClose(k) ==
    /\ conn[k].st = "up"
    /\ IF tab[conn[k].tab].conn # k THEN UNCHANGED breaks ELSE breaks < MaxBreaks /\ breaks' = breaks + 1
    /\ CloseConn(k, 1006)
    /\ UNCHANGED <<tab, listening, bus, present>>

\* the broadcaster's subscribe: the first listener asks Redis for the channel
Subscribe ==
    /\ held' = TRUE
    /\ commands' = IF held THEN commands ELSE Append(commands, "SUBSCRIBE")

\* mutant: subscribes without asking whether the socket is gone
IdentityReadyAlways(k) ==
    /\ conn[k].st \in {"up", "closed"} /\ ~conn[k].ready
    /\ conn' = [conn EXCEPT ![k].ready = TRUE, ![k].sub = TRUE]
    /\ Subscribe
    /\ UNCHANGED <<tab, listening, bus, present, breaks>>

\* resolveDisplayName settles: subscribe, unless the socket closed meanwhile
IdentityReady(k) ==
    /\ conn[k].st \in {"up", "closed"} /\ ~conn[k].ready
    /\ IF conn[k].st = "closed"
       THEN conn' = [conn EXCEPT ![k].ready = TRUE] /\ UNCHANGED <<held, commands>>
       ELSE conn' = [conn EXCEPT ![k].ready = TRUE, ![k].sub = TRUE] /\ Subscribe
    /\ UNCHANGED <<tab, listening, bus, present, breaks>>

\* handleMessage, `presence`: published once the identity is known, under the
\* ticket's user whatever the frame says
HandlePresence(k) ==
    /\ conn[k].st = "up" /\ conn[k].ready /\ conn[k].inbox \in {"active", "idle"}
    /\ Len(bus) = 0
    /\ bus' = IF listening THEN <<[sender |-> conn[k].tab, status |-> conn[k].inbox]>> ELSE bus
    /\ conn' = [conn EXCEPT ![k].inbox = Off]
    /\ UNCHANGED <<tab, held, commands, listening, present, breaks>>

\* frames another program of the user's may send: an oversized one closes the
\* socket, and so does a sync_request of a user whose role is gone; `ping`
\* and malformed ones leave it alone
HandleOther(k, kind) ==
    /\ conn[k].st = "up"
    /\ breaks < MaxBreaks /\ breaks' = breaks + 1
    /\ CloseConn(k, IF kind = "too_large" THEN 4413 ELSE 4403)
    /\ UNCHANGED <<tab, listening, bus, present>>

\* `mutation`: admitted by the role read for this message, appended as OpLog
\* has it and acknowledged, then broadcast; a refusal changes nothing
HandleMutation(k) ==
    /\ conn[k].st = "up" /\ listening /\ bus = <<>>
    /\ bus' = <<[sender |-> conn[k].tab, status |-> "mutation"]>>
    /\ UNCHANGED <<tab, conn, held, commands, listening, present, breaks>>

\* Redis applies this process's commands in order
Redis ==
    /\ commands # <<>>
    /\ listening' = (Head(commands) = "SUBSCRIBE")
    /\ commands' = Tail(commands)
    /\ UNCHANGED <<tab, conn, held, bus, present, breaks>>

\* handlePresenceEvent of every subscribed connection: presence only, not to
\* its own user, and only while the socket is open
Relay ==
    /\ bus # <<>>
    /\ LET e == Head(bus)
           To(k) == conn[k].sub /\ conn[k].st = "up" /\ conn[k].tab # e.sender /\ e.status # "mutation"
       IN /\ \A k \in Conns : To(k) => conn[k].out = <<>>
          /\ conn' = [k \in Conns |-> IF To(k) THEN [conn[k] EXCEPT !.out = <<e>>] ELSE conn[k]]
    /\ bus' = <<>>
    /\ UNCHANGED <<tab, held, commands, listening, present, breaks>>

\* a connection both sides are done with gives its identity back
Forget(k) ==
    /\ conn[k].st = "closed" /\ conn[k].ready
    /\ \A c \in Tabs : tab[c].conn # k
    /\ conn' = [conn EXCEPT ![k] = FreeConn]
    /\ UNCHANGED <<tab, held, commands, listening, bus, present, breaks>>

\* a peer, or another tab of one of these users, publishes from elsewhere
PeerPublishes(u, status) ==
    /\ u \in Tabs \cup present
    /\ listening /\ bus = <<>>
    /\ bus' = <<[sender |-> u, status |-> status]>>
    /\ UNCHANGED <<tab, conn, held, commands, listening, present, breaks>>

\* a tab closed or crashed says nothing
PeerLeaves(u) ==
    /\ u \in present
    /\ present' = present \ {u}
    /\ UNCHANGED <<tab, conn, held, commands, listening, bus, breaks>>

TabStep(c) ==
    \/ Connect(c) \/ MintFails(c) \/ ReconnectFires(c) \/ ThrottleFires(c) \/ Sweep(c)
    \/ tab[c].conn # Off /\ conn[tab[c].conn].st = "closed" /\ OnClose(c)
    \/ \E k \in Conns : Minted(c, k) \/ OnOpen(c, k) \/ Receive(c, k)

ConnStep(k) ==
    \/ IdentityReady(k) \/ HandlePresence(k) \/ Forget(k) \/ Upgrade(k)
    \/ conn[k].tab # Off /\ tab[conn[k].tab].conn # k /\ (TicketExpires(k) \/ OnSocketClose(k))

PresenceNext ==
    \/ \E c \in Tabs : TabStep(c) \/ Dispose(c) \/ OnClose(c) \/ SendCursor(c) \/ SendSelection(c)
    \/ \E k \in Conns : \/ ConnStep(k) \/ HandleMutation(k) \/ TicketExpires(k) \/ OnSocketClose(k)
                        \/ \E kind \in {"too_large", "sync_request"} : HandleOther(k, kind)
    \/ Redis \/ Relay
    \/ \E u \in Tabs \cup Peers, status \in {"active", "idle"} : PeerPublishes(u, status)
    \/ \E u \in Peers : PeerLeaves(u)

Connects(c) == \/ Connect(c) \/ MintFails(c) \/ ReconnectFires(c)
               \/ \E k \in Conns : Minted(c, k) \/ OnOpen(c, k)
HearsClose(c) == tab[c].conn # Off /\ conn[tab[c].conn].st = "closed" /\ OnClose(c)
Receives(c) == \E k \in Conns : Receive(c, k)

\* timers fire, the browser and Node deliver what is pending, and a peer's
\* close is noticed; pointer moves, disposal and broken lines are not promised
PresenceFairness ==
    /\ \A c \in Tabs : /\ WF_presenceVars(Connects(c)) /\ WF_presenceVars(HearsClose(c))
                       /\ WF_presenceVars(Sweep(c)) /\ WF_presenceVars(Receives(c))
    /\ \A k \in Conns : WF_presenceVars(ConnStep(k))
    /\ WF_presenceVars(Redis) /\ WF_presenceVars(Relay)

PresenceSpec == PresenceInit /\ [][PresenceNext]_presenceVars /\ PresenceFairness

-----------------------------------------------------------------------------
(* Properties.                                                             *)

\* The subscriptions follow the connections exactly: a socket that closed
\* while its user's name was still being looked up leaves no listener behind,
\* and once Redis has applied the commands sent, the process receives the
\* channel if and only if somebody listens, however closes and opens interleave.
SubscriptionsExact ==
    /\ \A k \in Conns : conn[k].sub => conn[k].st = "up"
    /\ commands = <<>> => (listening <=> \E k \in Conns : conn[k].sub)

\* A client that is not connected shows nobody (LIVE-23) and runs no sweep;
\* after close() nothing is left or comes back, whatever answer, timer or
\* socket event was still pending (LIVE-08).
QuietUnlessConnected ==
    \A c \in Tabs :
        /\ tab[c].phase # "connected" => Remotes(c) = {} /\ ~tab[c].sweep
        /\ tab[c].disposed => /\ tab[c].phase = "disconnected" /\ tab[c].conn = Off
                              /\ ~tab[c].reconnect /\ ~tab[c].throttle
        /\ c \notin Remotes(c)

\* A participant who has left for good, tab closed or crashed without saying
\* idle, does not stay on the others' canvas (the sweep's reason to be).
GhostsVanish ==
    \A c \in Tabs, u \in Peers : u \notin present ~> [](u \notin Remotes(c))
=============================================================================
