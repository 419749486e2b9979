------------------------------ MODULE Realtime ------------------------------
(***************************************************************************)
(* Notifications: the dispatcher stores one, publishes it to Kafka and to  *)
(* the user's channel in Redis; the bridge of the API process hands what   *)
(* it hears to the user's web sockets, a snapshot of them at a time; the   *)
(* notification worker stores what it reads from Kafka.  One user.         *)
(***************************************************************************)
EXTENDS Integers, Sequences, SequencesExt

CONSTANTS Socket, Notice

ASSUME RealAssumption == "bridge" \notin Notice

VARIABLES sockets,   \* what each web socket is to its client
          rooms,     \* the sockets the hub has registered
          bridge,    \* is the bridge subscribed
          channel,   \* what it has been sent and not taken
          fanout,    \* the sends in progress: one by the bridge, one by each dispatcher
          notice,    \* where each notification stands
          stored,    \* how often each is stored
          got,       \* history: sockets that received it
          owed       \* history: sockets that should

realVars == <<sockets, rooms, bridge, channel, fanout, notice, stored, got, owed>>

Sender == {"bridge"} \union Notice
Quiet == [event |-> {}, todo |-> <<>>, dead |-> {}]
Sending(s) == fanout[s].event # {}
Open == {s \in rooms: sockets[s] = "open"}

NoticeGoes(n, pc) == notice' = [notice EXCEPT ![n] = pc]
Listeners == UNCHANGED <<sockets, rooms>>

(***************************************************************************)
(* ConnectionManager and the web socket's endpoint                         *)
(***************************************************************************)
ConnectSocket(s) ==
    /\ sockets[s] = "off"
    /\ sockets' = [sockets EXCEPT ![s] = "open"] /\ rooms' = rooms \union {s}
    /\ UNCHANGED <<bridge, channel, fanout, notice, stored, got, owed>>

(* the client is gone; what it was owed it need not get *)
SocketDies(s) ==
    /\ sockets[s] = "open"
    /\ sockets' = [sockets EXCEPT ![s] = "dead"]
    /\ owed' = [n \in Notice |-> owed[n] \ {s}]
    /\ UNCHANGED <<rooms, bridge, channel, fanout, notice, stored, got>>

(* the receive loop ends; it is not there when the greeting already failed *)
DisconnectSocket(s) ==
    /\ sockets[s] = "dead" /\ s \in rooms
    /\ rooms' = rooms \ {s}
    /\ UNCHANGED <<sockets, bridge, channel, fanout, notice, stored, got, owed>>

(* send_raw(): the sockets of the moment, one after the other *)
Snapshot(e, s) ==
    \E order \in SetToSeqs(rooms):
      fanout' = [fanout EXCEPT ![s] = IF rooms = {} THEN Quiet
                                      ELSE [event |-> {e}, todo |-> order, dead |-> {}]]

(* mutant: the first dead socket ends the loop *)
SendOneOrStop(s) ==
    /\ Sending(s) /\ fanout[s].todo # <<>>
    /\ LET w == Head(fanout[s].todo)
           e == CHOOSE n \in fanout[s].event: TRUE
       IN  IF sockets[w] = "open"
           THEN /\ got' = [got EXCEPT ![e] = @ \union {w}]
                /\ fanout' = [fanout EXCEPT ![s].todo = Tail(@)]
           ELSE /\ fanout' = [fanout EXCEPT ![s].todo = <<>>, ![s].dead = {w}]
                /\ UNCHANGED got
    /\ Listeners /\ UNCHANGED <<bridge, channel, notice, stored, owed>>

SendOne(s) ==
    /\ Sending(s) /\ fanout[s].todo # <<>>
    /\ LET w == Head(fanout[s].todo)
           e == CHOOSE n \in fanout[s].event: TRUE
           rest == [fanout[s] EXCEPT !.todo = Tail(@)]
       IN  IF sockets[w] = "open"
           THEN /\ got' = [got EXCEPT ![e] = @ \union {w}]
                /\ fanout' = [fanout EXCEPT ![s] = rest]
           ELSE /\ fanout' = [fanout EXCEPT ![s] = [rest EXCEPT !.dead = @ \union {w}]]
                /\ UNCHANGED got
    /\ Listeners /\ UNCHANGED <<bridge, channel, notice, stored, owed>>

EndSend(s) ==
    /\ Sending(s) /\ fanout[s].todo = <<>>
    /\ rooms' = rooms \ fanout[s].dead
    /\ fanout' = [fanout EXCEPT ![s] = Quiet]
    /\ UNCHANGED <<sockets, bridge, channel, notice, stored, got, owed>>

(***************************************************************************)
(* NotificationDispatcher.dispatch() and the worker                        *)
(***************************************************************************)
StoreNotice(n) ==
    /\ notice[n] = "new"
    /\ stored' = [stored EXCEPT ![n] = @ + 1] /\ NoticeGoes(n, "publish")
    /\ Listeners /\ UNCHANGED <<bridge, channel, fanout, got, owed>>

PublishNotice(n) ==
    /\ notice[n] = "publish"
    /\ NoticeGoes(n, "emit")
    /\ Listeners /\ UNCHANGED <<bridge, channel, fanout, stored, got, owed>>

(* no broker: dispatch() raises, and nothing is emitted *)
PublishNoticeFails(n) ==
    /\ notice[n] = "publish"
    /\ NoticeGoes(n, "raised")
    /\ Listeners /\ UNCHANGED <<bridge, channel, fanout, stored, got, owed>>

(* Redis keeps nothing for a bridge that is not subscribed *)
EmitNotice(n) ==
    /\ notice[n] = "emit"
    /\ channel' = IF bridge = "up" THEN Append(channel, n) ELSE channel
    /\ owed' = [owed EXCEPT ![n] = IF bridge = "up" THEN Open ELSE {}]
    /\ NoticeGoes(n, "sent")
    /\ Listeners /\ UNCHANGED <<bridge, fanout, stored, got>>

(* Redis raises: the hub of this very process, which has sockets in the API *)
(* and none in a worker                                                     *)
EmitLocally(n) ==
    /\ notice[n] = "emit"
    /\ \/ Snapshot(n, n) /\ owed' = [owed EXCEPT ![n] = Open]
       \/ UNCHANGED <<fanout, owed>>
    /\ NoticeGoes(n, "sent")
    /\ Listeners /\ UNCHANGED <<bridge, channel, stored, got>>

(* NotificationWorker: stored once more *)
WorkerStores(n) ==
    /\ notice[n] \in {"emit", "sent"} /\ stored[n] = 1
    /\ stored' = [stored EXCEPT ![n] = 2]
    /\ Listeners /\ UNCHANGED <<bridge, channel, fanout, notice, got, owed>>

(***************************************************************************)
(* The bridge                                                              *)
(***************************************************************************)
BridgeHears ==
    /\ bridge = "up" /\ channel # <<>> /\ ~Sending("bridge")
    /\ Snapshot(Head(channel), "bridge") /\ channel' = Tail(channel)
    /\ Listeners /\ UNCHANGED <<bridge, notice, stored, got, owed>>

(* it subscribes again after two seconds, to what comes after *)
BridgeBreaks ==
    /\ bridge = "up"
    /\ bridge' = "down" /\ channel' = <<>>
    /\ owed' = [n \in Notice |-> IF n \in ToSet(channel) THEN {} ELSE owed[n]]
    /\ Listeners /\ UNCHANGED <<fanout, notice, stored, got>>

Subscribe ==
    /\ bridge = "down" /\ ~Sending("bridge")
    /\ bridge' = "up"
    /\ Listeners /\ UNCHANGED <<channel, fanout, notice, stored, got, owed>>

RealInit ==
    /\ sockets = [s \in Socket |-> "off"] /\ rooms = {}
    /\ bridge = "down" /\ channel = <<>> /\ fanout = [s \in Sender |-> Quiet]
    /\ notice = [n \in Notice |-> "new"] /\ stored = [n \in Notice |-> 0]
    /\ got = [n \in Notice |-> {}] /\ owed = [n \in Notice |-> {}]

RealNext ==
    \/ \E s \in Socket: ConnectSocket(s) \/ SocketDies(s) \/ DisconnectSocket(s)
    \/ \E s \in Sender: SendOne(s) \/ EndSend(s)
    \/ \E n \in Notice: \/ StoreNotice(n) \/ PublishNotice(n) \/ PublishNoticeFails(n)
                        \/ EmitNotice(n) \/ EmitLocally(n) \/ WorkerStores(n)
    \/ BridgeHears \/ BridgeBreaks \/ Subscribe

RealSpec == RealInit /\ [][RealNext]_realVars

(***************************************************************************)
(* Properties.                                                             *)
(***************************************************************************)
RealTypes ==
    /\ sockets \in [Socket -> {"off", "open", "dead"}] /\ rooms \subseteq Socket
    /\ bridge \in {"up", "down"} /\ ToSet(channel) \subseteq Notice
    /\ notice \in [Notice -> {"new", "publish", "emit", "sent", "raised"}]
    /\ stored \in [Notice -> 0..2] /\ {got, owed} \subseteq [Notice -> SUBSET Socket]
    /\ \A s \in Socket: sockets[s] = "open" => s \in rooms

(* A socket that was open when an event went out, to a bridge that was      *)
(* subscribed or from the hub itself, and that stays open, gets it or is    *)
(* still to be sent it: a dead neighbour, another connection, another event *)
(* in between take nothing from it.                                         *)
OwedIsOnItsWay ==
    \A n \in Notice: \A s \in owed[n]:
      \/ s \in got[n] \/ n \in ToSet(channel)
      \/ \E sender \in Sender: n \in fanout[sender].event /\ s \in ToSet(fanout[sender].todo)
=============================================================================
