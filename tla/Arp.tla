--------------------------------- MODULE Arp ---------------------------------
(***************************************************************************)
(* Address resolution in tart: net::arp_processor (src/net/arp.cpp,        *)
(* include/tart/net/arp.hpp), on a network whose other hosts answer        *)
(* queries, and ask some of their own.                                     *)
(*                                                                         *)
(* Coroutines call mac_of; the dispatcher calls push_packet for each frame *)
(* and takes the next one when that has returned.  submit_query_for and    *)
(* submit_reply_for suspend until the network interface has sent a frame.  *)
(***************************************************************************)
EXTENDS Naturals, Sequences

CONSTANTS
    Callers,      \* calls of mac_of
    Wants,        \* [Callers -> Hosts]: the address a call asks for
    Hosts,        \* the IPv4 addresses of the other hosts
    Our,          \* our own address
    Macs, NoMac,  \* hardware addresses; that of a route not resolved yet
    MacsOf,       \* [Hosts -> SUBSET Macs]: those a host has at one time or other
    MaxQueries,   \* bound: queries each of the other hosts sends
    MaxLosses,    \* bound: queries of ours the network loses
    MaxExtras     \* bound: answers repeated or sent unasked, queries for others

ASSUME ArpAssumption ==
    /\ Our \notin Hosts /\ NoMac \notin Macs
    /\ Wants \in [Callers -> Hosts]
    /\ MacsOf \in [Hosts -> SUBSET Macs] /\ \A h \in Hosts : MacsOf[h] # {}
    /\ {MaxQueries, MaxLosses, MaxExtras} \subseteq Nat

VARIABLES
    routes_,      \* in list order; resolved_ also stands for doorbell_
    caller,       \* where each call of mac_of stands
    result,       \* what it returned
    disp,         \* the host the dispatcher is sending a reply to, Our if none
    inbox,        \* frames received and not yet dispatched
    onWire,       \* hosts that a query of ours is under way to
    asked,        \* history: queries for our address, by host
    replied,      \* history: our replies, by host
    answers,      \* history: the answers dispatched from hosts we have a route to
    losses, extras

vars == <<routes_, caller, result, disp, inbox, onWire, asked, replied, answers,
          losses, extras>>

Reply == [operation : {2}, sender_ip : Hosts, sender_mac : Macs]
Request == [operation : {1}, sender_ip : Hosts, target_ip : Hosts \cup {Our}]

\* Every variable has its type (route, arp_processor).
TypeOK ==
    /\ routes_ \in Seq([ip_ : Hosts, mac_ : Macs \cup {NoMac}, resolved_ : BOOLEAN])
    /\ caller \in [Callers -> {"none", "querying", "queried", "waiting", "done"}]
    /\ result \in [Callers -> Macs \cup {NoMac}]
    /\ disp \in Hosts \cup {Our}
    /\ inbox \in Seq(Reply \cup Request)
    /\ onWire \subseteq Hosts
    /\ asked \in [Hosts -> 0 .. MaxQueries] /\ replied \in [Hosts -> 0 .. MaxQueries]
    /\ answers \subseteq Reply
    /\ losses \in 0 .. MaxLosses /\ extras \in 0 .. MaxExtras

Init ==
    /\ routes_ = <<>>
    /\ caller = [c \in Callers |-> "none"]
    /\ result = [c \in Callers |-> NoMac]
    /\ disp = Our
    /\ inbox = <<>> /\ onWire = {}
    /\ asked = [h \in Hosts |-> 0] /\ replied = [h \in Hosts |-> 0]
    /\ answers = {}
    /\ losses = 0 /\ extras = 0

-----------------------------------------------------------------------------
(***************************************************************************)
(* mac_of.                                                                 *)
(***************************************************************************)
\* The places in the list of the routes to an address.
RoutesTo(ip) == {i \in DOMAIN routes_ : routes_[i].ip_ = ip}

\* A bug: a route counts only once it is resolved.
MutantOnlyResolved(ip) == \E i \in RoutesTo(ip) : routes_[i].resolved_
HasRoute(ip) == RoutesTo(ip) # {}

\* Wait on the route to the address; without one add it, then send a query.
MacOf(c) ==
    /\ caller[c] = "none"
    /\ \/ /\ HasRoute(Wants[c])
          /\ caller' = [caller EXCEPT ![c] = "waiting"]
          /\ UNCHANGED routes_
       \/ /\ ~HasRoute(Wants[c])
          /\ caller' = [caller EXCEPT ![c] = "querying"]
          /\ routes_' = Append(routes_,
                 [ip_ |-> Wants[c], mac_ |-> NoMac, resolved_ |-> FALSE])
    /\ UNCHANGED <<result, disp, inbox, onWire, asked, replied, answers, losses,
                   extras>>

\* submit_query_for: the query is on the wire before the call returns, and the
\* answer may be dispatched before it does.
QueryOut(c) ==
    /\ caller[c] = "querying"
    /\ caller' = [caller EXCEPT ![c] = "queried"]
    /\ onWire' = onWire \cup {Wants[c]}
    /\ UNCHANGED <<routes_, result, disp, inbox, asked, replied, answers, losses,
                   extras>>

QuerySent(c) ==
    /\ caller[c] = "queried"
    /\ caller' = [caller EXCEPT ![c] = "waiting"]
    /\ UNCHANGED <<routes_, result, disp, inbox, onWire, asked, replied, answers,
                   losses, extras>>

\* The call waits on the first route to the address.
Returns(c) ==
    /\ caller[c] = "waiting"
    /\ \E i \in RoutesTo(Wants[c]) :
           /\ \A j \in RoutesTo(Wants[c]) : i <= j
           /\ routes_[i].resolved_
           /\ result' = [result EXCEPT ![c] = routes_[i].mac_]
    /\ caller' = [caller EXCEPT ![c] = "done"]
    /\ UNCHANGED <<routes_, disp, inbox, onWire, asked, replied, answers, losses,
                   extras>>

(***************************************************************************)
(* push_packet.                                                            *)
(***************************************************************************)
\* Bugs: every route takes the address; the doorbell is not rung.
MutantEveryRoute(r, f) == [r EXCEPT !.mac_ = f.sender_mac, !.resolved_ = TRUE]
MutantNotRung(r, f) ==
    IF r.ip_ = f.sender_ip THEN [r EXCEPT !.mac_ = f.sender_mac] ELSE r
\* Every answer sets the route to its sender, and wakes who waits on it.
Resolve(r, f) ==
    IF r.ip_ = f.sender_ip THEN [r EXCEPT !.mac_ = f.sender_mac, !.resolved_ = TRUE]
                           ELSE r

\* Bugs: the wrong field is compared, or none.
MutantWrongField(f) == f.operation = 1 /\ f.sender_ip = Our
MutantAnyTarget(f) == f.operation = 1
ForUs(f) == f.operation = 1 /\ f.target_ip = Our

PushPacket ==
    /\ disp = Our /\ inbox # <<>>
    /\ inbox' = Tail(inbox)
    /\ LET f == Head(inbox)
       IN  \/ /\ ForUs(f)
              /\ disp' = f.sender_ip
              /\ UNCHANGED <<routes_, answers>>
           \/ /\ f.operation = 2
              /\ routes_' = [i \in DOMAIN routes_ |-> Resolve(routes_[i], f)]
              /\ answers' = IF HasRoute(f.sender_ip) THEN answers \cup {f} ELSE answers
              /\ UNCHANGED disp
           \/ /\ f.operation = 1 /\ ~ForUs(f)
              /\ UNCHANGED <<routes_, disp, answers>>
    /\ UNCHANGED <<caller, result, onWire, asked, replied, losses, extras>>

\* submit_reply_for returns.
ReplySent ==
    /\ disp # Our
    /\ replied' = [replied EXCEPT ![disp] = @ + 1]
    /\ disp' = Our
    /\ UNCHANGED <<routes_, caller, result, inbox, onWire, asked, answers, losses,
                   extras>>

-----------------------------------------------------------------------------
(***************************************************************************)
(* The other hosts and the network.                                        *)
(***************************************************************************)
Receive(f) == inbox' = Append(inbox, f)

\* A host answers a query, or sends an answer again or unasked.
HostAnswers(h) ==
    /\ \E m \in MacsOf[h] : Receive([operation |-> 2, sender_ip |-> h, sender_mac |-> m])
    /\ \/ h \in onWire /\ onWire' = onWire \ {h} /\ UNCHANGED extras
       \/ extras < MaxExtras /\ extras' = extras + 1 /\ UNCHANGED onWire
    /\ UNCHANGED <<routes_, caller, result, disp, asked, replied, answers, losses>>

HostAsks(h, target) ==
    /\ Receive([operation |-> 1, sender_ip |-> h, target_ip |-> target])
    /\ \/ /\ target = Our /\ asked[h] < MaxQueries
          /\ asked' = [asked EXCEPT ![h] = @ + 1]
          /\ UNCHANGED extras
       \/ /\ target \notin {Our, h} /\ extras < MaxExtras
          /\ extras' = extras + 1
          /\ UNCHANGED asked
    /\ UNCHANGED <<routes_, caller, result, disp, onWire, replied, answers, losses>>

Lose(h) ==
    /\ h \in onWire /\ losses < MaxLosses
    /\ onWire' = onWire \ {h}
    /\ losses' = losses + 1
    /\ UNCHANGED <<routes_, caller, result, disp, inbox, asked, replied, answers,
                   extras>>

-----------------------------------------------------------------------------
Proceeds(c) == MacOf(c) \/ QueryOut(c) \/ QuerySent(c) \/ Returns(c)

Next ==
    \/ \E c \in Callers : Proceeds(c)
    \/ PushPacket \/ ReplySent
    \/ \E h \in Hosts : HostAnswers(h) \/ Lose(h)
    \/ \E h \in Hosts, target \in Hosts \cup {Our} : HostAsks(h, target)

Spec == Init /\ [][Next]_vars

\* A call once made proceeds, the network interface sends every frame, the
\* dispatcher takes every frame, and a host that gets a query answers it.
Fairness ==
    /\ \A c \in Callers :
           WF_vars(QueryOut(c)) /\ WF_vars(QuerySent(c)) /\ WF_vars(Returns(c))
    /\ WF_vars(PushPacket) /\ WF_vars(ReplySent)
    /\ \A h \in Hosts : WF_vars(h \in onWire /\ HostAnswers(h))

FairSpec == Spec /\ Fairness

-----------------------------------------------------------------------------
(***************************************************************************)
(* Properties.                                                             *)
(***************************************************************************)
\* There is one route to an address, and so one query, however many calls of
\* mac_of ask for it while it is being resolved (mac_of).
OneRoutePerHost ==
    \A i, j \in DOMAIN routes_ : routes_[i].ip_ = routes_[j].ip_ => i = j

\* mac_of returns an address that the host it was asked for has given as its own
\* (mac_of, push_packet).
ResultIsAnAnswer ==
    \A c \in Callers : caller[c] = "done" =>
        \E f \in answers : f.sender_ip = Wants[c] /\ f.sender_mac = result[c]

Answered(c) == \E f \in answers : f.sender_ip = Wants[c]

\* Every call of mac_of returns, unless a query was lost and no answer came; that
\* is, again and again no call but such ones is waiting (mac_of, push_packet).
EveryCallReturns ==
    []<>(\A c \in Callers :
             caller[c] \notin {"none", "done"} => losses > 0 /\ ~Answered(c))

\* No host gets more replies than it has sent queries for our address, and none
\* for a query that is for another host (push_packet, submit_reply_for).
NoReplyUnasked == \A h \in Hosts : replied[h] <= asked[h]

\* Every query for our address is replied to: again and again there is none
\* without a reply (push_packet, submit_reply_for).
EveryQueryReplied == []<>(\A h \in Hosts : replied[h] = asked[h])
=============================================================================
