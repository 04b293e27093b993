------------------------------- MODULE Server -------------------------------
(***************************************************************************)
(* The loop of server/src/main.c and the reception of packets in           *)
(* server/src/engine/net.c: one thread, an epoll instance, blocking stream *)
(* sockets, and clients that connect, send packets in pieces and leave.    *)
(* main() ends before its loop at this commit; this is the code below.     *)
(*                                                                         *)
(* A stream is a sequence of units.  A header is two, its magic and its    *)
(* payload_size, and a payload is none, "rest", or "data" and "rest".  The *)
(* event of the listening socket is 0.                                     *)
(***************************************************************************)
EXTENDS Naturals, FiniteSets, Sequences, SequencesExt

CONSTANTS
  Clients,  \* each connects once
  Plans,    \* what a client may send, unless it leaves before
  MaxFd,    \* the descriptors 1 .. MaxFd are left for clients
  MaxEvents \* MAX_EVENTS

Magics == {"right", "wrong"}
Size == [none |-> 0, half |-> 1, full |-> 2]
Units == Magics \cup {"none", "half", "full", "data", "rest"}

(* What may come after a unit, where a client sends packet after packet,   *)
(* with payloads whether its magic is right or not.                        *)
After == [u \in Units |->
  CASE u \in Magics -> {"none", "half", "full"}
    [] u = "full" -> {"data"}
    [] u \in {"half", "data"} -> {"rest"}
    [] OTHER -> Magics]

(* A part of such a stream, of which the first unit is in From. *)
Packets(s, From) ==
  /\ s # << >> => Head(s) \in From
  /\ \A i \in 1 .. Len(s) - 1 : s[i + 1] \in After[s[i]]

ASSUME PlansAssumption == \A plan \in Plans : plan \in Seq(Units) /\ Packets(plan, Magics)
ASSUME LimitsAssumption == MaxFd \in Nat /\ MaxEvents \in Nat \ {0}

VARIABLES
  up,      \* "loop", "done"; "spin": in recv() for ever; "stuck": in a lock;
           \* "undefined": free() was given memory of the arena
  pc,      \* "check", "wait", "batch", "header", "payload"
  keep,    \* keep_running
  events,  \* the events not yet dealt with
  last,    \* ev.data.fd
  got,     \* what has been received of a header or a payload
  want,    \* how many units that is to be
  log,     \* what was printed as logged
  locked,  \* the arena's mutex was kept by an allocation that failed
  backlog, \* clients that wait to be accepted
  fdOf,    \* of each client, its descriptor in the server, or 0
  inbox,   \* of each client, what it sent and the server has not read
  todo,    \* of each client, what it will send
  client,  \* of each client, "off", "on" or "left"
  seen,    \* history: the clients that were accepted
  astray   \* history: those of whom a payload was left unread

loopVars == <<up, pc, keep, events>>
netVars == <<backlog, fdOf, inbox, todo, client, seen, astray>>
vars == <<loopVars, last, got, want, log, locked, netVars>>

Holder(f) == {c \in Clients : f # 0 /\ fdOf[c] = f}
FreeFds == {f \in 1 .. MaxFd : Holder(f) = {}}

(* Slip: clients are not added to the epoll instance. *)
ReadyListenOnly == IF backlog # << >> THEN {0} ELSE {}

(* Level-triggered: what accept() or recv() would not block on.            *)
Ready ==
  (IF backlog # << >> THEN {0} ELSE {})
    \cup {fdOf[c] : c \in {d \in Clients : fdOf[d] # 0
                            /\ (inbox[d] # << >> \/ client[d] = "left")}}

-----------------------------------------------------------------------------
(* Clients.                                                                *)

Connect(c) ==
  /\ client[c] = "off" /\ up = "loop"
  /\ client' = [client EXCEPT ![c] = "on"]
  /\ backlog' = Append(backlog, c)
  /\ \E plan \in Plans : todo' = [todo EXCEPT ![c] = plan]
  /\ UNCHANGED <<loopVars, last, got, want, log, locked, fdOf, inbox, seen,
                 astray>>

Send(c) ==
  /\ client[c] = "on" /\ todo[c] # << >>
  /\ inbox' = [inbox EXCEPT ![c] = Append(@, Head(todo[c]))]
  /\ todo' = [todo EXCEPT ![c] = Tail(@)]
  /\ UNCHANGED <<loopVars, last, got, want, log, locked, backlog, fdOf, client,
                 seen, astray>>

Leave(c) ==
  /\ client[c] = "on"
  /\ client' = [client EXCEPT ![c] = "left"]
  /\ UNCHANGED <<loopVars, last, got, want, log, locked, backlog, fdOf, inbox,
                 todo, seen, astray>>

(* handle_sigint().  Calls that block are restarted after it. *)
Interrupt ==
  /\ keep /\ keep' = FALSE
  /\ UNCHANGED <<up, pc, events, last, got, want, log, locked, netVars>>

-----------------------------------------------------------------------------
(* The loop of main().                                                     *)

(* Slip: the flag is not looked at. *)
KeepRunning == TRUE

Running == keep

Check ==
  /\ up = "loop" /\ pc = "check"
  /\ IF Running THEN pc' = "wait" /\ up' = up ELSE up' = "done" /\ pc' = pc
  /\ UNCHANGED <<keep, events, last, got, want, log, locked, netVars>>

(* At most MaxEvents events, in any order. *)
Wait ==
  /\ up = "loop" /\ pc = "wait" /\ Ready # {}
  /\ \E S \in SUBSET Ready :
       /\ Cardinality(S) = MaxEvents \/ S = Ready
       /\ Cardinality(S) <= MaxEvents
       /\ events' \in SetToSeqs(S)
  /\ pc' = "batch"
  /\ UNCHANGED <<up, keep, last, got, want, log, locked, netVars>>

(* 500 ms without an event, or a signal. *)
WaitEnds ==
  /\ up = "loop" /\ pc = "wait" /\ (Ready = {} \/ ~keep)
  /\ pc' = "check"
  /\ UNCHANGED <<up, keep, events, last, got, want, log, locked, netVars>>

BatchEnds ==
  /\ up = "loop" /\ pc = "batch" /\ events = << >>
  /\ pc' = "check"
  /\ UNCHANGED <<up, keep, events, last, got, want, log, locked, netVars>>

NextEvents == Tail(events)

(* accept() fails when there is no descriptor left. *)
Accept ==
  /\ up = "loop" /\ pc = "batch" /\ events # << >> /\ Head(events) = 0
  /\ events' = NextEvents
  /\ IF FreeFds = {} THEN UNCHANGED <<backlog, fdOf, last, seen>>
     ELSE \E f \in FreeFds :
            /\ \A g \in FreeFds : f <= g
            /\ fdOf' = [fdOf EXCEPT ![Head(backlog)] = f]
            /\ last' = f
            /\ backlog' = Tail(backlog)
            /\ seen' = seen \cup {Head(backlog)}
  /\ UNCHANGED <<up, pc, keep, got, want, log, locked, inbox, todo, client,
                 astray>>

(* Whichever descriptor the event is for, ev.data.fd is served. *)
Dispatch ==
  /\ up = "loop" /\ pc = "batch" /\ events # << >> /\ Head(events) # 0
  /\ events' = NextEvents
  /\ pc' = "header" /\ got' = << >> /\ want' = 2
  /\ UNCHANGED <<up, keep, last, log, locked, netVars>>

-----------------------------------------------------------------------------
(* sq_recv_header() and sq_handle_client_payload().                        *)

(* recv() takes some of what there is, up to what is missing.              *)
RecvSome ==
  /\ up = "loop" /\ pc \in {"header", "payload"}
  /\ \E c \in Holder(last) : \E n \in 1 .. Len(inbox[c]) :
       /\ Len(got) + n <= want
       /\ got' = got \o SubSeq(inbox[c], 1, n)
       /\ inbox' = [inbox EXCEPT ![c] = SubSeq(@, n + 1, Len(@))]
  /\ UNCHANGED <<loopVars, last, want, log, locked, backlog, fdOf, todo, client,
                 seen, astray>>

AllGot == Len(got) = want

AtEnd(c) == inbox[c] = << >> /\ client[c] = "left"

(* Slip: after close() it goes on. *)
HeaderEndsOn ==
  /\ up = "loop" /\ pc = "header" /\ Len(got) < want
  /\ \E c \in Holder(last) : AtEnd(c) /\ fdOf' = [fdOf EXCEPT ![c] = 0]
  /\ UNCHANGED <<loopVars, last, got, want, log, locked,
                 backlog, inbox, todo, client, seen, astray>>

(* The client has left: its descriptor is closed. *)
HeaderEnds ==
  /\ up = "loop" /\ pc = "header" /\ Len(got) < want
  /\ \E c \in Holder(last) : AtEnd(c) /\ fdOf' = [fdOf EXCEPT ![c] = 0]
  /\ pc' = "batch"
  /\ UNCHANGED <<up, keep, events, last, got, want, log, locked,
                 backlog, inbox, todo, client, seen, astray>>

(* recv() fails with EBADF, which is none of the errors that are handled.  *)
HeaderSpins ==
  /\ up = "loop" /\ pc = "header" /\ Holder(last) = {}
  /\ up' = "spin"
  /\ UNCHANGED <<pc, keep, events, last, got, want, log, locked, netVars>>

(* Slip: the last unit of a payload is not counted. *)
AnnouncedLess(h) ==
  CASE h[2] \notin DOMAIN Size -> 0 .. 2
    [] h[2] \in DOMAIN Size /\ h[1] = "wrong" -> {0}
    [] h[2] \in DOMAIN Size /\ h[1] # "wrong" -> {IF h[2] = "full" THEN 1 ELSE 0}

(* The payload_size the server reads in a header: where there was none,    *)
(* the bytes may say anything.  With a wrong magic it is not looked at.    *)
Announced(h) ==
  CASE h[2] \notin DOMAIN Size -> 0 .. 2
    [] h[2] \in DOMAIN Size /\ h[1] = "wrong" -> {0}
    [] h[2] \in DOMAIN Size /\ h[1] # "wrong" -> {Size[h[2]]}

(* The connection of a wrong magic is left open, its payload unread. *)
LeftUnread == IF got[1] = "wrong" /\ got[2] # "none" THEN Holder(last) ELSE {}

(* A wrong magic, or no payload. *)
HeaderAlone ==
  /\ up = "loop" /\ pc = "header" /\ AllGot /\ 0 \in Announced(got)
  /\ pc' = "batch"
  /\ astray' = astray \cup LeftUnread
  /\ UNCHANGED <<up, keep, events, last, got, want, log, locked,
                 backlog, fdOf, inbox, todo, client, seen>>

(* arena_alloc(): it fails once, with its mutex locked, and then blocks.   *)
HeaderAllocates ==
  /\ up = "loop" /\ pc = "header" /\ AllGot
  /\ \E n \in Announced(got) \ {0} :
       \/ /\ ~locked /\ pc' = "payload" /\ got' = << >> /\ want' = n
          /\ UNCHANGED <<up, locked, astray>>
       \/ /\ ~locked /\ pc' = "batch" /\ locked' = TRUE
          /\ astray' = astray \cup Holder(last)
          /\ UNCHANGED <<up, got, want>>
       \/ /\ locked /\ up' = "stuck"
          /\ UNCHANGED <<pc, got, want, locked, astray>>
  /\ UNCHANGED <<keep, events, last, log, backlog, fdOf, inbox, todo, client, seen>>

Logged == IF AllGot THEN got ELSE log

(* The payload is logged if it is complete, and then given to free().      *)
PayloadEnds ==
  /\ up = "loop" /\ pc = "payload"
  /\ AllGot \/ \E c \in Holder(last) : AtEnd(c)
  /\ log' = Logged
  /\ up' = "undefined"
  /\ UNCHANGED <<pc, keep, events, last, got, want, locked, netVars>>

-----------------------------------------------------------------------------
Init ==
  /\ up = "loop" /\ pc = "check" /\ keep = TRUE
  /\ events = << >> /\ last = 0 /\ got = << >> /\ want = 2
  /\ log = << >> /\ locked = FALSE
  /\ backlog = << >> /\ seen = {} /\ astray = {}
  /\ fdOf = [c \in Clients |-> 0]
  /\ inbox = [c \in Clients |-> << >>] /\ todo = [c \in Clients |-> << >>]
  /\ client = [c \in Clients |-> "off"]

Serve ==
  \/ Check \/ Wait \/ WaitEnds \/ BatchEnds \/ Accept \/ Dispatch
  \/ RecvSome \/ HeaderEnds \/ HeaderSpins \/ HeaderAlone \/ HeaderAllocates
  \/ PayloadEnds

Next == Serve \/ Interrupt \/ \E c \in Clients : Connect(c) \/ Send(c) \/ Leave(c)

(* The server runs; nobody makes a client do anything. *)
Spec == Init /\ [][Next]_vars /\ WF_vars(Serve)

-----------------------------------------------------------------------------
(* The type of every variable. *)
TypeOK ==
  /\ up \in {"loop", "done", "spin", "stuck", "undefined"}
  /\ pc \in {"check", "wait", "batch", "header", "payload"}
  /\ keep \in BOOLEAN /\ locked \in BOOLEAN
  /\ events \in Seq(0 .. MaxFd) /\ last \in 0 .. MaxFd
  /\ want \in 1 .. 2 /\ got \in Seq(Units) /\ Len(got) <= want /\ log \in Seq(Units)
  /\ backlog \in Seq(Clients)
  /\ fdOf \in [Clients -> 0 .. MaxFd]
  /\ inbox \in [Clients -> Seq(Units)] /\ todo \in [Clients -> Seq(Units)]
  /\ client \in [Clients -> {"off", "on", "left"}]
  /\ seen \subseteq Clients /\ astray \subseteq Clients

(* What is logged is a payload, whole, of one client: one that leaves      *)
(* half-way is not logged (net.c:275-288).                                 *)
LoggedWhole ==
  log # << >> =>
    \/ log = (IF want = 2 THEN <<"data", "rest">> ELSE <<"rest">>)
    \/ Holder(last) \cap astray # {}

(* Each header of a client is looked for where one begins (net.c:222-254,  *)
(* 272-288), until a payload of that client is left unread in the stream:  *)
(* behind a wrong magic (net.c:243-251), or for want of memory (net.c:274).*)
InStep ==
  up = "loop" /\ pc \in {"check", "wait", "batch"} =>
    \A c \in Clients \ astray :
      LET rest == inbox[c] \o todo[c] IN
      fdOf[c] # 0 /\ rest # << >> => Head(rest) \in Magics

Reading == pc \in {"header", "payload"}
Lone == \A a, b \in seen : a = b

(* A descriptor is one client's, who was accepted; those who wait to be    *)
(* accepted are on the way, once each, and one who is off has sent nothing.*)
ClientsApart ==
  /\ \A c, d \in Clients : fdOf[c] # 0 /\ fdOf[c] = fdOf[d] => c = d
  /\ \A c \in Clients : fdOf[c] # 0 => c \in seen
  /\ \A i \in DOMAIN backlog : backlog[i] \notin seen /\ client[backlog[i]] # "off"
  /\ \A i, j \in DOMAIN backlog : backlog[i] = backlog[j] => i = j
  /\ \A c \in Clients : client[c] = "off" =>
        c \notin seen /\ inbox[c] = << >> /\ todo[c] = << >>
  /\ IsFiniteSet(seen)

(* What the server has read of the packet in hand, what has arrived and    *)
(* what is still to come of one client make whole packets.                 *)
Stream(c) == (IF Reading /\ c \in Holder(last) THEN got ELSE << >>) \o inbox[c] \o todo[c]
Part(c) ==
  IF pc = "payload" /\ c \in Holder(last)
  THEN IF want = 2 THEN {"data"} ELSE {"rest"}
  ELSE Magics

Aligned ==
  /\ up = "loop" => log = << >>
  /\ astray \subseteq seen
  /\ up = "loop" =>
       \A c \in Clients \ astray :
         fdOf[c] # 0 \/ c \notin seen => Packets(Stream(c), Part(c))
  /\ Reading /\ (pc = "payload" \/ got # << >>) => Holder(last) # {}
  /\ pc = "header" => want = 2

(* An event is dealt with once, and one of the listening socket still has  *)
(* someone to accept.  As long as only one client was accepted, its        *)
(* descriptor is the one in hand and the only one to have an event.        *)
EventsFit ==
  /\ \A i, j \in DOMAIN events : events[i] = events[j] => i = j
  /\ up = "loop" => \A i \in DOMAIN events : events[i] = 0 => backlog # << >>
  /\ Lone => \A c \in Clients : fdOf[c] # 0 => fdOf[c] = last
  /\ pc = "batch" /\ Lone =>
       \A i \in DOMAIN events : events[i] # 0 => events[i] = last /\ Holder(last) # {}
  /\ Reading /\ Lone => \A i \in DOMAIN events : events[i] = 0
  /\ pc = "header" /\ Lone => up # "spin" /\ Holder(last) # {}
  /\ up = "spin" => pc = "header"

(* So what one client sends is never taken for another's, nor, before a    *)
(* payload was left unread, the middle of a packet for its beginning.      *)
ServerInv ==
  TypeOK /\ LoggedWhole /\ InStep /\ ClientsApart /\ Aligned /\ EventsFit

(* recv() is retried for ever (net.c:235-241) only on a descriptor that    *)
(* was closed, in the name of another client (main.c:69): one client alone *)
(* never brings the server there.                                          *)
SpinNeedsTwo == up = "spin" => Cardinality(seen) >= 2

Silent ==
  /\ pc \in {"header", "payload"}
  /\ \E c \in Holder(last) : inbox[c] = << >> /\ client[c] = "on"

(* After SIGINT the loop ends (main.c:58), unless the server waits for a   *)
(* client that says nothing, or has come to grief.                         *)
ShutdownEnds == ~keep ~> up # "loop" \/ Silent

(* What the client accepted last sends is read, however it is cut up and   *)
(* whatever the others do (main.c:58-72).                                  *)
LastIsRead ==
  \A c \in Clients :
    fdOf[c] # 0 /\ fdOf[c] = last /\ inbox[c] # << >>
      ~> inbox[c] = << >> \/ fdOf[c] # last \/ up # "loop"

(* A client that is alone gets its descriptor closed when it has left.     *)
LoneClientIsClosed ==
  \A c \in Clients :
    seen = {c} /\ client[c] = "left" ~> fdOf[c] = 0 \/ seen # {c} \/ up # "loop"

(* So the client whose descriptor main() has in hand is served until it is *)
(* gone (main.c:58-72, net.c:222-254).                                     *)
LastIsServed == LastIsRead /\ LoneClientIsClosed
=============================================================================
