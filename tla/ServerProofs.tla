---------------------------- MODULE ServerProofs ----------------------------
(***************************************************************************)
(* Proofs about Server, for any clients, any packets they may send and any *)
(* number of descriptors.                                                  *)
(***************************************************************************)
EXTENDS Server, FiniteSetTheorems, SequenceTheorems, TLAPS

(* What is inductive: ServerInv without InStep, which follows from it. *)
IInv == TypeOK /\ LoggedWhole /\ ClientsApart /\ Aligned /\ EventsFit

-----------------------------------------------------------------------------
(* Sequences of units.                                                     *)

(* What may come after each unit. *)
LEMMA AfterUnits ==
  /\ \A m \in Magics : After[m] = {"none", "half", "full"}
  /\ After["none"] = Magics /\ After["rest"] = Magics
  /\ After["half"] = {"rest"} /\ After["full"] = {"data"} /\ After["data"] = {"rest"}
BY DEF After, Units, Magics

(* What a header says of its payload. *)
LEMMA HeaderSays ==
  ASSUME NEW h
  PROVE  /\ Announced(h) \subseteq 0 .. 2
         /\ h[1] = "wrong" /\ h[2] \in {"none", "half", "full"} => Announced(h) = {0}
         /\ h[1] = "right" /\ h[2] = "none" => Announced(h) = {0}
         /\ h[1] = "right" /\ h[2] = "half" => Announced(h) = {1}
         /\ h[1] = "right" /\ h[2] = "full" => Announced(h) = {2}
<1>1. DOMAIN Size = {"none", "half", "full"} /\ Size["none"] = 0 /\ Size["half"] = 1 /\ Size["full"] = 2
  BY DEF Size
<1>2. CASE h[2] \notin DOMAIN Size
  BY <1>1, <1>2 DEF Announced
<1>3. CASE h[2] \in DOMAIN Size /\ h[1] = "wrong"
  BY <1>1, <1>3 DEF Announced
<1>4. CASE h[2] \in DOMAIN Size /\ h[1] # "wrong"
  <2>1. Announced(h) = {Size[h[2]]}
    BY <1>4 DEF Announced
  <2> QED
    BY <1>1, <1>4, <2>1
<1> QED
  BY <1>2, <1>3, <1>4

(* Concatenation of sequences of units. *)
LEMMA ConcatUnits ==
  ASSUME NEW a \in Seq(Units), NEW b \in Seq(Units)
  PROVE  /\ a \o b \in Seq(Units) /\ Len(a \o b) = Len(a) + Len(b) /\ << >> \o a = a
         /\ \A i \in 1 .. Len(a) + Len(b) :
              (a \o b)[i] = (IF i <= Len(a) THEN a[i] ELSE b[i - Len(a)])
BY ConcatProperties, ConcatEmptySeq

(* The first unit of what is at the front of part of a stream. *)
LEMMA FirstOfPackets ==
  ASSUME NEW g \in Seq(Units), Len(g) >= 1, NEW s \in Seq(Units), NEW From, Packets(g \o s, From)
  PROVE  g[1] \in From
<1> DEFINE t == g \o s
<1>1. Len(g) \in Nat /\ Len(s) \in Nat
  BY LenProperties
<1>2. t \in Seq(Units) /\ Len(t) = Len(g) + Len(s) /\ t[1] = g[1]
  BY <1>1, ConcatUnits
<1>3. t # << >> => Head(t) \in From
  BY DEF Packets
<1> HIDE DEF t
<1>4. t # << >> /\ Head(t) = t[1]
  BY <1>1, <1>2
<1> QED
  BY <1>2, <1>3, <1>4

LEMMA Regroup ==
  ASSUME NEW a \in Seq(Units), NEW b \in Seq(Units), NEW c \in Seq(Units)
  PROVE  (a \o b) \o c = a \o (b \o c)
BY ConcatAssociative

(* Two units at the front of part of a stream, and what they leave. *)
LEMMA FrontOfPackets ==
  ASSUME NEW g \in Seq(Units), Len(g) = 2, NEW s \in Seq(Units), NEW From, Packets(g \o s, From)
  PROVE  g[1] \in From /\ g[2] \in After[g[1]] /\ Packets(s, After[g[2]])
<1> DEFINE t == g \o s
<1>1. /\ t \in Seq(Units) /\ Len(t) = 2 + Len(s) /\ Len(s) \in Nat
      /\ \A i \in 1 .. 2 + Len(s) : t[i] = IF i <= 2 THEN g[i] ELSE s[i - 2]
  <2>1. Len(s) \in Nat
    BY LenProperties
  <2>2. t \in Seq(Units) /\ Len(t) = Len(g) + Len(s)
    BY ConcatUnits
  <2>3. \A i \in 1 .. Len(g) + Len(s) : t[i] = (IF i <= Len(g) THEN g[i] ELSE s[i - Len(g)])
    BY ConcatUnits, Zenon
  <2> QED
    BY <2>1, <2>2, <2>3
<1>2. t # << >> /\ Head(t) = t[1] /\ t[1] = g[1] /\ t[2] = g[2]
  BY <1>1
<1>3. Head(t) \in From /\ \A i \in 1 .. Len(t) - 1 : t[i + 1] \in After[t[i]]
  BY <1>2 DEF Packets
<1> HIDE DEF t
<1>4. t[2] \in After[t[1]]
  BY <1>1, <1>3
<1>5. s # << >> => Head(s) \in After[g[2]]
  <2> SUFFICES ASSUME s # << >> PROVE Head(s) \in After[g[2]]
    OBVIOUS
  <2>1. Len(s) >= 1 /\ Head(s) = s[1]
    BY <1>1, EmptySeq
  <2>2. t[3] = s[1] /\ t[3] \in After[t[2]]
    BY <1>1, <1>3, <2>1
  <2> QED
    BY <1>2, <2>1, <2>2
<1>6. ASSUME NEW i \in 1 .. Len(s) - 1 PROVE s[i + 1] \in After[s[i]]
  <2>1. i + 2 \in 1 .. Len(t) - 1 /\ i + 2 \in 1 .. 2 + Len(s) /\ i + 3 \in 1 .. 2 + Len(s)
    BY <1>1
  <2>2. t[(i + 2) + 1] \in After[t[i + 2]]
    BY <1>3, <2>1
  <2>3. t[i + 2] = s[i] /\ t[i + 3] = s[i + 1] /\ (i + 2) + 1 = i + 3
    BY <1>1, <2>1
  <2> QED
    BY <2>2, <2>3
<1> QED
  BY <1>2, <1>3, <1>4, <1>5, <1>6 DEF Packets

(* What is taken from the front of one sequence is added to the end of     *)
(* another: nothing changes in the two together.                           *)
LEMMA TakeFront ==
  ASSUME NEW g \in Seq(Units), NEW i \in Seq(Units), NEW t \in Seq(Units), NEW n \in 1 .. Len(i)
  PROVE  /\ SubSeq(i, 1, n) \in Seq(Units) /\ Len(SubSeq(i, 1, n)) = n
         /\ SubSeq(i, n + 1, Len(i)) \in Seq(Units)
         /\ (g \o SubSeq(i, 1, n)) \o SubSeq(i, n + 1, Len(i)) \o t = g \o i \o t
<1> DEFINE a == SubSeq(i, 1, n)
           b == SubSeq(i, n + 1, Len(i))
<1>1. Len(i) \in Nat /\ n \in Nat /\ 1 <= n /\ n <= Len(i) /\ \A k \in 1 .. Len(i) : i[k] \in Units
  BY LenProperties, ElementOfSeq
<1>2. a \in Seq(Units) /\ Len(a) = n
  <2>1. \A k \in 1 .. n : i[k] \in Units
    BY <1>1
  <2> QED
    BY <2>1, <1>1, SubSeqProperties
<1>3. b \in Seq(Units)
  <2>1. \A k \in n + 1 .. Len(i) : i[k] \in Units
    BY <1>1
  <2> QED
    BY <2>1, <1>1, SubSeqProperties
<1>4. a \o b = SubSeq(i, 1, Len(i))
  <2>1. 1 \in 1 .. Len(i) + 1 /\ n \in 1 - 1 .. Len(i) /\ Len(i) \in n .. Len(i)
    BY <1>1
  <2> QED
    BY <2>1, ConcatAdjacentSubSeq
<1>5. a \o b = i
  BY <1>4, SubSeqFull
<1> HIDE DEF a, b
<1>6. (g \o a) \o b = g \o i
  <2>0. a \in Seq(Units) /\ b \in Seq(Units)
    BY <1>2, <1>3
  <2>1. (g \o a) \o b = g \o (a \o b)
    BY <2>0, Regroup
  <2> QED
    BY <2>1, <1>5
<1> QED
  BY <1>2, <1>3, <1>6 DEF a, b

(* The first unit still to come is added to what has arrived. *)
LEMMA MoveUnit ==
  ASSUME NEW g \in Seq(Units), NEW i \in Seq(Units), NEW t \in Seq(Units), t # << >>
  PROVE  g \o Append(i, Head(t)) \o Tail(t) = g \o i \o t
<1>1. Head(t) \in Units /\ Tail(t) \in Seq(Units) /\ Len(t) \in Nat /\ Len(t) >= 1
  BY HeadTailProperties, EmptySeq
<1> DEFINE h == << Head(t) >>
<1>2. h \in Seq(Units) /\ Append(i, Head(t)) = i \o h
  BY <1>1, AppendIsConcat
<1>3. h \o Tail(t) = t
  <2>1. h = << t[1] >> /\ Tail(t) = SubSeq(t, 2, Len(t)) /\ SubSeq(t, 1, Len(t)) = t
    BY TailIsSubSeq, SubSeqFull
  <2>2. SubSeq(t, 1, Len(t)) = << t[1] >> \o SubSeq(t, 1 + 1, Len(t))
    BY <1>1, SubSeqRecursiveFirst
  <2> QED
    BY <2>1, <2>2
<1> HIDE DEF h
<1>4. g \o (i \o h) = (g \o i) \o h /\ g \o i \in Seq(Units)
  <2>1. g \o i \in Seq(Units)
    BY ConcatUnits
  <2> QED
    BY <1>2, <2>1, Regroup, Zenon
<1>5. ((g \o i) \o h) \o Tail(t) = (g \o i) \o (h \o Tail(t))
  <2> DEFINE e == g \o i
             u == Tail(t)
  <2>1. e \in Seq(Units) /\ u \in Seq(Units) /\ h \in Seq(Units)
    BY <1>1, <1>2, <1>4
  <2> HIDE DEF e, u
  <2>2. (e \o h) \o u = e \o (h \o u)
    BY <2>1, Regroup, SMTT(30)
  <2> QED
    BY <2>2 DEF e, u
<1> QED
  BY <1>1, <1>2, <1>3, <1>4, <1>5

-----------------------------------------------------------------------------
LEMMA ServerInit == Init => IInv
<1> SUFFICES ASSUME Init PROVE IInv
  OBVIOUS
<1> USE DEF Init
<1>1. TypeOK
  <2>1. << >> \in Seq(0 .. MaxFd) /\ << >> \in Seq(Units) /\ << >> \in Seq(Clients) /\ Len(<< >>) = 0
    BY EmptySeq
  <2>2. 0 \in 0 .. MaxFd
    BY LimitsAssumption
  <2>3. /\ inbox \in [Clients -> Seq(Units)] /\ todo \in [Clients -> Seq(Units)]
        /\ fdOf \in [Clients -> 0 .. MaxFd] /\ client \in [Clients -> {"off", "on", "left"}]
    BY <2>1, <2>2
  <2>4. want \in 1 .. 2 /\ Len(got) <= want
    BY <2>1
  <2> QED
    BY <2>1, <2>2, <2>3, <2>4, Zenon DEF TypeOK
<1>2. LoggedWhole
  BY DEF LoggedWhole
<1>3. ClientsApart
  BY FS_EmptySet DEF ClientsApart
<1>4. Aligned
  <2>1. \A c \in Clients : Stream(c) = << >>
    BY DEF Stream, Reading
  <2> QED
    BY <2>1 DEF Aligned, Packets, Reading
<1>5. EventsFit
  BY DEF EventsFit, Reading
<1> QED
  BY <1>1, <1>2, <1>3, <1>4, <1>5 DEF IInv

LEMMA ServerStutters == IInv /\ UNCHANGED vars => IInv'
<1> SUFFICES ASSUME IInv, UNCHANGED vars PROVE IInv'
  OBVIOUS
<1> USE DEF IInv, vars, loopVars, netVars
<1>1. TypeOK'
  BY DEF TypeOK
<1>2. LoggedWhole'
  BY DEF LoggedWhole, Holder
<1>3. ClientsApart'
  BY DEF ClientsApart
<1>4. Aligned'
  BY DEF Aligned, Stream, Part, Holder, Reading
<1>5. EventsFit'
  BY DEF EventsFit, Lone, Holder, Reading
<1> QED
  BY <1>1, <1>2, <1>3, <1>4, <1>5

-----------------------------------------------------------------------------
(* Types.                                                                  *)

(* What is ready to be dealt with are descriptors, finitely many. *)
LEMMA ReadyIsFinite ==
  ASSUME TypeOK, NEW S, S \subseteq Ready
  PROVE  S \subseteq 0 .. MaxFd /\ Cardinality(S) \in Nat
<1>1. Ready \subseteq 0 .. MaxFd
  BY LimitsAssumption DEF Ready, TypeOK
<1>2. IsFiniteSet(0 .. MaxFd)
  BY LimitsAssumption, FS_Interval
<1>3. IsFiniteSet(S)
  BY <1>1, <1>2, FS_Subset
<1> QED
  BY <1>1, <1>3, FS_CardinalityType

LEMMA FunctionIsSeq ==
  ASSUME NEW n \in Nat, NEW S, NEW T, S \subseteq T, NEW f \in [1 .. n -> S]
  PROVE  f \in Seq(T)
<1>1. f \in [1 .. n -> T]
  OBVIOUS
<1> QED
  BY <1>1

(* What epoll_wait() gives: each event that is ready at most once. *)
LEMMA WaitShape ==
  ASSUME TypeOK, Wait
  PROVE  /\ events' \in Seq(0 .. MaxFd)
         /\ \A i \in DOMAIN events' : events'[i] \in Ready
         /\ \A i, j \in DOMAIN events' : events'[i] = events'[j] => i = j
<1>1. PICK S \in SUBSET Ready : events' \in SetToSeqs(S)
  BY DEF Wait
<1> DEFINE n == Cardinality(S)
<1>2. S \subseteq 0 .. MaxFd /\ n \in Nat
  BY ReadyIsFinite
<1>3. events' \in [1 .. n -> S] /\ \A i, j \in 1 .. n : i # j => events'[i] # events'[j]
  BY <1>1 DEF SetToSeqs
<1> HIDE DEF n
<1>4. events' \in Seq(0 .. MaxFd)
  BY <1>2, <1>3, FunctionIsSeq
<1>5. DOMAIN events' = 1 .. n
  BY <1>3
<1> QED
  BY <1>3, <1>4, <1>5

(* What is left of the events after the first. *)
LEMMA TailShape ==
  ASSUME NEW S, NEW q \in Seq(S), q # << >>
  PROVE  /\ Tail(q) \in Seq(S) /\ Head(q) \in S /\ Head(q) = q[1] /\ 1 \in DOMAIN q
         /\ \A i \in DOMAIN Tail(q) :
              i + 1 \in DOMAIN q /\ i + 1 # 1 /\ Tail(q)[i] = q[i + 1] /\ i \in Nat
<1>1. Tail(q) \in Seq(S) /\ Head(q) \in S /\ Len(Tail(q)) = Len(q) - 1
  BY HeadTailProperties
<1>2. \A i \in 1 .. Len(Tail(q)) : Tail(q)[i] = q[i + 1]
  BY HeadTailProperties
<1>3. Len(q) \in Nat /\ Len(q) >= 1 /\ DOMAIN q = 1 .. Len(q) /\ DOMAIN Tail(q) = 1 .. Len(Tail(q))
  BY <1>1, EmptySeq, LenProperties
<1> QED
  BY <1>1, <1>2, <1>3

(* A recv() takes at most what there is. *)
LEMMA RecvShape ==
  ASSUME TypeOK, RecvSome
  PROVE  \E c \in Holder(last) : \E n \in 1 .. Len(inbox[c]) :
           /\ c \in Clients /\ inbox[c] \in Seq(Units) /\ Len(got) + n <= want
           /\ got' = got \o SubSeq(inbox[c], 1, n) /\ Len(got') = Len(got) + n
           /\ got' \in Seq(Units)
           /\ inbox' = [inbox EXCEPT ![c] = SubSeq(inbox[c], n + 1, Len(inbox[c]))]
           /\ SubSeq(inbox[c], n + 1, Len(inbox[c])) \in Seq(Units)
<1>1. PICK c \in Holder(last) : \E n \in 1 .. Len(inbox[c]) :
        /\ Len(got) + n <= want
        /\ got' = got \o SubSeq(inbox[c], 1, n)
        /\ inbox' = [inbox EXCEPT ![c] = SubSeq(inbox[c], n + 1, Len(inbox[c]))]
  BY DEF RecvSome
<1>n. PICK n \in 1 .. Len(inbox[c]) :
        /\ Len(got) + n <= want
        /\ got' = got \o SubSeq(inbox[c], 1, n)
        /\ inbox' = [inbox EXCEPT ![c] = SubSeq(inbox[c], n + 1, Len(inbox[c]))]
  BY <1>1
<1>2. c \in Clients /\ inbox[c] \in Seq(Units) /\ got \in Seq(Units)
  BY DEF TypeOK, Holder
<1> DEFINE a == SubSeq(inbox[c], 1, n)
           b == SubSeq(inbox[c], n + 1, Len(inbox[c]))
<1>3. a \in Seq(Units) /\ Len(a) = n /\ b \in Seq(Units)
  BY <1>2, TakeFront
<1> HIDE DEF a, b
<1>4. got \o a \in Seq(Units) /\ Len(got \o a) = Len(got) + Len(a)
  BY <1>2, <1>3, ConcatUnits
<1> QED
  BY <1>n, <1>2, <1>3, <1>4 DEF a, b

LEMMA ServerTypes == TypeOK /\ EventsFit /\ Next => TypeOK'
<1> SUFFICES ASSUME TypeOK, EventsFit, Next PROVE TypeOK'
  OBVIOUS
<1> USE DEF loopVars, netVars
<1>1. ASSUME NEW c \in Clients, Connect(c) PROVE TypeOK'
  <2>1. PICK plan \in Plans : todo' = [todo EXCEPT ![c] = plan]
    BY <1>1 DEF Connect
  <2>2. todo' \in [Clients -> Seq(Units)]
    BY <2>1, PlansAssumption DEF TypeOK
  <2>3. backlog' \in Seq(Clients)
    BY <1>1, AppendProperties DEF TypeOK, Connect
  <2> QED
    BY <1>1, <2>2, <2>3 DEF TypeOK, Connect
<1>2. ASSUME NEW c \in Clients, Send(c) PROVE TypeOK'
  <2>1. inbox[c] \in Seq(Units) /\ todo[c] \in Seq(Units) /\ todo[c] # << >>
    BY <1>2 DEF TypeOK, Send
  <2>2. Append(inbox[c], Head(todo[c])) \in Seq(Units) /\ Tail(todo[c]) \in Seq(Units)
    BY <2>1, HeadTailProperties, AppendProperties
  <2>3. inbox' \in [Clients -> Seq(Units)] /\ todo' \in [Clients -> Seq(Units)]
    BY <1>2, <2>2 DEF TypeOK, Send
  <2> QED
    BY <1>2, <2>3 DEF TypeOK, Send
<1>3. ASSUME NEW c \in Clients, Leave(c) PROVE TypeOK'
  BY <1>3 DEF TypeOK, Leave
<1>4. ASSUME Interrupt PROVE TypeOK'
  BY <1>4 DEF TypeOK, Interrupt
<1>5. ASSUME Check PROVE TypeOK'
  BY <1>5 DEF TypeOK, Check
<1>6. ASSUME Wait PROVE TypeOK'
  BY <1>6, WaitShape DEF TypeOK, Wait
<1>7. ASSUME WaitEnds PROVE TypeOK'
  BY <1>7 DEF TypeOK, WaitEnds
<1>8. ASSUME BatchEnds PROVE TypeOK'
  BY <1>8 DEF TypeOK, BatchEnds
<1>9. ASSUME Accept PROVE TypeOK'
  <2>1. events # << >> /\ events[1] = 0 /\ 1 \in DOMAIN events /\ events' \in Seq(0 .. MaxFd)
    BY <1>9, TailShape DEF Accept, NextEvents, TypeOK
  <2>2. backlog # << >>
    BY <1>9, <2>1 DEF EventsFit, Accept
  <2>3. Head(backlog) \in Clients /\ Tail(backlog) \in Seq(Clients)
    BY <2>2, HeadTailProperties DEF TypeOK
  <2>4. ASSUME FreeFds # {} PROVE TypeOK'
    <3>1. PICK f \in FreeFds :
            /\ fdOf' = [fdOf EXCEPT ![Head(backlog)] = f]
            /\ last' = f /\ backlog' = Tail(backlog)
            /\ seen' = seen \cup {Head(backlog)}
      BY <1>9, <2>4 DEF Accept
    <3>2. f \in 0 .. MaxFd
      BY LimitsAssumption DEF FreeFds
    <3> QED
      BY <1>9, <2>1, <2>3, <3>1, <3>2 DEF TypeOK, Accept
  <2>5. ASSUME FreeFds = {} PROVE TypeOK'
    BY <1>9, <2>1, <2>5 DEF TypeOK, Accept
  <2> QED
    BY <2>4, <2>5
<1>10. ASSUME Dispatch PROVE TypeOK'
  <2>1. events' \in Seq(0 .. MaxFd)
    BY <1>10, TailShape DEF Dispatch, NextEvents, TypeOK
  <2> QED
    BY <1>10, <2>1, EmptySeq DEF TypeOK, Dispatch
<1>11. ASSUME RecvSome PROVE TypeOK'
  <2>1. PICK c \in Holder(last) : \E n \in 1 .. Len(inbox[c]) :
          /\ c \in Clients /\ Len(got) + n <= want /\ Len(got') = Len(got) + n
          /\ got' \in Seq(Units)
          /\ inbox' = [inbox EXCEPT ![c] = SubSeq(inbox[c], n + 1, Len(inbox[c]))]
          /\ SubSeq(inbox[c], n + 1, Len(inbox[c])) \in Seq(Units)
    BY <1>11, RecvShape
  <2>2. inbox' \in [Clients -> Seq(Units)] /\ Len(got') <= want
    BY <2>1 DEF TypeOK
  <2> QED
    BY <1>11, <2>1, <2>2 DEF TypeOK, RecvSome
<1>12. ASSUME HeaderEnds PROVE TypeOK'
  <2>1. PICK c \in Holder(last) : fdOf' = [fdOf EXCEPT ![c] = 0]
    BY <1>12 DEF HeaderEnds
  <2>2. fdOf' \in [Clients -> 0 .. MaxFd]
    <3>1. 0 \in 0 .. MaxFd /\ fdOf \in [Clients -> 0 .. MaxFd]
      BY LimitsAssumption DEF TypeOK
    <3> QED
      BY <2>1, <3>1
  <2>3. pc' = "batch" /\ UNCHANGED <<up, keep, events, last, got, want, log, locked, backlog, inbox, todo, client, seen, astray>>
    BY <1>12, Zenon DEF HeaderEnds
  <2> QED
    BY <2>2, <2>3 DEF TypeOK
<1>13. ASSUME HeaderSpins PROVE TypeOK'
  BY <1>13 DEF TypeOK, HeaderSpins
<1>14. ASSUME HeaderAlone PROVE TypeOK'
  BY <1>14 DEF TypeOK, HeaderAlone, LeftUnread, Holder
<1>15. ASSUME HeaderAllocates PROVE TypeOK'
  <2>1. PICK n \in Announced(got) \ {0} :
          \/ pc' = "payload" /\ got' = << >> /\ want' = n /\ UNCHANGED <<up, locked, astray>>
          \/ /\ pc' = "batch" /\ locked' = TRUE /\ astray' = astray \cup Holder(last)
             /\ UNCHANGED <<up, got, want>>
          \/ up' = "stuck" /\ UNCHANGED <<pc, got, want, locked, astray>>
    BY <1>15, Zenon DEF HeaderAllocates
  <2>2. UNCHANGED <<keep, events, last, log, backlog, fdOf, inbox, todo, client, seen>>
    BY <1>15, Zenon DEF HeaderAllocates
  <2>3. ASSUME pc' = "payload", got' = << >>, want' = n, UNCHANGED <<up, locked, astray>> PROVE TypeOK'
    <3>1. n \in 1 .. 2
      BY HeaderSays
    <3>2. << >> \in Seq(Units) /\ Len(<< >>) = 0
      BY EmptySeq
    <3> QED
      BY <2>2, <2>3, <3>1, <3>2 DEF TypeOK
  <2>4. ASSUME pc' = "batch", locked' = TRUE, astray' = astray \cup Holder(last), UNCHANGED <<up, got, want>>
        PROVE  TypeOK'
    BY <2>2, <2>4 DEF TypeOK, Holder
  <2>5. ASSUME up' = "stuck", UNCHANGED <<pc, got, want, locked, astray>> PROVE TypeOK'
    BY <2>2, <2>5 DEF TypeOK
  <2> QED
    BY <2>1, <2>3, <2>4, <2>5
<1>16. ASSUME PayloadEnds PROVE TypeOK'
  BY <1>16 DEF TypeOK, PayloadEnds, Logged
<1> QED
  BY <1>1, <1>2, <1>3, <1>4, <1>5, <1>6, <1>7, <1>8, <1>9, <1>10, <1>11, <1>12,
     <1>13, <1>14, <1>15, <1>16 DEF Next, Serve

-----------------------------------------------------------------------------
(* Whose packets are whose.                                                *)

LEMMA ClientsStayApart == IInv /\ Next => ClientsApart'
<1> SUFFICES ASSUME IInv, Next PROVE ClientsApart'
  OBVIOUS
<1> USE DEF loopVars, netVars
<1>0. TypeOK /\ ClientsApart /\ EventsFit
  BY DEF IInv
<1>1. ASSUME NEW c \in Clients, Connect(c) PROVE ClientsApart'
  <2>1. /\ client[c] = "off" /\ client' = [client EXCEPT ![c] = "on"]
        /\ backlog' = Append(backlog, c) /\ UNCHANGED <<fdOf, inbox, seen>>
    BY <1>1 DEF Connect
  <2>2. PICK plan \in Plans : todo' = [todo EXCEPT ![c] = plan]
    BY <1>1 DEF Connect
  <2>3. c \notin seen /\ \A i \in DOMAIN backlog : backlog[i] # c /\ backlog[i] \in Clients
    BY <1>0, <2>1, LenProperties, ElementOfSeq DEF ClientsApart, TypeOK
  <2>4. \A i \in DOMAIN backlog' : \/ i \in DOMAIN backlog /\ backlog'[i] = backlog[i]
                                   \/ i = Len(backlog) + 1 /\ backlog'[i] = c
    <3>1. backlog \in Seq(Clients)
      BY <1>0 DEF TypeOK
    <3>2. /\ Len(backlog) \in Nat /\ DOMAIN backlog = 1 .. Len(backlog)
          /\ DOMAIN backlog' = 1 .. Len(backlog) + 1
          /\ \A i \in 1 .. Len(backlog) : backlog'[i] = backlog[i]
          /\ backlog'[Len(backlog) + 1] = c
      BY <2>1, <3>1, LenProperties, AppendProperties
    <3> QED
      BY <3>2
  <2>5. \A d \in Clients : d # c => client'[d] = client[d] /\ todo'[d] = todo[d]
    BY <1>0, <2>1, <2>2 DEF TypeOK
  <2>6. client'[c] = "on"
    BY <1>0, <2>1 DEF TypeOK
  <2>7. \A i \in DOMAIN backlog' : backlog'[i] \notin seen' /\ client'[backlog'[i]] # "off"
    BY <1>0, <2>1, <2>3, <2>4, <2>5, <2>6 DEF ClientsApart
  <2>8. \A i, j \in DOMAIN backlog' : backlog'[i] = backlog'[j] => i = j
    BY <1>0, <2>3, <2>4 DEF ClientsApart
  <2>9. \A d \in Clients : client'[d] = "off" =>
          d \notin seen' /\ inbox'[d] = << >> /\ todo'[d] = << >>
    BY <1>0, <2>1, <2>5, <2>6 DEF ClientsApart
  <2> QED
    BY <1>0, <2>1, <2>7, <2>8, <2>9 DEF ClientsApart
<1>2. ASSUME NEW c \in Clients, Send(c) PROVE ClientsApart'
  <2>1. /\ client[c] = "on" /\ UNCHANGED <<backlog, fdOf, client, seen>>
        /\ \A d \in Clients : d # c => inbox'[d] = inbox[d] /\ todo'[d] = todo[d]
    BY <1>0, <1>2 DEF Send, TypeOK
  <2>2. \A d \in Clients : client'[d] = "off" =>
          d \notin seen' /\ inbox'[d] = << >> /\ todo'[d] = << >>
    BY <1>0, <2>1 DEF ClientsApart
  <2> QED
    BY <1>0, <2>1, <2>2 DEF ClientsApart
<1>3. ASSUME NEW c \in Clients, Leave(c) PROVE ClientsApart'
  <2>1. /\ client[c] = "on" /\ UNCHANGED <<backlog, fdOf, inbox, todo, seen>>
        /\ client' = [client EXCEPT ![c] = "left"]
    BY <1>3 DEF Leave
  <2>2. \A d \in Clients : client'[d] = "off" <=> client[d] = "off"
    BY <1>0, <2>1 DEF TypeOK
  <2>3. \A i \in DOMAIN backlog : backlog[i] \in Clients
    BY <1>0, LenProperties, ElementOfSeq DEF TypeOK
  <2> QED
    BY <1>0, <2>1, <2>2, <2>3 DEF ClientsApart
<1>4. ASSUME Accept PROVE ClientsApart'
  <2>1. events # << >> /\ events[1] = 0 /\ 1 \in DOMAIN events
    BY <1>0, <1>4, TailShape DEF Accept, TypeOK
  <2>2. backlog # << >>
    BY <1>0, <1>4, <2>1 DEF EventsFit, Accept
  <2> DEFINE c == Head(backlog)
  <2>3. c \in Clients /\ c = backlog[1] /\ 1 \in DOMAIN backlog
    BY <1>0, <2>2, TailShape DEF TypeOK
  <2>4. c \notin seen /\ client[c] # "off"
    BY <1>0, <2>3 DEF ClientsApart
  <2>5. ASSUME FreeFds # {} PROVE ClientsApart'
    <3>1. PICK f \in FreeFds : /\ fdOf' = [fdOf EXCEPT ![c] = f]
                              /\ backlog' = Tail(backlog) /\ seen' = seen \cup {c}
      BY <1>4, <2>5 DEF Accept
    <3>2. UNCHANGED <<inbox, todo, client>>
      BY <1>4 DEF Accept
    <3>3. f # 0 /\ \A d \in Clients : fdOf[d] # f
      BY LimitsAssumption DEF FreeFds, Holder
    <3>4. fdOf'[c] = f /\ \A d \in Clients : d # c => fdOf'[d] = fdOf[d]
      BY <1>0, <2>3, <3>1 DEF TypeOK
    <3>5. \A a, b \in Clients : fdOf'[a] # 0 /\ fdOf'[a] = fdOf'[b] => a = b
      BY <1>0, <3>3, <3>4 DEF ClientsApart
    <3>6. \A i \in DOMAIN backlog' : /\ i + 1 \in DOMAIN backlog /\ i + 1 # 1 /\ i \in Nat
                                     /\ backlog'[i] = backlog[i + 1]
      BY <1>0, <2>2, <3>1, TailShape DEF TypeOK
    <3>7. \A i \in DOMAIN backlog' : backlog'[i] \notin seen' /\ client'[backlog'[i]] # "off"
      BY <1>0, <2>3, <3>1, <3>2, <3>6 DEF ClientsApart
    <3>8. ASSUME NEW i \in DOMAIN backlog', NEW j \in DOMAIN backlog', backlog'[i] = backlog'[j] PROVE i = j
      <4>1. i + 1 = j + 1
        BY <1>0, <3>6, <3>8 DEF ClientsApart
      <4> QED
        BY <3>6, <4>1
    <3>9. IsFiniteSet(seen')
      BY <1>0, <3>1, FS_AddElement DEF ClientsApart
    <3>10. \A d \in Clients : fdOf'[d] # 0 => d \in seen'
      BY <1>0, <3>1, <3>4 DEF ClientsApart
    <3>11. \A d \in Clients : client'[d] = "off" =>
             d \notin seen' /\ inbox'[d] = << >> /\ todo'[d] = << >>
      BY <1>0, <2>4, <3>1, <3>2 DEF ClientsApart
    <3> QED
      BY <3>5, <3>7, <3>8, <3>9, <3>10, <3>11 DEF ClientsApart
  <2>6. ASSUME FreeFds = {} PROVE ClientsApart'
    BY <1>0, <1>4, <2>6 DEF ClientsApart, Accept
  <2> QED
    BY <2>5, <2>6
<1>5. ASSUME RecvSome PROVE ClientsApart'
  <2>1. PICK c \in Holder(last) : inbox' = [inbox EXCEPT ![c] = inbox'[c]]
    BY <1>0, <1>5, RecvShape DEF TypeOK, Holder
  <2>2. c \in Clients /\ fdOf[c] # 0 /\ UNCHANGED <<backlog, fdOf, todo, client, seen>>
    BY <1>5 DEF RecvSome, Holder
  <2>3. client[c] # "off" /\ \A d \in Clients : d # c => inbox'[d] = inbox[d]
    BY <1>0, <2>1, <2>2 DEF ClientsApart, TypeOK
  <2>4. \A d \in Clients : client'[d] = "off" =>
          d \notin seen' /\ inbox'[d] = << >> /\ todo'[d] = << >>
    BY <1>0, <2>2, <2>3 DEF ClientsApart
  <2> QED
    BY <1>0, <2>2, <2>4 DEF ClientsApart
<1>6. ASSUME HeaderEnds PROVE ClientsApart'
  <2>1. PICK c \in Clients : fdOf' = [fdOf EXCEPT ![c] = 0]
    BY <1>6 DEF HeaderEnds, Holder
  <2>2. UNCHANGED <<backlog, inbox, todo, client, seen>>
    BY <1>6 DEF HeaderEnds
  <2>3. fdOf'[c] = 0 /\ \A d \in Clients : d # c => fdOf'[d] = fdOf[d]
    BY <1>0, <2>1 DEF TypeOK
  <2>4. /\ \A a, b \in Clients : fdOf'[a] # 0 /\ fdOf'[a] = fdOf'[b] => a = b
        /\ \A d \in Clients : fdOf'[d] # 0 => d \in seen'
    BY <1>0, <2>2, <2>3 DEF ClientsApart
  <2> QED
    BY <1>0, <2>2, <2>4 DEF ClientsApart
<1>7. ASSUME UNCHANGED <<backlog, fdOf, inbox, todo, client, seen>> PROVE ClientsApart'
  BY <1>0, <1>7 DEF ClientsApart
<1> QED
  BY <1>1, <1>2, <1>3, <1>4, <1>5, <1>6, <1>7 DEF Next, Serve, Check, Wait, WaitEnds, BatchEnds, Dispatch,
     Interrupt, HeaderSpins, HeaderAlone, HeaderAllocates, PayloadEnds

-----------------------------------------------------------------------------
(* Whole packets.                                                          *)

(* A stream, with the client whose packet is in hand and without. *)
LEMMA StreamShape ==
  ASSUME TypeOK, NEW c \in Clients
  PROVE  /\ inbox[c] \in Seq(Units) /\ todo[c] \in Seq(Units) /\ got \in Seq(Units)
         /\ inbox[c] \o todo[c] \in Seq(Units)
         /\ Reading /\ c \in Holder(last) => Stream(c) = got \o (inbox[c] \o todo[c])
         /\ ~Reading \/ c \notin Holder(last) =>
              Stream(c) = inbox[c] \o todo[c] /\ Part(c) = Magics
<1>1. inbox[c] \in Seq(Units) /\ todo[c] \in Seq(Units) /\ got \in Seq(Units)
  BY DEF TypeOK
<1>2. inbox[c] \o todo[c] \in Seq(Units)
  BY <1>1, ConcatUnits
<1>3. << >> \o inbox[c] = inbox[c]
  BY <1>1, ConcatUnits
<1>4. got \o inbox[c] \o todo[c] = got \o (inbox[c] \o todo[c])
  BY <1>1, Regroup
<1>5. Reading /\ c \in Holder(last) => Stream(c) = got \o (inbox[c] \o todo[c])
  BY <1>4 DEF Stream
<1>6. ~Reading \/ c \notin Holder(last) =>
              Stream(c) = inbox[c] \o todo[c] /\ Part(c) = Magics
  BY <1>3 DEF Stream, Part, Reading
<1> QED
  BY <1>1, <1>2, <1>5, <1>6

(* The header in hand of a client that has kept in step is one, and what   *)
(* it says, or the next header, follows.                                   *)
LEMMA InHand ==
  ASSUME IInv, up = "loop", pc = "header", AllGot, NEW c \in Holder(last), c \notin astray
  PROVE  /\ c \in Clients /\ fdOf[c] # 0
         /\ got[1] \in Magics /\ got[2] \in {"none", "half", "full"}
         /\ Packets(inbox[c] \o todo[c], After[got[2]])
<1>1. c \in Clients /\ fdOf[c] # 0 /\ TypeOK /\ Len(got) = 2 /\ Reading
  BY DEF Holder, IInv, AllGot, Aligned, Reading
<1>2. Packets(Stream(c), Part(c)) /\ Part(c) = Magics
  BY <1>1 DEF IInv, Aligned, Part
<1>3. Packets(got \o (inbox[c] \o todo[c]), Magics)
  BY <1>1, <1>2, StreamShape
<1>4. got \in Seq(Units) /\ inbox[c] \o todo[c] \in Seq(Units)
  BY <1>1, StreamShape
<1>5. got[1] \in Magics /\ got[2] \in After[got[1]] /\ Packets(inbox[c] \o todo[c], After[got[2]])
  BY <1>1, <1>3, <1>4, FrontOfPackets
<1> QED
  BY <1>1, <1>5, AfterUnits

(* A payload is what its header has said. *)
WholePayload == IF want = 2 THEN << "data", "rest" >> ELSE << "rest" >>

LEMMA PayloadInHand ==
  ASSUME IInv, up = "loop", pc = "payload", AllGot, NEW c \in Holder(last), c \notin astray
  PROVE  got = WholePayload
<1>1. c \in Clients /\ fdOf[c] # 0 /\ TypeOK /\ Len(got) = want /\ Reading /\ want \in {1, 2}
  BY DEF Holder, IInv, AllGot, Reading, TypeOK
<1>2. Packets(Stream(c), Part(c)) /\ Part(c) = (IF want = 2 THEN {"data"} ELSE {"rest"})
  BY <1>1 DEF IInv, Aligned, Part
<1>3. Packets(got \o (inbox[c] \o todo[c]), Part(c))
  BY <1>1, <1>2, StreamShape
<1>4. got \in Seq(Units) /\ inbox[c] \o todo[c] \in Seq(Units)
  BY <1>1, StreamShape
<1>5. CASE want = 2
  <2>1. got[1] = "data" /\ got[2] \in After["data"]
    BY <1>1, <1>2, <1>3, <1>4, <1>5, FrontOfPackets
  <2>2. got[1] = "data" /\ got[2] = "rest"
    BY <2>1, AfterUnits
  <2>3. << "data", "rest" >> \in Seq(Units) /\ Len(<< "data", "rest" >>) = 2
    BY DEF Units
  <2>4. \A i \in 1 .. 2 : got[i] = << "data", "rest" >>[i]
    BY <2>2
  <2>5. got = << "data", "rest" >>
    BY <1>1, <1>4, <1>5, <2>3, <2>4, SeqEqual
  <2>6. WholePayload = << "data", "rest" >>
    BY <1>5, Zenon DEF WholePayload
  <2> QED
    BY <2>5, <2>6, Zenon
<1>6. CASE want = 1
  <2> DEFINE more == inbox[c] \o todo[c]
  <2>0. Len(got) >= 1 /\ more \in Seq(Units) /\ Packets(got \o more, {"rest"})
    BY <1>1, <1>2, <1>3, <1>4, <1>6
  <2> HIDE DEF more
  <2>1. got[1] \in {"rest"}
    BY <1>4, <2>0, FirstOfPackets
  <2>2. got[1] = "rest"
    BY <2>1
  <2>3. << "rest" >> \in Seq(Units) /\ Len(<< "rest" >>) = 1
    BY DEF Units
  <2>4. \A i \in 1 .. 1 : got[i] = << "rest" >>[i]
    BY <2>2
  <2>5. got = << "rest" >>
    BY <1>1, <1>4, <1>6, <2>3, <2>4, SeqEqual
  <2> QED
    BY <1>6, <2>5 DEF WholePayload
<1> QED
  BY <1>1, <1>5, <1>6

(* There is one client whose packet is in hand. *)
LEMMA OneHolder ==
  ASSUME IInv, Reading, got # << >>
  PROVE  \E c \in Clients : Holder(last) = {c} /\ fdOf[c] = last /\ last # 0
<1>1. PICK c \in Holder(last) : TRUE
  BY DEF IInv, Aligned
<1> QED
  BY <1>1 DEF IInv, ClientsApart, Holder

LEMMA PayloadIsWhole == IInv /\ Next => LoggedWhole'
<1> SUFFICES ASSUME IInv, Next PROVE LoggedWhole'
  OBVIOUS
<1> USE DEF loopVars, netVars
<1>1. ASSUME PayloadEnds PROVE LoggedWhole'
  <2>1. /\ up = "loop" /\ pc = "payload" /\ log' = Logged
        /\ UNCHANGED <<want, last, fdOf, astray>>
    BY <1>1 DEF PayloadEnds
  <2>2. log = << >> /\ Reading
    BY <2>1 DEF IInv, Aligned, Reading
  <2>3. PICK c \in Holder(last) : TRUE
    BY <2>1, <2>2 DEF IInv, Aligned
  <2>4. AllGot => got = WholePayload \/ c \in astray
    BY <2>1, <2>3, PayloadInHand
  <2>5. Holder(last)' = Holder(last)
    BY <2>1 DEF Holder
  <2>6. log' # << >> => log' = WholePayload \/ Holder(last) \cap astray # {}
    BY <2>1, <2>2, <2>3, <2>4 DEF Logged
  <2> QED
    BY <2>1, <2>5, <2>6 DEF LoggedWhole, WholePayload
<1>2. ASSUME UNCHANGED log, up = "loop" PROVE LoggedWhole'
  BY <1>2 DEF IInv, LoggedWhole, Aligned
<1>3. ASSUME UNCHANGED <<log, want, last, fdOf, astray>> PROVE LoggedWhole'
  BY <1>3 DEF IInv, LoggedWhole, Holder
<1>4. ASSUME Serve PROVE LoggedWhole'
  BY <1>1, <1>2, <1>4 DEF Serve, Check, Wait, WaitEnds, BatchEnds, Accept, Dispatch, RecvSome,
     HeaderEnds, HeaderSpins, HeaderAlone, HeaderAllocates
<1>5. ASSUME NEW c \in Clients, Connect(c) \/ Send(c) \/ Leave(c) PROVE LoggedWhole'
  BY <1>3, <1>5 DEF Connect, Send, Leave
<1>6. ASSUME Interrupt PROVE LoggedWhole'
  BY <1>3, <1>6 DEF Interrupt
<1> QED
  BY <1>4, <1>5, <1>6 DEF Next

(* What keeps the streams aligned, from step to step. *)
LEMMA StillAligned ==
  ASSUME IInv, TypeOK',
         up' = "loop" => up = "loop" /\ log' = << >>,
         astray \subseteq astray', astray' \subseteq seen',
         pc' = "header" => want' = 2,
         Reading' /\ (pc' = "payload" \/ got' # << >>) => Holder(last)' # {},
         up' = "loop" =>
           \A c \in Clients \ astray' :
             fdOf'[c] # 0 \/ c \notin seen' =>
               \/ /\ fdOf[c] # 0 \/ c \notin seen
                  /\ Stream(c)' = Stream(c) /\ Part(c)' = Part(c)
               \/ Packets(Stream(c), Part(c))'
  PROVE  Aligned'
<1>1. ASSUME up' = "loop", NEW c \in Clients \ astray', fdOf'[c] # 0 \/ c \notin seen'
      PROVE  Packets(Stream(c), Part(c))'
  <2>1. c \in Clients \ astray
    OBVIOUS
  <2>2. fdOf[c] # 0 \/ c \notin seen => Packets(Stream(c), Part(c))
    BY <1>1, <2>1 DEF IInv, Aligned
  <2> QED
    BY <1>1, <2>2 DEF Packets
<1> QED
  BY <1>1 DEF Aligned

LEMMA StreamsStayAligned == IInv /\ Next /\ TypeOK' => Aligned'
<1> SUFFICES ASSUME IInv, Next, TypeOK' PROVE Aligned'
  OBVIOUS
<1> USE DEF loopVars, netVars
<1>0. TypeOK /\ ClientsApart /\ Aligned
  BY DEF IInv
<1>1. ASSUME NEW c \in Clients, Connect(c) PROVE Aligned'
  <2>1. /\ client[c] = "off" /\ UNCHANGED <<up, pc, got, want, log, last, astray, fdOf, inbox, seen>>
    BY <1>1 DEF Connect
  <2>2. PICK plan \in Plans : todo' = [todo EXCEPT ![c] = plan]
    BY <1>1 DEF Connect
  <2>3. fdOf[c] = 0 /\ inbox[c] = << >>
    BY <1>0, <2>1 DEF ClientsApart
  <2>4. plan \in Seq(Units) /\ Packets(plan, Magics)
    BY PlansAssumption
  <2>5. todo'[c] = plan /\ \A d \in Clients : d # c => todo'[d] = todo[d]
    BY <1>0, <2>2 DEF TypeOK
  <2>6. Stream(c)' = plan /\ Part(c)' = Magics
    BY <2>1, <2>3, <2>4, <2>5, ConcatUnits, ConcatEmptySeq DEF Stream, Part, Holder
  <2>7. \A d \in Clients : d # c => Stream(d)' = Stream(d) /\ Part(d)' = Part(d)
    BY <2>1, <2>5 DEF Stream, Part, Holder, Reading
  <2> QED
    BY <1>0, <2>1, <2>4, <2>6, <2>7, StillAligned DEF Aligned, Packets, Reading, Holder
<1>2. ASSUME NEW c \in Clients, Send(c) PROVE Aligned'
  <2>1. /\ UNCHANGED <<up, pc, got, want, log, last, astray, fdOf, seen>> /\ todo[c] # << >>
        /\ \A d \in Clients : d # c => inbox'[d] = inbox[d] /\ todo'[d] = todo[d]
        /\ inbox'[c] = Append(inbox[c], Head(todo[c])) /\ todo'[c] = Tail(todo[c])
    BY <1>0, <1>2 DEF Send, TypeOK
  <2>2. inbox[c] \in Seq(Units) /\ todo[c] \in Seq(Units) /\ got \in Seq(Units) /\ << >> \in Seq(Units)
    BY <1>0, EmptySeq DEF TypeOK
  <2>3. /\ got \o Append(inbox[c], Head(todo[c])) \o Tail(todo[c]) = got \o inbox[c] \o todo[c]
        /\ << >> \o Append(inbox[c], Head(todo[c])) \o Tail(todo[c]) = << >> \o inbox[c] \o todo[c]
    <3> DEFINE i == inbox[c]
               t == todo[c]
               e == << >>
    <3>1. i \in Seq(Units) /\ t \in Seq(Units) /\ e \in Seq(Units) /\ t # << >>
      BY <2>1, <2>2
    <3> HIDE DEF i, t, e
    <3>2. got \in Seq(Units)
      BY <2>2
    <3>3. got \o Append(i, Head(t)) \o Tail(t) = got \o i \o t
      BY <3>1, <3>2, MoveUnit
    <3>4. e \o Append(i, Head(t)) \o Tail(t) = e \o i \o t
      BY <3>1, MoveUnit
    <3> QED
      BY <3>3, <3>4 DEF i, t, e
  <2>4. Stream(c)' = Stream(c) /\ Part(c)' = Part(c)
    BY <2>1, <2>2, <2>3 DEF Stream, Part, Holder, Reading
  <2>5. \A d \in Clients : d # c => Stream(d)' = Stream(d) /\ Part(d)' = Part(d)
    BY <2>1 DEF Stream, Part, Holder, Reading
  <2> QED
    BY <1>0, <2>1, <2>4, <2>5, StillAligned DEF Aligned, Reading, Holder
<1>3. ASSUME UNCHANGED <<pc, got, want, log, last, astray, fdOf, inbox, todo, seen>>,
             up' = "loop" => up = "loop"
      PROVE Aligned'
  <2>1. \A d \in Clients : Stream(d)' = Stream(d) /\ Part(d)' = Part(d)
    BY <1>3 DEF Stream, Part, Holder, Reading
  <2> QED
    BY <1>0, <1>3, <2>1, StillAligned DEF Aligned, Reading, Holder
<1>4. ASSUME UNCHANGED <<got, want, log, last, astray, fdOf, inbox, todo, seen>>,
             up' = "loop" => up = "loop", ~Reading, ~Reading'
      PROVE Aligned'
  <2>1. \A d \in Clients : Stream(d)' = Stream(d) /\ Part(d)' = Part(d)
    BY <1>4 DEF Stream, Part, Reading
  <2>2. pc' # "payload" /\ pc' # "header"
    BY <1>4 DEF Reading
  <2> QED
    BY <1>0, <1>4, <2>1, <2>2, StillAligned DEF Aligned
<1>5. ASSUME Accept PROVE Aligned'
  <2>1. /\ UNCHANGED <<up, pc, got, want, log, inbox, todo, astray>> /\ pc = "batch" /\ up = "loop"
        /\ events # << >> /\ Head(events) = 0
    BY <1>5 DEF Accept
  <2>2. ~Reading /\ ~Reading'
    BY <2>1 DEF Reading
  <2>3. \A d \in Clients : Stream(d)' = Stream(d) /\ Part(d)' = Part(d)
    BY <2>1, <2>2 DEF Stream, Part, Reading
  <2>4. backlog # << >>
    BY <1>0, <2>1, TailShape DEF IInv, EventsFit, TypeOK
  <2>5. Head(backlog) \notin seen
    BY <1>0, <2>4, TailShape DEF ClientsApart, TypeOK
  <2>6. \A d \in Clients : fdOf'[d] # 0 \/ d \notin seen' => fdOf[d] # 0 \/ d \notin seen
    BY <1>0, <1>5, <2>5 DEF Accept, TypeOK
  <2>7. seen \subseteq seen'
    BY <1>5 DEF Accept
  <2>8. pc' = "batch"
    BY <2>1
  <2> QED
    BY <1>0, <2>1, <2>2, <2>3, <2>6, <2>7, <2>8, StillAligned DEF Aligned
<1>6. ASSUME Dispatch PROVE Aligned'
  <2>1. /\ UNCHANGED <<up, last, log, fdOf, inbox, todo, seen, astray>> /\ pc = "batch" /\ pc' = "header"
        /\ got' = << >> /\ want' = 2
    BY <1>6 DEF Dispatch
  <2>2. ASSUME NEW d \in Clients PROVE Stream(d)' = Stream(d) /\ Part(d)' = Part(d)
    BY <2>1 DEF Stream, Part, Reading
  <2> QED
    BY <1>0, <2>1, <2>2, StillAligned DEF Aligned
<1>7. ASSUME RecvSome PROVE Aligned'
  <2>1. PICK c \in Holder(last) : \E n \in 1 .. Len(inbox[c]) :
           /\ got' = got \o SubSeq(inbox[c], 1, n)
           /\ inbox' = [inbox EXCEPT ![c] = SubSeq(inbox[c], n + 1, Len(inbox[c]))]
    BY <1>0, <1>7, RecvShape
  <2>2. /\ c \in Clients /\ fdOf[c] # 0 /\ fdOf[c] = last /\ Reading
        /\ UNCHANGED <<up, pc, want, log, last, fdOf, todo, seen, astray>>
    BY <1>7 DEF RecvSome, Holder, Reading
  <2>3. \A d \in Clients : d \in Holder(last) => d = c
    BY <1>0, <2>2 DEF ClientsApart, Holder
  <2>4. got' \o inbox'[c] \o todo[c] = got \o inbox[c] \o todo[c]
    <3>1. PICK n \in 1 .. Len(inbox[c]) :
           /\ got' = got \o SubSeq(inbox[c], 1, n)
           /\ inbox' = [inbox EXCEPT ![c] = SubSeq(inbox[c], n + 1, Len(inbox[c]))]
      BY <2>1
    <3>2. inbox'[c] = SubSeq(inbox[c], n + 1, Len(inbox[c]))
      BY <1>0, <2>2, <3>1 DEF TypeOK
    <3>3. inbox[c] \in Seq(Units) /\ todo[c] \in Seq(Units) /\ got \in Seq(Units)
      BY <1>0, <2>2 DEF TypeOK
    <3>4. (got \o SubSeq(inbox[c], 1, n)) \o SubSeq(inbox[c], n + 1, Len(inbox[c])) \o todo[c]
            = got \o inbox[c] \o todo[c]
      BY <3>3, TakeFront
    <3> QED
      BY <3>1, <3>2, <3>4
  <2>5. Stream(c)' = Stream(c) /\ Part(c)' = Part(c)
    BY <2>2, <2>4 DEF Stream, Part, Holder, Reading
  <2>6. \A d \in Clients : d # c => inbox'[d] = inbox[d]
    BY <1>0, <2>1, <2>2 DEF TypeOK
  <2>7. ASSUME NEW d \in Clients, d # c PROVE Stream(d)' = Stream(d) /\ Part(d)' = Part(d)
    <3>1. d \notin Holder(last) /\ d \notin Holder(last)'
      BY <2>2, <2>3, <2>7 DEF Holder
    <3> QED
      BY <2>2, <2>6, <2>7, <3>1 DEF Stream, Part
  <2>8. Holder(last)' # {}
    BY <2>2 DEF Holder
  <2> QED
    BY <1>0, <2>2, <2>5, <2>7, <2>8, StillAligned DEF Aligned
<1>8. ASSUME HeaderEnds PROVE Aligned'
  <2>1. PICK c \in Holder(last) : fdOf' = [fdOf EXCEPT ![c] = 0]
    BY <1>8 DEF HeaderEnds
  <2>2. /\ c \in Clients /\ fdOf[c] = last /\ c \in seen /\ ~Reading' /\ pc' = "batch"
        /\ UNCHANGED <<up, got, want, log, last, astray, inbox, todo, seen>> /\ up = "loop"
    BY <1>0, <1>8 DEF HeaderEnds, Holder, Reading, ClientsApart
  <2>3. fdOf'[c] = 0 /\ \A d \in Clients : d # c => fdOf'[d] = fdOf[d] /\ d \notin Holder(last)
    BY <1>0, <2>1, <2>2 DEF TypeOK, ClientsApart, Holder
  <2>4. ASSUME NEW d \in Clients, d # c PROVE Stream(d)' = Stream(d) /\ Part(d)' = Part(d)
    BY <2>2, <2>3, <2>4 DEF Stream, Part
  <2> QED
    BY <1>0, <2>2, <2>3, <2>4, StillAligned DEF Aligned
<1>9. ASSUME HeaderAlone PROVE Aligned'
  <2>1. /\ up = "loop" /\ pc = "header" /\ AllGot /\ 0 \in Announced(got) /\ pc' = "batch"
        /\ UNCHANGED <<up, got, want, log, last, fdOf, inbox, todo, seen>> /\ Reading /\ ~Reading'
        /\ astray' = astray \cup LeftUnread
    BY <1>9 DEF HeaderAlone, Reading
  <2>2. got # << >>
    BY <1>0, <2>1, EmptySeq DEF AllGot, Aligned
  <2>3. PICK c \in Clients : Holder(last) = {c} /\ fdOf[c] # 0
    BY <2>1, <2>2, OneHolder
  <2>4. ASSUME c \notin astray' PROVE Packets(Stream(c), Part(c))'
    <3>1. /\ got[1] \in Magics /\ got[2] \in {"none", "half", "full"}
          /\ Packets(inbox[c] \o todo[c], After[got[2]])
      BY <2>1, <2>3, <2>4, InHand
    <3>2. got[2] = "none"
      <4>1. CASE got[1] = "wrong"
        BY <2>1, <2>3, <2>4, <4>1 DEF LeftUnread
      <4>2. CASE got[1] = "right"
        BY <2>1, <3>1, <4>2, HeaderSays
      <4> QED
        BY <3>1, <4>1, <4>2 DEF Magics
    <3>3. After[got[2]] = Magics
      BY <3>2, AfterUnits
    <3>4. Stream(c)' = inbox[c] \o todo[c] /\ Part(c)' = Magics
      <4>1. << >> \o inbox[c] = inbox[c]
        BY <1>0, ConcatUnits DEF TypeOK
      <4> QED
        BY <2>1, <4>1 DEF Stream, Part
    <3> QED
      BY <3>1, <3>3, <3>4 DEF Packets
  <2>5. \A d \in Clients : d # c => Stream(d)' = Stream(d) /\ Part(d)' = Part(d)
    BY <2>1, <2>3 DEF Stream, Part
  <2>6. astray' \subseteq seen'
    BY <1>0, <2>1, <2>3 DEF LeftUnread, Aligned, ClientsApart
  <2> QED
    BY <1>0, <2>1, <2>4, <2>5, <2>6, StillAligned DEF Aligned
<1>10. ASSUME HeaderAllocates, pc' = "payload" PROVE Aligned'
  <2>1. /\ up = "loop" /\ pc = "header" /\ AllGot /\ got' = << >> /\ want' \in Announced(got) \ {0}
        /\ UNCHANGED <<up, log, last, fdOf, inbox, todo, seen, astray>> /\ Reading /\ Reading'
    BY <1>10 DEF HeaderAllocates, Reading
  <2>2. got # << >>
    BY <1>0, <2>1, EmptySeq DEF AllGot, Aligned
  <2>3. PICK c \in Clients : Holder(last) = {c}
    BY <2>1, <2>2, OneHolder
  <2>4. Holder(last)' = {c}
    BY <2>1, <2>3 DEF Holder
  <2>5. ASSUME c \notin astray PROVE Packets(Stream(c), Part(c))'
    <3>1. /\ got[1] \in Magics /\ got[2] \in {"none", "half", "full"}
          /\ Packets(inbox[c] \o todo[c], After[got[2]])
      BY <2>1, <2>3, <2>5, InHand
    <3>2. got[1] = "right"
      BY <2>1, <3>1, HeaderSays DEF Magics
    <3>3. \/ got[2] = "half" /\ want' = 1
          \/ got[2] = "full" /\ want' = 2
      BY <2>1, <3>1, <3>2, HeaderSays
    <3>4. After[got[2]] = IF want' = 2 THEN {"data"} ELSE {"rest"}
      BY <3>3, AfterUnits
    <3>5. Stream(c)' = inbox[c] \o todo[c] /\ Part(c)' = IF want' = 2 THEN {"data"} ELSE {"rest"}
      <4>1. << >> \o inbox[c] = inbox[c]
        BY <1>0, ConcatUnits DEF TypeOK
      <4> QED
        BY <1>10, <2>1, <2>4, <4>1 DEF Stream, Part
    <3> QED
      BY <3>1, <3>4, <3>5 DEF Packets
  <2>6. \A d \in Clients : d # c => Stream(d)' = Stream(d) /\ Part(d)' = Part(d)
    BY <2>1, <2>3, <2>4 DEF Stream, Part
  <2> QED
    BY <1>0, <1>10, <2>1, <2>4, <2>5, <2>6, StillAligned DEF Aligned
<1>11. ASSUME HeaderAllocates, pc' # "payload" PROVE Aligned'
  <2>1. /\ up = "loop" /\ pc = "header" /\ AllGot /\ Reading
        /\ UNCHANGED <<got, want, log, last, fdOf, inbox, todo, seen>>
        /\ \/ pc' = "batch" /\ astray' = astray \cup Holder(last)
           \/ up' = "stuck" /\ UNCHANGED <<pc, astray>>
    BY <1>11 DEF HeaderAllocates, Reading
  <2>2. got # << >>
    BY <1>0, <2>1, EmptySeq DEF AllGot, Aligned
  <2>3. PICK c \in Clients : Holder(last) = {c} /\ fdOf[c] # 0
    BY <2>1, <2>2, OneHolder
  <2>4. Holder(last)' = {c}
    BY <2>1, <2>3 DEF Holder
  <2>5. astray' \subseteq seen' /\ astray \subseteq astray'
    BY <1>0, <2>1, <2>3 DEF Aligned, ClientsApart
  <2>6. ASSUME pc' = "batch" PROVE \A d \in Clients \ astray' : Stream(d)' = Stream(d) /\ Part(d)' = Part(d)
    <3>1. \A d \in Clients \ astray' : d # c
      BY <2>1, <2>3, <2>6
    <3> QED
      BY <2>1, <2>3, <2>4, <3>1 DEF Stream, Part
  <2>7. CASE pc' = "batch"
    BY <1>0, <2>1, <2>5, <2>6, <2>7, StillAligned DEF Aligned, Reading
  <2>8. CASE up' = "stuck" /\ UNCHANGED <<pc, astray>>
    BY <1>0, <2>1, <2>4, <2>5, <2>8, StillAligned DEF Aligned, Reading
  <2> QED
    BY <2>1, <2>7, <2>8
<1>12. ASSUME PayloadEnds PROVE Aligned'
  <2>1. up' = "undefined" /\ UNCHANGED <<pc, got, want, last, fdOf, seen, astray>>
    BY <1>12 DEF PayloadEnds
  <2> QED
    BY <1>0, <2>1, StillAligned DEF Aligned, Reading, Holder
<1> QED
  <2>1. ASSUME Interrupt \/ HeaderSpins PROVE Aligned'
    BY <1>3, <2>1 DEF Interrupt, HeaderSpins
  <2>2. ASSUME Check \/ Wait \/ WaitEnds \/ BatchEnds PROVE Aligned'
    BY <1>4, <2>2 DEF Check, Wait, WaitEnds, BatchEnds, Reading
  <2>3. ASSUME NEW c \in Clients, Leave(c) PROVE Aligned'
    BY <1>3, <2>3 DEF Leave
  <2> QED
    BY <1>1, <1>2, <1>5, <1>6, <1>7, <1>8, <1>9, <1>10, <1>11, <1>12, <2>1, <2>2, <2>3 DEF Next, Serve

-----------------------------------------------------------------------------
(* Events.                                                                 *)

LEMMA EventsStillFit == IInv /\ Next /\ ClientsApart' => EventsFit'
<1> SUFFICES ASSUME IInv, Next, ClientsApart' PROVE EventsFit'
  OBVIOUS
<1> USE DEF loopVars, netVars
<1>0. TypeOK /\ ClientsApart /\ EventsFit
  BY DEF IInv
<1>1. ASSUME NEW c \in Clients, Connect(c) PROVE EventsFit'
  <2>1. UNCHANGED <<loopVars, last, fdOf, seen>> /\ backlog' = Append(backlog, c)
    BY <1>1 DEF Connect
  <2>2. backlog' # << >>
    <3>1. backlog \in Seq(Clients)
      BY <1>0 DEF TypeOK
    <3> QED
      BY <2>1, <3>1, AppendProperties
  <2> QED
    BY <1>0, <2>1, <2>2 DEF EventsFit, Lone, Reading, Holder
<1>2. ASSUME UNCHANGED <<up, pc, events, last, backlog, fdOf, seen>> PROVE EventsFit'
  BY <1>0, <1>2 DEF EventsFit, Lone, Reading, Holder
<1>3. ASSUME pc' \in {"check", "wait"}, up' # "spin", UNCHANGED <<events, last, backlog, fdOf, seen>>,
             up' = "loop" => up = "loop"
      PROVE EventsFit'
  BY <1>0, <1>3 DEF EventsFit, Lone, Reading, Holder
<1>4. ASSUME Wait PROVE EventsFit'
  <2>1. /\ up = "loop" /\ pc' = "batch" /\ UNCHANGED <<up, last, backlog, fdOf, seen>>
        /\ \A i \in DOMAIN events' : events'[i] \in Ready
        /\ \A i, j \in DOMAIN events' : events'[i] = events'[j] => i = j
    BY <1>0, <1>4, WaitShape DEF Wait
  <2>2. ASSUME NEW i \in DOMAIN events', events'[i] = 0 PROVE backlog # << >>
    <3>1. 0 \in Ready
      BY <2>1, <2>2
    <3> QED
      BY <3>1 DEF Ready
  <2>3. ASSUME Lone, NEW i \in DOMAIN events', events'[i] # 0
        PROVE  events'[i] = last /\ Holder(last) # {}
    <3>1. PICK c \in Clients : fdOf[c] = events'[i]
      BY <2>1, <2>3 DEF Ready
    <3>2. fdOf[c] = last
      BY <1>0, <2>3, <3>1 DEF EventsFit
    <3> QED
      BY <2>3, <3>1, <3>2 DEF Holder
  <2>4. Lone' <=> Lone
    BY <2>1 DEF Lone
  <2>5. Holder(last)' = Holder(last) /\ ~Reading'
    BY <2>1 DEF Holder, Reading
  <2>6. Lone => \A c \in Clients : fdOf[c] # 0 => fdOf[c] = last
    BY <1>0 DEF EventsFit
  <2> QED
    BY <2>1, <2>2, <2>3, <2>4, <2>5, <2>6 DEF EventsFit
<1>5. ASSUME BatchEnds PROVE EventsFit'
  BY <1>3, <1>5 DEF BatchEnds
<1>6. ASSUME Accept PROVE EventsFit'
  <2>1. /\ up = "loop" /\ pc = "batch" /\ events # << >> /\ Head(events) = 0
        /\ events' = Tail(events) /\ UNCHANGED <<up, pc>>
    BY <1>6 DEF Accept, NextEvents
  <2>2. /\ events[1] = 0 /\ 1 \in DOMAIN events
        /\ \A i \in DOMAIN events' : /\ i + 1 \in DOMAIN events /\ i + 1 # 1 /\ i \in Nat
                                    /\ events'[i] = events[i + 1]
    BY <1>0, <2>1, TailShape DEF TypeOK
  <2>3. \A i \in DOMAIN events' : events'[i] # 0
    BY <1>0, <2>2 DEF EventsFit
  <2>4. ASSUME NEW i \in DOMAIN events', NEW j \in DOMAIN events', events'[i] = events'[j] PROVE i = j
    <3>1. i + 1 = j + 1
      BY <1>0, <2>2, <2>4 DEF EventsFit
    <3> QED
      BY <2>2, <3>1
  <2>5. backlog # << >>
    BY <1>0, <2>1, <2>2 DEF EventsFit
  <2> DEFINE c == Head(backlog)
  <2>6. c \in Clients /\ c \notin seen
    BY <1>0, <2>5, TailShape DEF ClientsApart, TypeOK
  <2>7. ASSUME FreeFds # {} PROVE EventsFit'
    <3>1. PICK f \in FreeFds : /\ fdOf' = [fdOf EXCEPT ![c] = f] /\ last' = f
                              /\ seen' = seen \cup {c}
      BY <1>6, <2>7 DEF Accept
    <3>2. Lone' => seen = {}
      BY <2>6, <3>1 DEF Lone
    <3>3. seen = {} => \A d \in Clients : fdOf[d] = 0
      BY <1>0 DEF ClientsApart
    <3>4. Lone' => \A d \in Clients : fdOf'[d] # 0 => fdOf'[d] = last'
      BY <1>0, <3>1, <3>2, <3>3 DEF TypeOK
    <3>5. ASSUME Lone', NEW i \in DOMAIN events' PROVE FALSE
      <4>1. i + 1 \in DOMAIN events /\ events[i + 1] # 0
        BY <2>2, <2>3
      <4>2. Lone
        BY <3>2, <3>5 DEF Lone
      <4>3. Holder(last) # {} /\ events[i + 1] = last
        BY <1>0, <2>1, <4>1, <4>2 DEF EventsFit
      <4> QED
        BY <3>2, <3>3, <3>5, <4>1, <4>3 DEF Holder
    <3> QED
      BY <2>1, <2>3, <2>4, <3>4, <3>5 DEF EventsFit, Reading
  <2>8. ASSUME FreeFds = {} PROVE EventsFit'
    <3>1. UNCHANGED <<backlog, fdOf, last, seen>>
      BY <1>6, <2>8 DEF Accept
    <3>2. ASSUME Lone, NEW i \in DOMAIN events' PROVE events'[i] = last /\ Holder(last) # {}
      BY <1>0, <2>1, <2>2, <2>3, <3>2 DEF EventsFit
    <3>3. (Lone' <=> Lone) /\ Holder(last)' = Holder(last) /\ ~Reading'
      BY <2>1, <3>1 DEF Lone, Holder, Reading
    <3>4. Lone => \A d \in Clients : fdOf[d] # 0 => fdOf[d] = last
      BY <1>0 DEF EventsFit
    <3> QED
      BY <2>1, <2>3, <2>4, <3>1, <3>2, <3>3, <3>4 DEF EventsFit
  <2> QED
    BY <2>7, <2>8
<1>7. ASSUME Dispatch PROVE EventsFit'
  <2>1. /\ up = "loop" /\ pc = "batch" /\ events # << >> /\ Head(events) # 0 /\ pc' = "header"
        /\ events' = Tail(events) /\ UNCHANGED <<up, last, backlog, fdOf, seen>>
    BY <1>7 DEF Dispatch, NextEvents
  <2>2. /\ events[1] # 0 /\ 1 \in DOMAIN events
        /\ \A i \in DOMAIN events' : /\ i + 1 \in DOMAIN events /\ i + 1 # 1 /\ i \in Nat
                                    /\ events'[i] = events[i + 1]
    BY <1>0, <2>1, TailShape DEF TypeOK
  <2>3. ASSUME NEW i \in DOMAIN events', NEW j \in DOMAIN events', events'[i] = events'[j] PROVE i = j
    <3>1. i + 1 = j + 1
      BY <1>0, <2>2, <2>3 DEF EventsFit
    <3> QED
      BY <2>2, <3>1
  <2>4. Lone => events[1] = last /\ Holder(last) # {}
    BY <1>0, <2>1, <2>2 DEF EventsFit
  <2>5. ASSUME Lone, NEW i \in DOMAIN events' PROVE events'[i] = 0
    <3>1. i + 1 \in DOMAIN events /\ events'[i] = events[i + 1] /\ i + 1 # 1
      BY <2>2
    <3>2. events[i + 1] # 0 => events[i + 1] = last
      BY <1>0, <2>1, <2>5, <3>1 DEF EventsFit
    <3>3. events[i + 1] # events[1]
      BY <1>0, <2>2, <3>1 DEF EventsFit
    <3> QED
      BY <2>4, <2>5, <3>1, <3>2, <3>3
  <2>6. (Lone' <=> Lone) /\ Holder(last)' = Holder(last)
    BY <2>1 DEF Lone, Holder
  <2>7. /\ Lone => \A d \in Clients : fdOf[d] # 0 => fdOf[d] = last
        /\ \A i \in DOMAIN events : events[i] = 0 => backlog # << >>
    BY <1>0, <2>1 DEF EventsFit
  <2>8. \A i \in DOMAIN events' : events'[i] = 0 => backlog' # << >>
    BY <2>1, <2>2, <2>7
  <2> QED
    BY <2>1, <2>3, <2>4, <2>5, <2>6, <2>7, <2>8 DEF EventsFit
<1>8. ASSUME HeaderEnds PROVE EventsFit'
  <2>1. PICK c \in Holder(last) : fdOf' = [fdOf EXCEPT ![c] = 0]
    BY <1>8 DEF HeaderEnds
  <2>2. /\ pc = "header" /\ Reading /\ up = "loop" /\ pc' = "batch"
        /\ UNCHANGED <<up, events, last, backlog, seen>>
    BY <1>8 DEF HeaderEnds, Reading
  <2>3. Lone => \A i \in DOMAIN events : events[i] = 0
    BY <1>0, <2>2 DEF EventsFit
  <2>4. Lone => \A d \in Clients : fdOf'[d] # 0 => fdOf'[d] = last
    BY <1>0, <2>1 DEF EventsFit, TypeOK, Holder
  <2>5. (Lone' <=> Lone) /\ ~Reading'
    BY <2>2 DEF Lone, Reading
  <2> QED
    BY <1>0, <2>2, <2>3, <2>4, <2>5 DEF EventsFit
<1>9. ASSUME HeaderSpins PROVE EventsFit'
  <2>1. /\ pc = "header" /\ Holder(last) = {} /\ up' = "spin"
        /\ UNCHANGED <<pc, events, last, backlog, fdOf, seen>>
    BY <1>9 DEF HeaderSpins
  <2>2. ~Lone
    BY <1>0, <2>1 DEF EventsFit
  <2>3. ~Lone'
    BY <2>1, <2>2 DEF Lone
  <2> QED
    BY <1>0, <2>1, <2>3 DEF EventsFit
<1>10. ASSUME pc = "header", up = "loop", pc' \in {"header", "batch", "payload"}, up' \in {"loop", "stuck"},
              UNCHANGED <<events, last, backlog, fdOf, seen>>
       PROVE EventsFit'
  <2>1. Lone => Holder(last) # {} /\ \A i \in DOMAIN events : events[i] = 0
    BY <1>0, <1>10 DEF EventsFit, Reading
  <2>2. (Lone' <=> Lone) /\ Holder(last)' = Holder(last)
    BY <1>10 DEF Lone, Holder
  <2> QED
    BY <1>0, <1>10, <2>1, <2>2 DEF EventsFit
<1>11. ASSUME PayloadEnds PROVE EventsFit'
  BY <1>0, <1>11 DEF PayloadEnds, EventsFit, Lone, Reading, Holder
<1> QED
  <2>1. ASSUME HeaderAlone \/ HeaderAllocates PROVE EventsFit'
    BY <1>10, <2>1 DEF HeaderAlone, HeaderAllocates
  <2>2. ASSUME Check \/ WaitEnds PROVE EventsFit'
    BY <1>2, <1>3, <2>2 DEF Check, WaitEnds
  <2>3. ASSUME RecvSome \/ Interrupt PROVE EventsFit'
    BY <1>2, <2>3 DEF RecvSome, Interrupt
  <2>4. ASSUME NEW c \in Clients, Send(c) \/ Leave(c) PROVE EventsFit'
    BY <1>2, <2>4 DEF Send, Leave
  <2> QED
    BY <1>1, <1>4, <1>5, <1>6, <1>7, <1>8, <1>9, <1>11, <2>1, <2>2, <2>3, <2>4 DEF Next, Serve

-----------------------------------------------------------------------------
(* What the parts give at each state.                                      *)

LEMMA InStepFollows == IInv => InStep
<1> SUFFICES ASSUME IInv, up = "loop", pc \in {"check", "wait", "batch"}, NEW c \in Clients \ astray,
                    fdOf[c] # 0, inbox[c] \o todo[c] # << >>
             PROVE  Head(inbox[c] \o todo[c]) \in Magics
  BY DEF InStep
<1>1. Packets(Stream(c), Part(c)) /\ ~Reading
  BY DEF IInv, Aligned, Reading
<1>2. Stream(c) = inbox[c] \o todo[c] /\ Part(c) = Magics
  BY <1>1, StreamShape DEF IInv
<1> QED
  BY <1>1, <1>2 DEF Packets

LEMMA SpinFollows == IInv => SpinNeedsTwo
<1> SUFFICES ASSUME IInv, up = "spin" PROVE Cardinality(seen) >= 2
  BY DEF SpinNeedsTwo
<1>1. ~Lone
  BY DEF IInv, EventsFit
<1>2. PICK a \in seen, b \in seen : a # b
  BY <1>1 DEF Lone
<1>3. IsFiniteSet({a}) /\ Cardinality({a}) = 1
  BY FS_Singleton
<1>4. IsFiniteSet({a} \cup {b}) /\ Cardinality({a} \cup {b}) = 2
  BY <1>2, <1>3, FS_AddElement
<1>5. IsFiniteSet(seen) /\ {a} \cup {b} \subseteq seen
  BY <1>2 DEF IInv, ClientsApart
<1>6. Cardinality({a} \cup {b}) <= Cardinality(seen) /\ Cardinality(seen) \in Nat
  BY <1>5, FS_Subset, FS_CardinalityType
<1> QED
  BY <1>4, <1>6

LEMMA ServerSteps == IInv /\ [Next]_vars => IInv'
<1> SUFFICES ASSUME IInv, Next PROVE IInv'
  BY ServerStutters
<1>1. TypeOK'
  BY ServerTypes DEF IInv
<1>2. ClientsApart'
  BY ClientsStayApart
<1> QED
  BY <1>1, <1>2, PayloadIsWhole, StreamsStayAligned, EventsStillFit DEF IInv

(* A payload that is logged is the one of a single client, whole and where *)
(* a payload is (net.c:275-288), and a header is looked for only where one *)
(* begins (net.c:222-254), until a payload of that client is left unread.  *)
THEOREM ServerInvariance == Spec => []ServerInv
<1>1. IInv => ServerInv
  BY InStepFollows DEF IInv, ServerInv
<1> QED
  BY ServerInit, ServerSteps, <1>1, PTL DEF Spec

(* A server that has had one client only is never caught in recv() on a    *)
(* closed descriptor (net.c:235-241, main.c:69).                           *)
THEOREM OneClientIsSafe == Spec => []SpinNeedsTwo
BY ServerInit, ServerSteps, SpinFollows, PTL DEF Spec
=============================================================================
