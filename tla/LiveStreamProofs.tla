-------------------------- MODULE LiveStreamProofs --------------------------
(***************************************************************************)
(* LiveStream, proved for any number of connections and requests, any      *)
(* buffer size and any set of tournament statuses: buffers stay within     *)
(* their capacity, Publish never sends on a closed channel, and a hidden   *)
(* tournament goes silent.                                                 *)
(***************************************************************************)
EXTENDS LiveStream, SequenceTheorems, TLAPS

(* The hub's map holds exactly the handlers whose channel is open, and a   *)
(* publisher has only those left to serve, while it holds the read lock.   *)
LockInv ==
    /\ \A r \in Readers : r \in subs <=> reader[r].pc \in {"streaming", "leaving"}
    /\ \A w \in Workers : req[w].left \subseteq subs
    /\ \A w \in Workers : req[w].pc # "sending" => req[w].left = {}

(* A topic that was chosen is one the switches still allow, or it was      *)
(* chosen before they were turned; and only a request with a topic sends.  *)
TopicInv ==
    \A w \in Workers :
       /\ req[w].topic => \/ Published /\ (req[w].kind = "match" => public)
                          \/ req[w].old
       /\ req[w].pc = "sending" => req[w].topic

----------------------------------------------------------------------------
(* Buffers *)

Buffers == UNION {[1 .. n -> 0 .. MaxSaves] : n \in 0 .. Capacity}

(* A buffer is a sequence no longer than the capacity. *)
LEMMA BufferIsSeq ==
  ASSUME NEW b
  PROVE  b \in Buffers <=> b \in Seq(0 .. MaxSaves) /\ Len(b) <= Capacity
<1>1. ASSUME b \in Buffers PROVE b \in Seq(0 .. MaxSaves) /\ Len(b) <= Capacity
  <2>1. PICK n \in 0 .. Capacity : b \in [1 .. n -> 0 .. MaxSaves]
    BY <1>1 DEF Buffers
  <2>2. n \in Nat /\ n <= Capacity
    BY StreamAssumption
  <2>3. b \in Seq(0 .. MaxSaves)
    BY <2>1, <2>2, SeqDef
  <2>4. Len(b) = n
    BY <2>1, <2>2, <2>3
  <2> QED
    BY <2>2, <2>3, <2>4
<1>2. ASSUME b \in Seq(0 .. MaxSaves), Len(b) <= Capacity PROVE b \in Buffers
  <2>1. b \in [1 .. Len(b) -> 0 .. MaxSaves] /\ Len(b) \in 0 .. Capacity
    BY <1>2, StreamAssumption
  <2> QED
    BY <2>1 DEF Buffers
<1> QED
  BY <1>1, <1>2

(* An event fits into a buffer that is not full. *)
LEMMA Queued ==
  ASSUME NEW b \in Buffers, NEW v \in 0 .. MaxSaves, Len(b) < Capacity
  PROVE  Append(b, v) \in Buffers
<1>1. b \in Seq(0 .. MaxSaves)
  BY BufferIsSeq
<1>2. Append(b, v) \in Seq(0 .. MaxSaves) /\ Len(Append(b, v)) = Len(b) + 1 /\ Len(b) \in Nat
  BY <1>1
<1>3. Len(Append(b, v)) <= Capacity
  BY <1>2, StreamAssumption
<1> QED
  BY <1>2, <1>3, BufferIsSeq

(* Taking an event out leaves a buffer. *)
LEMMA Relayed ==
  ASSUME NEW b \in Buffers, b # << >>
  PROVE  Tail(b) \in Buffers /\ Head(b) \in 0 .. MaxSaves
<1>1. b \in Seq(0 .. MaxSaves) /\ Len(b) <= Capacity
  BY BufferIsSeq
<1>2. Tail(b) \in Seq(0 .. MaxSaves) /\ Len(Tail(b)) = Len(b) - 1 /\ Head(b) \in 0 .. MaxSaves
  BY <1>1, HeadTailProperties
<1>3. Len(Tail(b)) <= Capacity
  BY <1>1, <1>2, StreamAssumption
<1> QED
  BY <1>2, <1>3, BufferIsSeq

(* The requests and connections at rest are well typed. *)
LEMMA AtRest == Idle \in Requests /\ Away \in Connections
<1>1. << >> \in Seq(0 .. MaxSaves) /\ Len(<< >>) <= Capacity
  BY EmptySeq, StreamAssumption
<1>2. << >> \in Buffers
  BY <1>1, BufferIsSeq
<1> QED
  BY <1>2, StreamAssumption DEF Idle, Requests, Kinds, Away, Connections, Buffers

----------------------------------------------------------------------------
(* Types *)

(* Marking the chosen topics as outdated keeps the requests well typed. *)
LEMMA OutdatedTyped == TypeOK => Outdated \in [Workers -> Requests]
<1> SUFFICES ASSUME TypeOK, NEW w \in Workers
             PROVE  [req[w] EXCEPT !.old = req[w].topic] \in Requests
  BY DEF Outdated
<1>1. req[w] \in Requests
  BY DEF TypeOK
<1> QED
  BY <1>1 DEF Requests

(* The hub starts empty and nobody is being served. *)
LEMMA InitTyped == Init => TypeOK
BY AtRest, StreamAssumption DEF Init, TypeOK

(* Turning a switch keeps the types. *)
LEMMA SwitchTyped ==
  ASSUME TypeOK, \/ \E s \in Statuses : SetTournamentStatus(s)
                 \/ \E b \in BOOLEAN : setStatus(b) \/ SetPublic(b)
  PROVE  TypeOK'
<1>1. ASSUME NEW s \in Statuses, StatusBecomes(s) PROVE TypeOK'
  BY <1>1, OutdatedTyped DEF TypeOK, StatusBecomes
<1>2. ASSUME NEW b \in BOOLEAN, SetPublic(b) PROVE TypeOK'
  BY <1>2, OutdatedTyped DEF TypeOK, SetPublic
<1>3. ASSUME NEW b \in BOOLEAN, setStatus(b) PROVE TypeOK'
  <2>1. (IF b THEN "published" ELSE "draft") \in Statuses
    BY StreamAssumption
  <2> QED
    BY <1>1, <1>3, <2>1 DEF setStatus
<1> QED
  BY <1>1, <1>2, <1>3 DEF SetTournamentStatus

(* The steps of a request keep the types. *)
LEMMA RequestStepTyped ==
  ASSUME TypeOK, NEW w \in Workers, Authorize(w) \/ Handle(w) \/ Fail(w)
  PROVE  TypeOK'
<1>1. req[w] \in Requests /\ req[w].payload \in 0 .. MaxSaves /\ saves \in 0 .. MaxSaves
  BY DEF TypeOK, Requests
<1>2. CASE Authorize(w)
  <2>1. PICK k \in Kinds : req' = [req EXCEPT ![w] = [Idle EXCEPT !.pc    = "authorized",
                                                                !.kind  = k,
                                                                !.topic = k = "match" /\ Visible]]
    BY <1>2 DEF Authorize
  <2>2. [Idle EXCEPT !.pc = "authorized", !.kind = k, !.topic = k = "match" /\ Visible] \in Requests
    BY AtRest DEF Requests, Idle, Visible, Published
  <2> QED
    BY <1>2, <2>1, <2>2 DEF Authorize, TypeOK
<1>3. CASE Save(w)
  <2>1. CASE req[w].kind = "match"
    <3>1. saves' = saves + 1 /\ saves' \in 0 .. MaxSaves
      BY <1>1, <1>3, <2>1, StreamAssumption DEF Save
    <3>2. [req[w] EXCEPT !.pc = "saved", !.saved = saves + 1] \in Requests
      BY <1>1, <3>1 DEF Requests
    <3>3. req' = [req EXCEPT ![w] = [req[w] EXCEPT !.pc = "saved", !.saved = saves + 1]]
      BY <1>3, <2>1 DEF Save
    <3> QED
      BY <1>3, <3>1, <3>2, <3>3 DEF Save, TypeOK
  <2>2. CASE req[w].kind = "slot"
    <3>1. [req[w] EXCEPT !.pc = "saved"] \in Requests
      BY <1>1 DEF Requests
    <3> QED
      BY <1>3, <2>2, <3>1 DEF Save, TypeOK
  <2> QED
    BY <1>3, <2>1, <2>2 DEF Save
<1>4. CASE ReadBack(w)
  <2>1. /\ [req[w] EXCEPT !.pc = "answering", !.payload = saves] \in Requests
        /\ [req[w] EXCEPT !.pc = "answering", !.topic = Published] \in Requests
    BY <1>1 DEF Requests, Published
  <2>2. \/ req' = [req EXCEPT ![w] = [req[w] EXCEPT !.pc = "answering", !.payload = saves]]
        \/ req' = [req EXCEPT ![w] = [req[w] EXCEPT !.pc = "answering", !.topic = Published]]
    BY <1>4 DEF ReadBack
  <2> QED
    BY <1>4, <2>1, <2>2 DEF ReadBack, TypeOK
<1>5. CASE Publish(w)
  <2>1. [req[w] EXCEPT !.pc = "sending", !.left = subs] \in Requests
    BY <1>1 DEF Requests, TypeOK
  <2>2. \/ req' = [req EXCEPT ![w] = [req[w] EXCEPT !.pc = "sending", !.left = subs]]
        \/ req' = [req EXCEPT ![w] = Idle]
    BY <1>5 DEF Publish
  <2> QED
    BY <1>5, <2>1, <2>2, AtRest DEF Publish, TypeOK
<1>6. ASSUME NEW r \in Readers, Send(w, r) PROVE TypeOK'
  <2>1. [req[w] EXCEPT !.left = req[w].left \ {r}] \in Requests
    BY <1>1 DEF Requests
  <2>2. reader[r] \in Connections /\ reader[r].buffer \in Buffers
    BY DEF TypeOK, Connections, Buffers
  <2>3. [reader[r] EXCEPT !.missed = TRUE] \in Connections
    BY <2>2 DEF Connections
  <2>4. ASSUME Len(reader[r].buffer) < Capacity
        PROVE  [reader[r] EXCEPT !.buffer = Append(reader[r].buffer, req[w].payload)] \in Connections
    <3>1. Append(reader[r].buffer, req[w].payload) \in Buffers
      BY <1>1, <2>2, <2>4, Queued
    <3> QED
      BY <2>2, <3>1 DEF Connections, Buffers
  <2>5. reader' = [reader EXCEPT ![r] =
                     IF Len(reader[r].buffer) < Capacity
                     THEN [reader[r] EXCEPT !.buffer = Append(reader[r].buffer, req[w].payload)]
                     ELSE [reader[r] EXCEPT !.missed = TRUE]]
    BY <1>6 DEF Send, TypeOK
  <2>6. reader' \in [Readers -> Connections]
    BY <2>3, <2>4, <2>5 DEF TypeOK
  <2> QED
    BY <1>6, <2>1, <2>6 DEF Send, TypeOK
<1>7. CASE Sent(w)
  BY <1>7, AtRest DEF Sent, TypeOK
<1>8. CASE Fail(w)
  <2>1. req[w].saved > 0 => req[w].saved \in 1 .. MaxSaves
    BY <1>1, StreamAssumption DEF Requests
  <2> QED
    BY <1>8, <2>1, AtRest DEF Fail, TypeOK
<1> QED
  BY <1>2, <1>3, <1>4, <1>5, <1>6, <1>7, <1>8 DEF Handle

(* The steps of a connection's handler keep the types. *)
LEMMA ReaderStepTyped ==
  ASSUME TypeOK, NEW r \in Readers,
         \/ Admit(r) \/ Join(r) \/ Subscribe(r) \/ Relay(r) \/ GoAway(r) \/ Leave(r)
         \/ Unsubscribe(r) \/ Close(r)
  PROVE  TypeOK'
<1>1. reader[r] \in Connections
  BY DEF TypeOK
<1>2. ASSUME NEW pc \in {"admitted", "joining", "streaming", "leaving", "closing"}, Move(r, pc)
      PROVE  reader' \in [Readers -> Connections]
  <2>1. [reader[r] EXCEPT !.pc = pc] \in Connections
    BY <1>1 DEF Connections
  <2> QED
    BY <1>2, <2>1 DEF Move, TypeOK
<1>3. CASE Admit(r) \/ Join(r) \/ Leave(r)
  BY <1>2, <1>3 DEF Admit, Join, Leave, Move, TypeOK
<1>4. CASE Subscribe(r) \/ Unsubscribe(r)
  BY <1>2, <1>4 DEF Subscribe, Unsubscribe, Move, TypeOK
<1>5. CASE Relay(r)
  <2>1. Tail(reader[r].buffer) \in Buffers /\ Head(reader[r].buffer) \in 0 .. MaxSaves
    BY <1>1, <1>5, Relayed DEF Relay, Connections, Buffers
  <2>2. ASSUME NEW n \in 0 .. MaxSaves
        PROVE  [reader[r] EXCEPT !.buffer = Tail(reader[r].buffer), !.seen = n] \in Connections
    BY <1>1, <2>1 DEF Connections, Buffers
  <2>3. PICK n \in 0 .. MaxSaves :
           reader' = [reader EXCEPT ![r] = [reader[r] EXCEPT !.buffer = Tail(reader[r].buffer), !.seen = n]]
    BY <1>1, <1>5, <2>1 DEF Relay, Connections, TypeOK
  <2> QED
    BY <1>5, <2>2, <2>3 DEF Relay, TypeOK
<1>6. CASE GoAway(r)
  <2>1. [reader[r] EXCEPT !.gone = TRUE] \in Connections
    BY <1>1 DEF Connections
  <2> QED
    BY <1>6, <2>1 DEF GoAway, TypeOK
<1>7. CASE Close(r)
  BY <1>7, AtRest DEF Close, TypeOK
<1> QED
  BY <1>3, <1>4, <1>5, <1>6, <1>7

(* Every step, and none, keeps the types. *)
LEMMA TypeStep == TypeOK /\ [Next]_vars => TypeOK'
<1>1. TypeOK /\ Next => TypeOK'
  BY SwitchTyped, RequestStepTyped, ReaderStepTyped DEF Next
<1>2. TypeOK /\ UNCHANGED vars => TypeOK'
  BY DEF TypeOK, vars
<1> QED
  BY <1>1, <1>2

(* Every buffer stays within its capacity, whatever is broadcast: Publish  *)
(* looks before it queues (hub.go: the select with a default).             *)
THEOREM StreamTypeCorrect == Spec => []TypeOK
BY InitTyped, TypeStep, PTL DEF Spec

----------------------------------------------------------------------------
(* Channels *)

(* Only the lock changes who is subscribed: a step that leaves the map, the *)
(* handlers' positions and the publishers alone keeps LockInv.              *)
LEMMA SameLock ==
  ASSUME LockInv, subs' = subs,
         \A r \in Readers : reader'[r].pc = reader[r].pc,
         \A w \in Workers : req'[w].left = req[w].left /\ req'[w].pc = req[w].pc
  PROVE  LockInv'
BY DEF LockInv

(* A request that is not sending, before or after, keeps LockInv. *)
LEMMA QuietRequest ==
  ASSUME TypeOK, LockInv, NEW w \in Workers, NEW q, q.left = {},
         req' = [req EXCEPT ![w] = q], UNCHANGED <<reader, subs>>
  PROVE  LockInv'
BY DEF LockInv, TypeOK

(* Turning a switch touches neither the hub nor the publishers. *)
LEMMA SwitchLock ==
  ASSUME TypeOK, LockInv, \/ \E s \in Statuses : SetTournamentStatus(s)
                          \/ \E b \in BOOLEAN : setStatus(b) \/ SetPublic(b)
  PROVE  LockInv'
<1>1. UNCHANGED <<reader, subs>> /\ (req' = Outdated \/ req' = req)
  BY DEF SetTournamentStatus, setStatus, StatusBecomes, SetPublic
<1>2. \A w \in Workers : Outdated[w].left = req[w].left /\ Outdated[w].pc = req[w].pc
  <2> SUFFICES ASSUME NEW w \in Workers
               PROVE  LET q == [req[w] EXCEPT !.old = req[w].topic]
                      IN  q.left = req[w].left /\ q.pc = req[w].pc
    BY DEF Outdated
  <2>1. req[w] \in Requests
    BY DEF TypeOK
  <2> QED
    BY <2>1 DEF Requests
<1>3. \A w \in Workers : req'[w].left = req[w].left /\ req'[w].pc = req[w].pc
  BY <1>1, <1>2
<1> QED
  BY <1>1, <1>3, SameLock

(* A publisher serves whom the map held when it took the read lock. *)
LEMMA RequestStepLock ==
  ASSUME TypeOK, LockInv, NEW w \in Workers, Authorize(w) \/ Handle(w) \/ Fail(w)
  PROVE  LockInv'
<1>1. req[w] \in Requests
  BY DEF TypeOK
<1>2. CASE Authorize(w)
  <2>1. PICK k \in Kinds : req' = [req EXCEPT ![w] = [Idle EXCEPT !.pc    = "authorized",
                                                                !.kind  = k,
                                                                !.topic = k = "match" /\ Visible]]
    BY <1>2 DEF Authorize
  <2>2. [Idle EXCEPT !.pc = "authorized", !.kind = k, !.topic = k = "match" /\ Visible].left = {}
    BY DEF Idle
  <2>3. UNCHANGED <<reader, subs>>
    BY <1>2 DEF Authorize
  <2> QED
    BY <2>1, <2>2, <2>3, QuietRequest
<1>6. CASE Fail(w) \/ Sent(w)
  <2>1. Idle.left = {}
    BY DEF Idle
  <2>2. req' = [req EXCEPT ![w] = Idle] /\ UNCHANGED <<reader, subs>>
    BY <1>6 DEF Fail, Sent
  <2> QED
    BY <2>1, <2>2, QuietRequest
<1>3. CASE Save(w) \/ ReadBack(w)
  <2>1. req[w].left = {}
    BY <1>3 DEF LockInv, Save, ReadBack
  <2>2. UNCHANGED <<reader, subs>> /\ req'[w].left = {}
    BY <1>1, <1>3, <2>1 DEF Save, ReadBack, Requests, TypeOK
  <2>3. req' = [req EXCEPT ![w] = req'[w]]
    BY <1>3 DEF Save, ReadBack, TypeOK
  <2> QED
    BY <2>2, <2>3, QuietRequest
<1>4. CASE Publish(w)
  <2>1. CASE req' = [req EXCEPT ![w] = Idle]
    BY <1>4, <2>1, QuietRequest DEF Publish, Idle
  <2>2. CASE req' = [req EXCEPT ![w].pc = "sending", ![w].left = subs]
    BY <1>1, <1>4, <2>2 DEF Publish, LockInv, TypeOK, Requests
  <2> QED
    BY <1>4, <2>1, <2>2 DEF Publish
<1>5. ASSUME NEW r \in Readers, Send(w, r) PROVE LockInv'
  <2>1. subs' = subs /\ \A x \in Readers : reader'[x].pc = reader[x].pc
    BY <1>5 DEF Send, TypeOK, Connections
  <2>2. /\ req'[w].pc = "sending" /\ req'[w].left = req[w].left \ {r}
        /\ \A x \in Workers \ {w} : req'[x] = req[x]
    BY <1>1, <1>5 DEF Send, TypeOK, Requests
  <2> QED
    BY <2>1, <2>2 DEF LockInv
<1> QED
  BY <1>2, <1>3, <1>4, <1>5, <1>6 DEF Handle

(* The channel is closed after the map has forgotten it, and the map only  *)
(* forgets while nobody is sending.                                        *)
LEMMA ReaderStepLock ==
  ASSUME TypeOK, LockInv, NEW r \in Readers,
         \/ Admit(r) \/ Join(r) \/ Subscribe(r) \/ Relay(r) \/ GoAway(r) \/ Leave(r)
         \/ Unsubscribe(r) \/ Close(r)
  PROVE  LockInv'
<1>1. reader[r] \in Connections /\ req' = req
  BY DEF TypeOK, Admit, Join, Subscribe, Relay, GoAway, Leave, Unsubscribe, Close, Move
<1>2. \A x \in Readers \ {r} : reader'[x] = reader[x]
  BY DEF TypeOK, Admit, Join, Subscribe, Relay, GoAway, Leave, Unsubscribe, Close, Move
<1>3. CASE Admit(r) \/ Join(r) \/ Leave(r)
  <2>1. /\ subs' = subs
        /\ reader'[r].pc \in {"streaming", "leaving"} <=> reader[r].pc \in {"streaming", "leaving"}
    BY <1>1, <1>3 DEF Admit, Join, Leave, Move, TypeOK, Connections
  <2> QED
    BY <1>1, <1>2, <2>1 DEF LockInv
<1>4. CASE Subscribe(r)
  <2>1. subs' = subs \cup {r} /\ reader'[r].pc = "streaming"
    BY <1>1, <1>4 DEF Subscribe, Move, TypeOK, Connections
  <2> QED
    BY <1>1, <1>2, <2>1 DEF LockInv
<1>5. CASE Relay(r) \/ GoAway(r)
  <2>1. subs' = subs /\ reader'[r].pc = reader[r].pc
    BY <1>1, <1>5 DEF Relay, GoAway, TypeOK, Connections
  <2> QED
    BY <1>1, <1>2, <2>1 DEF LockInv
<1>6. CASE Unsubscribe(r)
  <2>1. subs' = subs \ {r} /\ reader'[r].pc = "closing"
    BY <1>1, <1>6 DEF Unsubscribe, Move, TypeOK, Connections
  <2>2. \A w \in Workers : req[w].left = {}
    BY <1>6 DEF Unsubscribe, Unlocked, LockInv
  <2> QED
    BY <1>1, <1>2, <2>1, <2>2 DEF LockInv
<1>7. CASE Close(r)
  <2>1. subs' = subs /\ reader[r].pc = "closing" /\ reader'[r].pc = "away"
    BY <1>1, <1>7 DEF Close, TypeOK, Away
  <2> QED
    BY <1>1, <1>2, <2>1 DEF LockInv
<1> QED
  BY <1>3, <1>4, <1>5, <1>6, <1>7

(* At first nobody is subscribed. *)
LEMMA InitLock == Init => LockInv
BY DEF Init, LockInv, Idle, Away

(* Every step, and none, keeps the hub and the handlers together. *)
LEMMA LockStep == TypeOK /\ LockInv /\ [Next]_vars => LockInv'
<1>1. TypeOK /\ LockInv /\ Next => LockInv'
  BY SwitchLock, RequestStepLock, ReaderStepLock DEF Next
<1>2. LockInv /\ UNCHANGED vars => LockInv'
  BY DEF LockInv, vars
<1> QED
  BY <1>1, <1>2

(* Publish never sends on a closed channel, for any number of readers that *)
(* come and go and any number of publishers at once (hub.go:60 closes the  *)
(* channel only after the map has forgotten it under the write lock).      *)
THEOREM NeverSendsOnClosed == Spec => []NoSendOnClosed
<1>1. TypeOK /\ LockInv => NoSendOnClosed
  <2> SUFFICES ASSUME TypeOK, LockInv, NEW w \in Workers, NEW r \in req[w].left
               PROVE  reader[r].pc \in {"streaming", "leaving"}
    BY DEF NoSendOnClosed
  <2>1. r \in subs /\ r \in Readers
    BY DEF TypeOK, LockInv
  <2> QED
    BY <2>1 DEF LockInv
<1> QED
  BY <1>1, InitLock, LockStep, StreamTypeCorrect, PTL DEF Spec

----------------------------------------------------------------------------
(* Topics *)

(* What TopicInv asks of one request. *)
TopicOf(q) ==
    /\ q.topic => \/ Published /\ (q.kind = "match" => public)
                  \/ q.old
    /\ q.pc = "sending" => q.topic

(* A request that keeps its topic, or drops it, keeps TopicInv; the        *)
(* switches are as they were.                                              *)
LEMMA OneRequest ==
  ASSUME TypeOK, TopicInv, NEW w \in Workers, NEW q, TopicOf(q),
         req' = [req EXCEPT ![w] = q], UNCHANGED <<status, public>>
  PROVE  TopicInv'
<1> SUFFICES ASSUME NEW x \in Workers PROVE TopicOf(req[x])'
  BY DEF TopicInv, TopicOf, Published
<1>1. CASE x = w
  BY <1>1 DEF TopicOf, Published, TypeOK
<1>2. CASE x # w
  <2>1. TopicOf(req[x])
    BY DEF TopicInv, TopicOf
  <2>2. req'[x] = req[x]
    BY <1>2 DEF TypeOK
  <2> QED
    BY <2>1, <2>2 DEF TopicOf, Published
<1> QED
  BY <1>1, <1>2

(* Hiding the tournament or the division marks every topic chosen so far;  *)
(* showing it again allows no less than before.                            *)
LEMMA SwitchTopic ==
  ASSUME TypeOK, TopicInv, \/ \E s \in Statuses : SetTournamentStatus(s)
                           \/ \E b \in BOOLEAN : setStatus(b) \/ SetPublic(b)
  PROVE  TopicInv'
<1>1. \/ req' = Outdated
      \/ req' = req /\ ~Published /\ public' = public
      \/ req' = req /\ ~public /\ status' = status
  BY DEF SetTournamentStatus, setStatus, StatusBecomes, SetPublic, TypeOK
<1> SUFFICES ASSUME NEW w \in Workers PROVE TopicOf(req[w])'
  BY DEF TopicInv, TopicOf, Published
<1>2. req[w] \in Requests /\ TopicOf(req[w])
  BY DEF TopicInv, TopicOf, TypeOK
<1>3. CASE req' = Outdated
  <2>1. req'[w] = [req[w] EXCEPT !.old = req[w].topic]
    BY <1>3 DEF Outdated
  <2>2. req'[w].topic = req[w].topic /\ req'[w].old = req[w].topic /\ req'[w].pc = req[w].pc
    BY <1>2, <2>1 DEF Requests
  <2> QED
    BY <1>2, <2>2 DEF TopicOf
<1>4. CASE req' = req /\ ~Published
  BY <1>2, <1>4 DEF TopicOf
<1>5. CASE req' = req /\ ~public /\ status' = status
  BY <1>2, <1>5 DEF TopicOf, Published
<1> QED
  BY <1>1, <1>3, <1>4, <1>5

(* A request chooses its topic by the switches as they are, and sends only *)
(* if it has one.                                                          *)
LEMMA RequestStepTopic ==
  ASSUME TypeOK, TopicInv, NEW w \in Workers, Authorize(w) \/ Handle(w) \/ Fail(w)
  PROVE  TopicInv'
<1>1. req[w] \in Requests /\ TopicOf(req[w]) /\ UNCHANGED <<status, public>>
  BY DEF TypeOK, TopicInv, TopicOf, Authorize, Handle, Fail, Save, ReadBack, Publish, Send, Sent
<1>2. TopicOf(Idle)
  BY DEF TopicOf, Idle
<1>3. CASE Authorize(w)
  <2>1. PICK k \in Kinds : req' = [req EXCEPT ![w] = [Idle EXCEPT !.pc    = "authorized",
                                                                !.kind  = k,
                                                                !.topic = k = "match" /\ Visible]]
    BY <1>3 DEF Authorize
  <2>2. TopicOf([Idle EXCEPT !.pc = "authorized", !.kind = k, !.topic = k = "match" /\ Visible])
    BY DEF TopicOf, Idle, Visible
  <2> QED
    BY <1>1, <2>1, <2>2, OneRequest
<1>4. CASE Save(w)
  <2>1. TopicOf(req'[w]) /\ req' = [req EXCEPT ![w] = req'[w]]
    BY <1>1, <1>4 DEF Save, TopicOf, Requests, TypeOK
  <2> QED
    BY <1>1, <2>1, OneRequest
<1>5. CASE ReadBack(w)
  <2>1. TopicOf(req'[w]) /\ req' = [req EXCEPT ![w] = req'[w]]
    BY <1>1, <1>5 DEF ReadBack, TopicOf, Requests, TypeOK
  <2> QED
    BY <1>1, <2>1, OneRequest
<1>6. CASE Publish(w)
  <2>1. CASE req[w].topic
    <3>1. TopicOf(req'[w]) /\ req' = [req EXCEPT ![w] = req'[w]]
      BY <1>1, <1>6, <2>1 DEF Publish, TopicOf, Requests, TypeOK
    <3> QED
      BY <1>1, <3>1, OneRequest
  <2>2. CASE ~req[w].topic
    <3>1. req' = [req EXCEPT ![w] = Idle]
      BY <1>6, <2>2 DEF Publish
    <3> QED
      BY <1>1, <1>2, <3>1, OneRequest
  <2> QED
    BY <2>1, <2>2
<1>7. ASSUME NEW r \in Readers, Send(w, r) PROVE TopicInv'
  <2>1. TopicOf(req'[w]) /\ req' = [req EXCEPT ![w] = req'[w]]
    BY <1>1, <1>7 DEF Send, TopicOf, Requests, TypeOK
  <2> QED
    BY <1>1, <2>1, OneRequest
<1>8. CASE Fail(w) \/ Sent(w)
  <2>1. req' = [req EXCEPT ![w] = Idle]
    BY <1>8 DEF Fail, Sent
  <2> QED
    BY <1>1, <1>2, <2>1, OneRequest
<1> QED
  BY <1>3, <1>4, <1>5, <1>6, <1>7, <1>8 DEF Handle

(* Every step, and none, keeps the topics in step with the switches. *)
LEMMA TopicStep == TypeOK /\ TopicInv /\ [Next]_vars => TopicInv'
<1>1. ASSUME TopicInv, UNCHANGED <<status, public, req>> PROVE TopicInv'
  BY <1>1 DEF TopicInv, Published
<1>2. ASSUME NEW r \in Readers,
             \/ Admit(r) \/ Join(r) \/ Subscribe(r) \/ Relay(r) \/ GoAway(r) \/ Leave(r)
             \/ Unsubscribe(r) \/ Close(r)
      PROVE  UNCHANGED <<status, public, req>>
  BY <1>2 DEF Admit, Join, Subscribe, Relay, GoAway, Leave, Unsubscribe, Close, Move
<1>3. TypeOK /\ TopicInv /\ Next => TopicInv'
  BY <1>1, <1>2, SwitchTopic, RequestStepTopic DEF Next
<1>4. TopicInv /\ UNCHANGED vars => TopicInv'
  BY <1>1 DEF vars
<1> QED
  BY <1>3, <1>4

(* At first no request has a topic. *)
LEMMA InitTopic == Init => TopicInv
BY DEF Init, TopicInv, Idle

(* Once the tournament is unpublished or the division hidden, an open      *)
(* stream hears only from requests that had chosen their topic before      *)
(* (match/service.go asks before the write, schedule/service.go after it). *)
THEOREM HiddenStreamGoesSilent == Spec => HiddenGoesSilent
<1>1. ASSUME TopicInv, NEW w \in Workers, NEW r \in Readers, Send(w, r)
      PROVE  (Published /\ (req[w].kind = "match" => public)) \/ req[w].old
  <2>1. req[w].topic
    BY <1>1 DEF Send, TopicInv
  <2> QED
    BY <1>1, <2>1 DEF TopicInv
<1>2. TopicInv => [\A w \in Workers, r \in Readers :
                     Send(w, r) =>
                        \/ Published /\ (req[w].kind = "match" => public)
                        \/ req[w].old]_vars
  BY <1>1
<1> QED
  BY <1>2, InitTopic, TopicStep, StreamTypeCorrect, PTL DEF Spec, HiddenGoesSilent

=============================================================================
