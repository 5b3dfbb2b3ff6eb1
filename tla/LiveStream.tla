----------------------------- MODULE LiveStream -----------------------------
(***************************************************************************)
(* The live stream of one tournament: the hub of internal/realtime, the    *)
(* readers connected to it, the requests that change a match or a slot     *)
(* and broadcast the change, and the two switches that hide it: the        *)
(* tournament's status and the division's is_public.                       *)
(*                                                                         *)
(* Subscribe and unsubscribe change the hub's map inside h.mu.Lock, with   *)
(* nothing else in the section: one step, enabled while no publisher holds *)
(* h.mu.RLock.  Publish holds the read lock over several sends: a step per *)
(* send.  A waiting Lock keeps new RLocks out, as sync.RWMutex has it.     *)
(* The hub keeps its topics apart, so one topic is enough.                 *)
(***************************************************************************)
EXTENDS Naturals, Sequences, FiniteSets

CONSTANTS
    Readers,      \* connections, each used again once it is closed
    Workers,      \* requests that run at once
    Statuses,     \* tournament_status
    Capacity,     \* the buffer of a subscriber's channel
    MaxSaves      \* bound: committed changes of the match

ASSUME StreamAssumption ==
    /\ {"published", "draft"} \subseteq Statuses
    /\ Capacity \in Nat \ {0}
    /\ MaxSaves \in Nat

VARIABLES
    status,       \* tournaments.status
    public,       \* events.is_public of the division
    saves,        \* committed changes of the match: its version
    unsent,       \* history: versions whose request failed after the commit
    req,          \* the request each worker runs
    reader,       \* the handler of each connection
    subs          \* h.topics[slug]

vars == <<status, public, saves, unsent, req, reader, subs>>

Kinds == {"match", "slot"}    \* match.score and match.status; schedule updates

Idle == [pc |-> "idle", kind |-> "match", topic |-> FALSE, old |-> FALSE,
         saved |-> 0, payload |-> 0, left |-> {}]

Away == [pc |-> "away", gone |-> FALSE, buffer |-> << >>, seen |-> 0, missed |-> FALSE]

Requests == [pc      : {"idle", "authorized", "saved", "answering", "sending"},
             kind    : Kinds,
             topic   : BOOLEAN,              \* broadcast on the public stream?
             old     : BOOLEAN,              \* history: hidden since topic was read
             saved   : 0 .. MaxSaves,        \* the version it committed
             payload : 0 .. MaxSaves,        \* the version it broadcasts
             left    : SUBSET Readers]       \* subscribers Publish has yet to serve

Connections == [pc     : {"away", "admitted", "joining", "streaming", "leaving",
                          "closing"},
                gone   : BOOLEAN,            \* the client has disconnected
                buffer : UNION {[1 .. n -> 0 .. MaxSaves] : n \in 0 .. Capacity},
                seen   : 0 .. MaxSaves,      \* newest version relayed
                missed : BOOLEAN]            \* history: a full buffer cost an event

(* Every buffer stays within its capacity, and every request and handler   *)
(* is at one of its steps.                                                 *)
TypeOK ==
    /\ status \in Statuses
    /\ public \in BOOLEAN
    /\ saves \in 0 .. MaxSaves
    /\ unsent \subseteq 1 .. MaxSaves
    /\ req \in [Workers -> Requests]
    /\ reader \in [Readers -> Connections]
    /\ subs \subseteq Readers

Init ==
    /\ status = "published"
    /\ public = TRUE
    /\ saves = 0
    /\ unsent = {}
    /\ req = [w \in Workers |-> Idle]
    /\ reader = [r \in Readers |-> Away]
    /\ subs = {}

Published == status = "published"
Visible   == Published /\ public

----------------------------------------------------------------------------
(* Publication *)

(* History: the topics chosen so far no longer follow the switches. *)
Outdated == [w \in Workers |-> [req[w] EXCEPT !.old = req[w].topic]]

StatusBecomes(s) ==
    /\ s # status
    /\ status' = s
    /\ req' = IF Published THEN Outdated ELSE req
    /\ UNCHANGED <<public, saves, unsent, reader, subs>>

(* The organizer's Publish and Unpublish, whatever the status is now. *)
setStatus(publish) == StatusBecomes(IF publish THEN "published" ELSE "draft")

(* The platform's publish, unpublish, archive, restore and suspend. *)
SetTournamentStatus(s) == StatusBecomes(s)

(* UpdatePublicSettings with an is_public. *)
SetPublic(b) ==
    /\ b # public
    /\ public' = b
    /\ req' = IF public THEN Outdated ELSE req
    /\ UNCHANGED <<status, saves, unsent, reader, subs>>

----------------------------------------------------------------------------
(* A request that changes something and broadcasts it *)

(* Mutant: the topic of a hidden division. *)
AuthorizePublished(w) ==
    /\ req[w].pc = "idle"
    /\ \E k \in Kinds :
         req' = [req EXCEPT ![w] = [Idle EXCEPT !.pc    = "authorized",
                                                !.kind  = k,
                                                !.topic = k = "match" /\ Published]]
    /\ UNCHANGED <<status, public, saves, unsent, reader, subs>>

(* SubmitScore and SetStatus choose the topic here, before they write      *)
(* anything; CreateSlot, UpdateSlot and DeleteSlot only check the owner.   *)
Authorize(w) ==
    /\ req[w].pc = "idle"
    /\ \E k \in Kinds :
         req' = [req EXCEPT ![w] = [Idle EXCEPT !.pc    = "authorized",
                                                !.kind  = k,
                                                !.topic = k = "match" /\ Visible]]
    /\ UNCHANGED <<status, public, saves, unsent, reader, subs>>

(* SaveScore, repo.SetStatus, WriteSlot or DeleteSlot commits. *)
Save(w) ==
    /\ req[w].pc = "authorized"
    /\ \/ /\ req[w].kind = "match"
          /\ saves < MaxSaves
          /\ saves' = saves + 1
          /\ req' = [req EXCEPT ![w].pc = "saved", ![w].saved = saves + 1]
       \/ /\ req[w].kind = "slot"
          /\ UNCHANGED saves
          /\ req' = [req EXCEPT ![w].pc = "saved"]
    /\ UNCHANGED <<status, public, unsent, reader, subs>>

(* Mutant: broadcasting the match as it was read before the commit. *)
ReadBefore(w) ==
    /\ req[w].pc = "saved"
    /\ \/ /\ req[w].kind = "match"
          /\ req' = [req EXCEPT ![w].pc = "answering", ![w].payload = req[w].saved - 1]
       \/ /\ req[w].kind = "slot"
          /\ req' = [req EXCEPT ![w].pc = "answering", ![w].topic = Published]
    /\ UNCHANGED <<status, public, saves, unsent, reader, subs>>

(* A match is read again for the broadcast; a slot's request asks only now *)
(* whether the tournament is published (broadcastSlug).                    *)
ReadBack(w) ==
    /\ req[w].pc = "saved"
    /\ \/ /\ req[w].kind = "match"
          /\ req' = [req EXCEPT ![w].pc = "answering", ![w].payload = saves]
       \/ /\ req[w].kind = "slot"
          /\ req' = [req EXCEPT ![w].pc = "answering", ![w].topic = Published]
    /\ UNCHANGED <<status, public, saves, unsent, reader, subs>>

(* The request is refused, or fails before or after its commit: the answer *)
(* is an error and nothing is broadcast.                                   *)
Fail(w) ==
    /\ req[w].pc \in {"authorized", "saved"}
    /\ unsent' = IF req[w].saved > 0 THEN unsent \cup {req[w].saved} ELSE unsent
    /\ req' = [req EXCEPT ![w] = Idle]
    /\ UNCHANGED <<status, public, saves, reader, subs>>

LockAwaited == \E r \in Readers : reader[r].pc \in {"joining", "leaving"}

(* Publish takes the read lock; without a topic the handler just answers. *)
Publish(w) ==
    /\ req[w].pc = "answering"
    /\ \/ /\ req[w].topic
          /\ ~LockAwaited
          /\ req' = [req EXCEPT ![w].pc = "sending", ![w].left = subs]
       \/ /\ ~req[w].topic
          /\ req' = [req EXCEPT ![w] = Idle]
    /\ UNCHANGED <<status, public, saves, unsent, reader, subs>>

(* Mutant: queueing without looking at the buffer. *)
SendAlways(w, r) ==
    /\ req[w].pc = "sending"
    /\ r \in req[w].left
    /\ req' = [req EXCEPT ![w].left = @ \ {r}]
    /\ reader' = [reader EXCEPT ![r].buffer = Append(@, req[w].payload)]
    /\ UNCHANGED <<status, public, saves, unsent, subs>>

(* The non-blocking send: into the buffer, or nowhere if it is full. *)
Send(w, r) ==
    /\ req[w].pc = "sending"
    /\ r \in req[w].left
    /\ req' = [req EXCEPT ![w].left = @ \ {r}]
    /\ reader' = IF Len(reader[r].buffer) < Capacity
                 THEN [reader EXCEPT ![r].buffer = Append(@, req[w].payload)]
                 ELSE [reader EXCEPT ![r].missed = TRUE]
    /\ UNCHANGED <<status, public, saves, unsent, subs>>

(* The loop is over: unlock, answer the request. *)
Sent(w) ==
    /\ req[w].pc = "sending"
    /\ req[w].left = {}
    /\ req' = [req EXCEPT ![w] = Idle]
    /\ UNCHANGED <<status, public, saves, unsent, reader, subs>>

----------------------------------------------------------------------------
(* A connection: the handler `stream' *)

Unlocked == \A w \in Workers : req[w].pc # "sending"    \* h.mu.Lock succeeds

Move(r, pc) ==
    /\ reader' = [reader EXCEPT ![r].pc = pc]
    /\ UNCHANGED <<status, public, saves, unsent, req>>

(* isPublished says yes; otherwise the answer is 404 and nothing changes. *)
Admit(r) ==
    /\ reader[r].pc = "away"
    /\ Published
    /\ Move(r, "admitted")
    /\ UNCHANGED subs

(* Subscribe asks for the lock... *)
Join(r) ==
    /\ reader[r].pc = "admitted"
    /\ Move(r, "joining")
    /\ UNCHANGED subs

(* ...and has it. *)
Subscribe(r) ==
    /\ reader[r].pc = "joining"
    /\ Unlocked
    /\ subs' = subs \cup {r}
    /\ Move(r, "streaming")

(* c.Stream relays the next event. *)
Relay(r) ==
    /\ reader[r].pc = "streaming"
    /\ reader[r].buffer # << >>
    /\ reader' = [reader EXCEPT ![r].buffer = Tail(@),
                                ![r].seen   = IF @ < Head(reader[r].buffer)
                                              THEN Head(reader[r].buffer) ELSE @]
    /\ UNCHANGED <<status, public, saves, unsent, req, subs>>

(* The client disconnects: its request's context is done. *)
GoAway(r) ==
    /\ reader[r].pc \in {"admitted", "joining", "streaming"}
    /\ ~reader[r].gone
    /\ reader' = [reader EXCEPT ![r].gone = TRUE]
    /\ UNCHANGED <<status, public, saves, unsent, req, subs>>

(* Mutant: a loop that waits for the next event only. *)
LeaveOnEvent(r) ==
    /\ reader[r].pc = "streaming"
    /\ reader[r].gone
    /\ reader[r].buffer # << >>
    /\ Move(r, "leaving")
    /\ UNCHANGED subs

(* case <-ctx.Done(): the deferred unsubscribe asks for the lock. *)
Leave(r) ==
    /\ reader[r].pc = "streaming"
    /\ reader[r].gone
    /\ Move(r, "leaving")
    /\ UNCHANGED subs

(* Mutant: taking the subscriber out of the map without the lock. *)
UnsubscribeUnlocked(r) ==
    /\ reader[r].pc = "leaving"
    /\ subs' = subs \ {r}
    /\ Move(r, "closing")

Unsubscribe(r) ==
    /\ reader[r].pc = "leaving"
    /\ Unlocked
    /\ subs' = subs \ {r}
    /\ Move(r, "closing")

(* close(sub.ch), after the unlock. *)
Close(r) ==
    /\ reader[r].pc = "closing"
    /\ reader' = [reader EXCEPT ![r] = Away]
    /\ UNCHANGED <<status, public, saves, unsent, req, subs>>

----------------------------------------------------------------------------

Handle(w) ==
    \/ Save(w)
    \/ ReadBack(w)
    \/ Publish(w)
    \/ \E r \in Readers : Send(w, r)
    \/ Sent(w)

Next ==
    \/ \E b \in BOOLEAN : setStatus(b) \/ SetPublic(b)
    \/ \E s \in Statuses : SetTournamentStatus(s)
    \/ \E w \in Workers : Authorize(w) \/ Handle(w) \/ Fail(w)
    \/ \E r \in Readers :
         Admit(r) \/ Join(r) \/ Subscribe(r) \/ Relay(r) \/ GoAway(r) \/ Leave(r)
           \/ Unsubscribe(r) \/ Close(r)

Spec == Init /\ [][Next]_vars

(* A request that started runs to its end, and so does a handler: the Lock *)
(* they wait for is granted (sync.RWMutex starves neither side), and       *)
(* select picks among its ready cases at random, so none is passed over    *)
(* for ever.  Nothing makes a client stay, leave or connect.               *)
Fairness ==
    /\ \A w \in Workers : WF_vars(Handle(w)) /\ SF_vars(Publish(w))
    /\ \A r \in Readers :
         /\ WF_vars(Join(r) \/ Subscribe(r))
         /\ WF_vars(Relay(r))
         /\ WF_vars(Leave(r))
         /\ WF_vars(Unsubscribe(r) \/ Close(r))

FairSpec == Spec /\ Fairness

----------------------------------------------------------------------------
(* Properties *)

(* Publish never sends on a closed channel, which would panic: a           *)
(* subscriber it still has to serve has an open one, for as long as the    *)
(* loop of sends takes (hub.go:60 closes after the unlock).                *)
NoSendOnClosed ==
    \A w \in Workers : \A r \in req[w].left : reader[r].pc \in {"streaming", "leaving"}

(* Once a tournament is unpublished or its division hidden, an open stream *)
(* hears of that match only from requests that had chosen their topic      *)
(* before; a slot's broadcast likewise, for the tournament's status alone. *)
HiddenGoesSilent ==
    [][\A w \in Workers, r \in Readers :
         Send(w, r) =>
            \/ Published /\ (req[w].kind = "match" => public)
            \/ req[w].old]_vars

(* A change of a visible match reaches every reader subscribed when it is  *)
(* committed, unless the request failed after the commit, the reader left, *)
(* or its buffer was full.                                                 *)
UpdatesReach ==
    \A r \in Readers, v \in 1 .. MaxSaves :
       (/\ r \in subs
        /\ \E w \in Workers : req[w].pc = "saved" /\ req[w].topic /\ req[w].saved = v)
       ~> (\/ reader[r].seen >= v
           \/ reader[r].gone
           \/ reader[r].missed
           \/ v \in unsent)

(* The subscription of a client that disconnected is released, even if     *)
(* nothing is ever broadcast again (handler.go: the select on ctx.Done).   *)
Released ==
    \A r \in Readers : reader[r].gone ~> (reader[r].pc = "away" /\ r \notin subs)
=============================================================================
