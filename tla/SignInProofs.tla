---------------------------- MODULE SignInProofs ----------------------------
(***************************************************************************)
(* SignIn, proved for any number of addresses, requests in flight,         *)
(* challenges, invitations and deaths, and any attempt cap: a code opens   *)
(* one session, a new code retires the old ones, the attempt cap holds up  *)
(* to the overlap, and a revoked invitation stays revoked.                 *)
(***************************************************************************)
EXTENDS SignIn, FiniteSetTheorems, WellFoundedInduction, TLAPS

(* Requests that will begin an Issue, and those that compared a wrong code *)
(* with c and have not recorded it.                                        *)
Asking     == {w \in Workers : req[w].pc \in {"allowlist", "issuing"}}
Failing(c) == {w \in Workers : req[w].pc = "failing" /\ req[w].code = c}

(* What a request knows at each of its steps. *)
StageOf(q) ==
    /\ q.pc # "idle" => q.email \in Emails
    /\ q.pc \in {"reading", "retiring", "inserting", "sending", "failing", "signing", "opening"} =>
         q.code \in Cids
    /\ q.pc \in {"verifying", "locking", "failing", "signing", "opening"} => q.inv \in Iids

(* Every Issue that was admitted has room for its row. *)
Room == begun + Cardinality(Asking) <= MaxCodes

TypeInv == TypeOK /\ (\A w \in Workers : StageOf(req[w])) /\ Room

(* A challenge row is locked by one transaction at most. *)
Exclusive ==
    \A v, w \in Workers : v # w => req[v].held \cap req[w].held = {}

(* A request past the right code holds the row, which is the address's own *)
(* and not consumed.                                                       *)
Signing ==
    \A w \in Workers : req[w].pc \in {"signing", "opening"} =>
        /\ req[w].code \in req[w].held
        /\ codes[req[w].code].email = req[w].email
        /\ ~codes[req[w].code].consumed

(* The steps of an Issue that has its number and has not committed, and    *)
(* the live codes it has found.                                            *)
Begun    == {"reading", "retiring", "inserting"}
Found(q) == IF q.pc = "retiring" THEN q.seen ELSE q.held

(* The rows to come are empty: those of no Issue yet, and those of an      *)
(* Issue that has not committed, which are distinct.                       *)
Unused(c) == codes[c].email = NULL /\ ~codes[c].consumed

Empty ==
    /\ \A c \in Cids : c > begun => Unused(c)
    /\ \A w \in Workers : req[w].pc \in Begun => Unused(req[w].code) /\ req[w].code <= begun
    /\ \A v, w \in Workers :
         v # w /\ req[v].pc \in Begun /\ req[w].pc \in Begun => req[v].code # req[w].code

(* A live code that an Issue past its snapshot has not found committed     *)
(* beside it.                                                              *)
Retiring ==
    \A w \in Workers : req[w].pc \in {"retiring", "inserting"} =>
        \A d \in Live(req[w].email) : d \in Found(req[w]) \/ req[w].code \in codes[d].beside

CodeInv == Exclusive /\ Signing /\ Empty /\ CodeUsedOnce /\ Retiring /\ SupersededRetired

(* A wrong code that was compared is recorded, about to be, or lost with   *)
(* its request.                                                            *)
Counted ==
    \A c \in Cids :
        codes[c].tried <= codes[c].attempts + Cardinality(Failing(c)) + codes[c].lost

----------------------------------------------------------------------------
(* Helpers *)

(* A set of natural numbers with a bound has a greatest element. *)
LEMMA NewestIsOne ==
  ASSUME NEW C \in SUBSET Cids, C # {}
  PROVE  Newest(C) \in C /\ \A d \in C : d <= Newest(C)
<1> DEFINE Gap == {n \in Nat : MaxCodes - n \in C}
<1> DEFINE Less == {ss \in Nat \X Nat : ss[1] < ss[2]}
<1>1. Gap \subseteq Nat /\ Gap # {}
  <2>1. PICK c \in C : TRUE
    OBVIOUS
  <2>2. c \in 1 .. MaxCodes /\ MaxCodes \in Nat
    BY SignInAssumption DEF Cids
  <2>3. MaxCodes - c \in Nat /\ MaxCodes - (MaxCodes - c) = c
    BY <2>2
  <2>4. MaxCodes - c \in Gap
    BY <2>3
  <2> QED
    BY <2>4
<1>2. IsWellFoundedOn(Less, Nat)
  BY NatLessThanWellFounded DEF OpToRel
<1> HIDE DEF Less
<1>3. PICK n \in Gap : \A m \in Gap : <<m, n>> \notin Less
  BY <1>1, <1>2, WFMin
<1>4. \A m \in Gap : ~(m < n)
  <2> SUFFICES ASSUME NEW m \in Gap, m < n PROVE FALSE
    OBVIOUS
  <2>1. <<m, n>> \in Less
    BY <1>1 DEF Less
  <2> QED
    BY <1>3, <2>1
<1>5. \A d \in C : d <= MaxCodes - n
  <2> SUFFICES ASSUME NEW d \in C PROVE d <= MaxCodes - n
    OBVIOUS
  <2>1. d \in 1 .. MaxCodes /\ MaxCodes \in Nat
    BY SignInAssumption DEF Cids
  <2>2. MaxCodes - d \in Nat /\ MaxCodes - (MaxCodes - d) = d
    BY <2>1
  <2>3. MaxCodes - d \in Gap
    BY <2>2
  <2>4. ~(MaxCodes - d < n) /\ n \in Nat
    BY <1>1, <1>4, <2>3
  <2> QED
    BY <2>1, <2>4
<1>6. \E c \in C : \A d \in C : d <= c
  BY <1>5
<1> QED
  BY <1>6 DEF Newest

(* Sets of requests are finite. *)
LEMMA FewRequests ==
  ASSUME NEW S \in SUBSET Workers
  PROVE  /\ IsFiniteSet(S) /\ Cardinality(S) \in Nat
         /\ Cardinality(S) <= Cardinality(Workers) /\ Cardinality(Workers) \in Nat
         /\ \A w \in S : Cardinality(S \ {w}) = Cardinality(S) - 1
         /\ \A w \in Workers \ S : Cardinality(S \cup {w}) = Cardinality(S) + 1
         /\ \A T \in SUBSET S : Cardinality(T) <= Cardinality(S) /\ Cardinality(T) \in Nat
<1>1. IsFiniteSet(S) /\ Cardinality(S) <= Cardinality(Workers)
  BY FS_Subset, SignInAssumption
<1>2. Cardinality(S) \in Nat /\ Cardinality(Workers) \in Nat
  BY <1>1, FS_CardinalityType, SignInAssumption
<1>3. ASSUME NEW T \in SUBSET S PROVE Cardinality(T) <= Cardinality(S) /\ Cardinality(T) \in Nat
  BY <1>1, FS_Subset, FS_CardinalityType
<1>4. \A w \in S : Cardinality(S \ {w}) = Cardinality(S) - 1
  BY <1>1, FS_RemoveElement
<1>5. \A w \in Workers \ S : Cardinality(S \cup {w}) = Cardinality(S) + 1
  BY <1>1, FS_AddElement
<1> QED
  BY <1>1, <1>2, <1>3, <1>4, <1>5

(* One request takes its next step: the others are as they were. *)
LEMMA Replaced ==
  ASSUME TypeInv, NEW w \in Workers, NEW q \in Requests, StageOf(q),
         req' = [req EXCEPT ![w] = q], UNCHANGED begun,
         q.pc \notin {"allowlist", "issuing"}
  PROVE  req' \in [Workers -> Requests] /\ (\A x \in Workers : StageOf(req[x]))' /\ Room'
<1>1. req' \in [Workers -> Requests] /\ \A x \in Workers : req'[x] = IF x = w THEN q ELSE req[x]
  BY DEF TypeInv, TypeOK
<1>2. (\A x \in Workers : StageOf(req[x]))'
  BY <1>1 DEF TypeInv, StageOf
<1>3. Asking' \subseteq Asking /\ Asking \subseteq Workers
  BY <1>1 DEF Asking
<1>4. Cardinality(Asking') <= Cardinality(Asking) /\ Cardinality(Asking') \in Nat /\ Cardinality(Asking) \in Nat
  BY <1>3, FewRequests
<1>5. Room'
  BY <1>4, SignInAssumption DEF Room, TypeInv, TypeOK
<1> QED
  BY <1>1, <1>2, <1>5

(* A request that ends leaves nothing behind. *)
LEMMA Finished ==
  ASSUME TypeInv, NEW w \in Workers, Finish(w), UNCHANGED begun
  PROVE  req' \in [Workers -> Requests] /\ (\A x \in Workers : StageOf(req[x]))' /\ Room'
<1>1. Idle \in Requests /\ StageOf(Idle) /\ Idle.pc \notin {"allowlist", "issuing"}
  BY DEF Idle, Requests, StageOf
<1>2. req' = [req EXCEPT ![w] = Idle]
  BY DEF Finish
<1> QED
  BY <1>1, <1>2, Replaced

----------------------------------------------------------------------------
(* Types *)

(* Asking for a code, up to the row that was counted for it. *)
LEMMA AskTyped ==
  ASSUME TypeInv, NEW w \in Workers,
         (\E e \in Emails : Request(w, e)) \/ CheckAllowlist(w) \/ IssueBegin(w)
  PROVE  TypeInv'
<1>1. req[w] \in Requests /\ StageOf(req[w]) /\ Asking \subseteq Workers
  BY DEF TypeInv, TypeOK, Asking
<1>2. Cardinality(Asking) \in Nat /\ begun \in Nat /\ MaxCodes \in Nat
  BY <1>1, FewRequests, SignInAssumption DEF TypeInv, TypeOK
<1>3. ASSUME NEW e \in Emails, Request(w, e) PROVE TypeInv'
  <2> DEFINE q == [Idle EXCEPT !.pc = "allowlist", !.email = e]
  <2>1. q \in Requests /\ StageOf(q) /\ q.pc = "allowlist"
    BY DEF Idle, Requests, StageOf
  <2>2. req' = [req EXCEPT ![w] = q] /\ req[w].pc = "idle" /\ UNCHANGED <<tables, deaths>>
    BY <1>3 DEF Request, Start
  <2> HIDE DEF q
  <2>3. req' \in [Workers -> Requests] /\ \A x \in Workers : req'[x] = IF x = w THEN q ELSE req[x]
    BY <2>1, <2>2 DEF TypeInv, TypeOK
  <2>4. TypeOK'
    BY <2>2, <2>3 DEF TypeInv, TypeOK, tables
  <2>5. (\A x \in Workers : StageOf(req[x]))'
    BY <2>1, <2>3 DEF TypeInv, StageOf
  <2>6. Asking' = Asking \cup {w} /\ w \notin Asking
    BY <2>1, <2>2, <2>3 DEF Asking
  <2>7. begun + Cardinality(Asking) < MaxCodes
    BY <1>3 DEF Request, Asking
  <2>8. Cardinality(Asking') = Cardinality(Asking) + 1
    BY <1>1, <2>6, FewRequests
  <2>9. Room'
    BY <1>2, <2>2, <2>7, <2>8 DEF Room, tables
  <2> QED
    BY <2>4, <2>5, <2>9 DEF TypeInv
<1>4. CASE CheckAllowlist(w) /\ Finish(w)
  <2>1. UNCHANGED <<tables, deaths>>
    BY <1>4 DEF CheckAllowlist
  <2> QED
    BY <1>4, <2>1, Finished DEF TypeInv, TypeOK, tables
<1>5. CASE CheckAllowlist(w) /\ Goto(w, "issuing")
  <2>1. UNCHANGED <<tables, deaths>> /\ req[w].pc = "allowlist"
    BY <1>5 DEF CheckAllowlist
  <2>2. [req[w] EXCEPT !.pc = "issuing"] \in Requests /\ StageOf([req[w] EXCEPT !.pc = "issuing"])
    BY <1>1, <2>1 DEF Requests, StageOf
  <2>3. req' = [req EXCEPT ![w] = [req[w] EXCEPT !.pc = "issuing"]]
    BY <1>5 DEF Goto
  <2>4. /\ req' \in [Workers -> Requests]
        /\ \A x \in Workers : req'[x] = IF x = w THEN [req[w] EXCEPT !.pc = "issuing"] ELSE req[x]
    BY <2>2, <2>3 DEF TypeInv, TypeOK
  <2>5. (\A x \in Workers : StageOf(req[x]))'
    BY <2>2, <2>4 DEF TypeInv, StageOf
  <2>6. Asking' = Asking
    BY <1>1, <2>1, <2>4 DEF Asking, Requests
  <2> QED
    BY <2>1, <2>4, <2>5, <2>6 DEF TypeInv, TypeOK, tables, Room
<1>6. CASE IssueBegin(w)
  <2> DEFINE q == [req[w] EXCEPT !.pc = "reading", !.code = begun + 1]
  <2>1. /\ req[w].pc = "issuing" /\ begun' = begun + 1
        /\ UNCHANGED <<account, invites, codes, sent, opened, alive, deaths>>
        /\ req' = [req EXCEPT ![w] = q]
    BY <1>6 DEF IssueBegin
  <2>2. w \in Asking
    BY <2>1 DEF Asking
  <2>3. Cardinality(Asking \ {w}) = Cardinality(Asking) - 1 /\ Cardinality(Asking \ {w}) \in Nat
    BY <1>1, <2>2, FewRequests
  <2>4. begun + 1 \in Cids
    BY <1>2, <2>3 DEF Cids, TypeInv, Room
  <2>6. q \in Requests /\ StageOf(q) /\ q.pc = "reading"
    BY <1>1, <2>1, <2>4 DEF Requests, StageOf
  <2> HIDE DEF q
  <2>7. req' \in [Workers -> Requests] /\ \A x \in Workers : req'[x] = IF x = w THEN q ELSE req[x]
    BY <2>1, <2>6 DEF TypeInv, TypeOK
  <2>8. (\A x \in Workers : StageOf(req[x]))'
    BY <2>6, <2>7 DEF TypeInv, StageOf
  <2>9. Asking' = Asking \ {w}
    BY <2>6, <2>7 DEF Asking
  <2>10. Room'
    BY <1>2, <2>1, <2>3, <2>9 DEF Room, TypeInv
  <2>11. begun' \in 0 .. MaxCodes
    BY <1>2, <2>1, <2>4 DEF Cids
  <2> QED
    BY <2>1, <2>7, <2>8, <2>10, <2>11 DEF TypeInv, TypeOK
<1> QED
  BY <1>3, <1>4, <1>5, <1>6 DEF CheckAllowlist

(* The statements that find live codes, and the one that retires them. *)
LEMMA FindTyped ==
  ASSUME TypeInv, NEW w \in Workers, IssueRead(w) \/ IssueRetire(w) \/ LockRead(w)
  PROVE  TypeInv'
<1>1. req[w] \in Requests /\ StageOf(req[w])
  BY DEF TypeInv, TypeOK
<1>2. Live(req[w].email) \in SUBSET Cids /\ StillLive(w) \in SUBSET Cids
  BY DEF Live, StillLive
<1>3. UNCHANGED <<tables, deaths>>
  BY DEF IssueRead, IssueRetire, LockRead
<1>4. ASSUME NEW q \in Requests, StageOf(q), req' = [req EXCEPT ![w] = q],
             q.pc \notin {"allowlist", "issuing"}
      PROVE  TypeInv'
  <2>1. UNCHANGED <<account, invites, codes, sent, begun, opened, alive, deaths>>
    BY <1>3 DEF tables
  <2>2. req' \in [Workers -> Requests] /\ (\A x \in Workers : StageOf(req[x]))' /\ Room'
    BY <1>4, <2>1, Replaced
  <2> QED
    BY <2>1, <2>2 DEF TypeInv, TypeOK
<1>5. CASE IssueRead(w)
  <2> DEFINE q == [req[w] EXCEPT !.pc = "retiring", !.seen = Live(req[w].email)]
  <2>1. req' = [req EXCEPT ![w] = q] /\ req[w].pc = "reading"
    BY <1>5 DEF IssueRead, Snapshot
  <2>2. q \in Requests /\ StageOf(q) /\ q.pc = "retiring"
    BY <1>1, <1>2, <2>1 DEF Requests, StageOf
  <2> HIDE DEF q
  <2> QED
    BY <1>4, <2>1, <2>2
<1>6. CASE IssueRetire(w)
  <2> DEFINE q == [req[w] EXCEPT !.pc = "inserting", !.seen = {}, !.held = StillLive(w)]
  <2>1. req' = [req EXCEPT ![w] = q] /\ req[w].pc = "retiring"
    BY <1>6 DEF IssueRetire
  <2>2. q \in Requests /\ StageOf(q) /\ q.pc = "inserting"
    BY <1>1, <1>2, <2>1 DEF Requests, StageOf
  <2> HIDE DEF q
  <2> QED
    BY <1>4, <2>1, <2>2
<1>7. CASE LockRead(w)
  <2> DEFINE q == [req[w] EXCEPT !.pc = "locking", !.seen = Live(req[w].email)]
  <2>1. req' = [req EXCEPT ![w] = q] /\ req[w].pc = "verifying"
    BY <1>7 DEF LockRead, Snapshot
  <2>2. q \in Requests /\ StageOf(q) /\ q.pc = "locking"
    BY <1>1, <1>2, <2>1 DEF Requests, StageOf
  <2> HIDE DEF q
  <2> QED
    BY <1>4, <2>1, <2>2
<1> QED
  BY <1>5, <1>6, <1>7

(* A challenge row keeps its type when its fields change. *)
LEMMA RowTyped ==
  ASSUME NEW r \in Challenges, NEW b \in BOOLEAN
  PROVE  /\ [r EXCEPT !.tried = r.tried + 1] \in Challenges
         /\ [r EXCEPT !.lost = r.lost + 1] \in Challenges
         /\ [r EXCEPT !.consumed = TRUE] \in Challenges
         /\ [r EXCEPT !.expired = TRUE] \in Challenges
         /\ [r EXCEPT !.invalidated = b] \in Challenges
         /\ [r EXCEPT !.attempts = r.attempts + 1, !.invalidated = b] \in Challenges
<1>1. r.tried + 1 \in Nat /\ r.attempts + 1 \in Nat /\ r.lost + 1 \in Nat
  BY DEF Challenges
<1>2. [r EXCEPT !.tried = r.tried + 1] \in Challenges /\ [r EXCEPT !.lost = r.lost + 1] \in Challenges
  BY <1>1 DEF Challenges
<1>3. [r EXCEPT !.consumed = TRUE] \in Challenges /\ [r EXCEPT !.expired = TRUE] \in Challenges
  BY DEF Challenges
<1>4. [r EXCEPT !.invalidated = b] \in Challenges
  BY DEF Challenges
<1>5. [r EXCEPT !.attempts = r.attempts + 1, !.invalidated = b] \in Challenges
  BY <1>1 DEF Challenges
<1> QED
  BY <1>2, <1>3, <1>4, <1>5

(* Issue commits and its code is sent. *)
LEMMA InsertTyped ==
  ASSUME TypeInv, NEW w \in Workers,
         IssueInsert(w) \/ \E delivered \in BOOLEAN : SendOTP(w, delivered)
  PROVE  TypeInv'
<1>1. req[w] \in Requests /\ StageOf(req[w])
  BY DEF TypeInv, TypeOK
<1>2. CASE IssueInsert(w)
  <2> DEFINE q == [req[w] EXCEPT !.pc = "sending", !.held = {}]
  <2> DEFINE B == {req[v].code : v \in {v \in Workers \ {w} : req[v].pc \in {"retiring", "inserting"}}}
  <2>1. q \in Requests /\ StageOf(q) /\ q.pc = "sending"
    BY <1>1, <1>2 DEF Requests, StageOf, IssueInsert
  <2>2. req' = [req EXCEPT ![w] = q] /\ UNCHANGED <<account, invites, sent, begun, opened, alive, deaths>>
    BY <1>2 DEF IssueInsert
  <2>3. req' \in [Workers -> Requests] /\ (\A x \in Workers : StageOf(req[x]))' /\ Room'
    BY <2>1, <2>2, Replaced
  <2>4. B \subseteq Cids
    BY DEF TypeInv, StageOf
  <2>5. [NoChallenge EXCEPT !.email = req[w].email, !.beside = B] \in Challenges
    BY <1>1, <2>4 DEF NoChallenge, Challenges, Requests
  <2>6. \A c \in Cids : [codes[c] EXCEPT !.invalidated = codes[c].invalidated \/ c \in req[w].held] \in Challenges
    <3> SUFFICES ASSUME NEW c \in Cids
                 PROVE  [codes[c] EXCEPT !.invalidated = codes[c].invalidated \/ c \in req[w].held] \in Challenges
      OBVIOUS
    <3>1. codes[c] \in Challenges /\ (codes[c].invalidated \/ c \in req[w].held) \in BOOLEAN
      BY DEF TypeInv, TypeOK
    <3> QED
      BY <3>1, RowTyped
  <2>7. codes' = [c \in Cids |->
                    IF c = req[w].code THEN [NoChallenge EXCEPT !.email = req[w].email, !.beside = B]
                    ELSE [codes[c] EXCEPT !.invalidated = codes[c].invalidated \/ c \in req[w].held]]
    BY <1>2 DEF IssueInsert
  <2>8. codes' \in [Cids -> Challenges]
    BY <2>5, <2>6, <2>7
  <2> QED
    BY <2>2, <2>3, <2>8 DEF TypeInv, TypeOK
<1>3. ASSUME NEW delivered \in BOOLEAN, SendOTP(w, delivered) PROVE TypeInv'
  <2>1. req[w].code \in Cids
    BY <1>1, <1>3 DEF SendOTP, StageOf
  <2>2. sent' \in SUBSET Cids /\ Finish(w) /\ UNCHANGED <<account, invites, codes, begun, opened, alive, deaths>>
    BY <1>3, <2>1 DEF SendOTP, TypeInv, TypeOK
  <2> QED
    BY <2>2, Finished DEF TypeInv, TypeOK
<1> QED
  BY <1>2, <1>3

(* Presenting a code: the newest live challenge, right or wrong. *)
LEMMA LockTyped ==
  ASSUME TypeInv, NEW w \in Workers,
         \/ \E e \in Emails, code \in sent \cup {NULL} : VerifyAndSignIn(w, e, code)
         \/ LockLive(w)
  PROVE  TypeInv'
<1>1. req[w] \in Requests /\ StageOf(req[w])
  BY DEF TypeInv, TypeOK
<1>2. ASSUME NEW e \in Emails, NEW code \in sent \cup {NULL}, VerifyAndSignIn(w, e, code)
      PROVE  TypeInv'
  <2>1. PICK i \in FindActiveByEmail(e) :
           Start(w, [Idle EXCEPT !.pc = "verifying", !.email = e, !.inv = i, !.code = code])
    BY <1>2 DEF VerifyAndSignIn
  <2>2. i \in Iids /\ code \in Cids \cup {NULL}
    BY <2>1 DEF FindActiveByEmail, Unrevoked, TypeInv, TypeOK
  <2> DEFINE q == [Idle EXCEPT !.pc = "verifying", !.email = e, !.inv = i, !.code = code]
  <2>3. q \in Requests /\ StageOf(q) /\ q.pc = "verifying"
    BY <2>2 DEF Idle, Requests, StageOf
  <2>4. req' = [req EXCEPT ![w] = q] /\ UNCHANGED <<tables, deaths>>
    BY <1>2, <2>1 DEF Start, VerifyAndSignIn
  <2> HIDE DEF q
  <2> QED
    BY <2>3, <2>4, Replaced DEF TypeInv, TypeOK, tables
<1>3. CASE LockLive(w)
  <2> DEFINE c == Newest(StillLive(w))
  <2>1. UNCHANGED <<account, invites, sent, begun, opened, alive, deaths>> /\ req[w].pc = "locking"
    BY <1>3 DEF LockLive
  <2>2. CASE Finish(w) /\ UNCHANGED codes
    BY <2>1, <2>2, Finished DEF TypeInv, TypeOK
  <2>3. CASE StillLive(w) # {} /\ ~(Finish(w) /\ UNCHANGED codes)
    <3>1. c \in Cids
      BY <2>3, NewestIsOne DEF Live, StillLive
    <3>2. \/ /\ req' = [req EXCEPT ![w].pc = "failing", ![w].code = c, ![w].seen = {}]
             /\ codes' = [codes EXCEPT ![c].tried = @ + 1]
          \/ /\ req' = [req EXCEPT ![w].pc = "signing", ![w].seen = {}, ![w].held = {c}]
             /\ req[w].code = c
             /\ UNCHANGED codes
      BY <1>3, <2>3 DEF LockLive
    <3> HIDE DEF c
    <3>3. CASE /\ req' = [req EXCEPT ![w].pc = "failing", ![w].code = c, ![w].seen = {}]
               /\ codes' = [codes EXCEPT ![c].tried = @ + 1]
      <4> DEFINE q == [req[w] EXCEPT !.pc = "failing", !.code = c, !.seen = {}]
      <4>1. q \in Requests /\ StageOf(q) /\ q.pc = "failing"
        BY <1>1, <2>1, <3>1 DEF Requests, StageOf
      <4>2. req' = [req EXCEPT ![w] = q]
        BY <3>3
      <4>3. codes[c] \in Challenges /\ codes' = [codes EXCEPT ![c] = [codes[c] EXCEPT !.tried = codes[c].tried + 1]]
        BY <3>1, <3>3 DEF TypeInv, TypeOK
      <4>4. codes' \in [Cids -> Challenges]
        BY <4>3, RowTyped DEF TypeInv, TypeOK
      <4> HIDE DEF q
      <4> QED
        BY <2>1, <4>1, <4>2, <4>4, Replaced DEF TypeInv, TypeOK
    <3>4. CASE /\ req' = [req EXCEPT ![w].pc = "signing", ![w].seen = {}, ![w].held = {c}]
               /\ req[w].code = c
               /\ UNCHANGED codes
      <4> DEFINE q == [req[w] EXCEPT !.pc = "signing", !.seen = {}, !.held = {c}]
      <4>1. q \in Requests /\ StageOf(q) /\ q.pc = "signing"
        BY <1>1, <2>1, <3>1, <3>4 DEF Requests, StageOf
      <4>2. req' = [req EXCEPT ![w] = q]
        BY <3>4
      <4> HIDE DEF q
      <4> QED
        BY <2>1, <3>4, <4>1, <4>2, Replaced DEF TypeInv, TypeOK
    <3> QED
      BY <3>2, <3>3, <3>4
  <2> QED
    BY <1>3, <2>2, <2>3 DEF LockLive
<1> QED
  BY <1>2, <1>3

(* The end of a sign-in, one way or the other. *)
LEMMA SignTyped ==
  ASSUME TypeInv, NEW w \in Workers,
         RecordFailure(w) \/ upsertFromInvitation(w) \/ CommitSignIn(w) \/ Die(w)
  PROVE  TypeInv'
<1>1. req[w] \in Requests /\ StageOf(req[w])
  BY DEF TypeInv, TypeOK
<1>2. CASE RecordFailure(w)
  <2> DEFINE c == req[w].code
  <2> DEFINE b == codes[c].invalidated \/ codes[c].attempts + 1 >= MaxAttempts
  <2>1. c \in Cids /\ codes[c] \in Challenges /\ b \in BOOLEAN
    BY <1>1, <1>2 DEF RecordFailure, StageOf, TypeInv, TypeOK
  <2>2. /\ codes' = [codes EXCEPT ![c] = [codes[c] EXCEPT !.attempts = codes[c].attempts + 1, !.invalidated = b]]
        /\ Finish(w) /\ UNCHANGED <<account, invites, sent, begun, opened, alive, deaths>>
    BY <1>2, <2>1 DEF RecordFailure, TypeInv, TypeOK
  <2> HIDE DEF b, c
  <2>3. codes' \in [Cids -> Challenges]
    BY <2>1, <2>2, RowTyped DEF TypeInv, TypeOK
  <2> QED
    BY <2>2, <2>3, Finished DEF TypeInv, TypeOK
<1>3. CASE upsertFromInvitation(w)
  <2>1. UNCHANGED <<tables, deaths>> /\ req[w].pc = "signing"
    BY <1>3 DEF upsertFromInvitation
  <2>2. CASE Finish(w)
    BY <2>1, <2>2, Finished DEF TypeInv, TypeOK, tables
  <2>3. CASE Goto(w, "opening")
    <3> DEFINE q == [req[w] EXCEPT !.pc = "opening"]
    <3>1. q \in Requests /\ StageOf(q) /\ q.pc = "opening"
      BY <1>1, <2>1 DEF Requests, StageOf
    <3>2. req' = [req EXCEPT ![w] = q]
      BY <2>3 DEF Goto
    <3> HIDE DEF q
    <3> QED
      BY <2>1, <3>1, <3>2, Replaced DEF TypeInv, TypeOK, tables
  <2> QED
    BY <1>3, <2>2, <2>3 DEF upsertFromInvitation
<1>4. CASE CommitSignIn(w)
  <2> DEFINE c == req[w].code
  <2>1. c \in Cids /\ codes[c] \in Challenges /\ req[w].email \in Emails /\ req[w].inv \in Iids
    BY <1>1, <1>4 DEF CommitSignIn, StageOf, TypeInv, TypeOK
  <2>2. Finish(w) /\ UNCHANGED <<sent, begun, deaths>>
    BY <1>4 DEF CommitSignIn
  <2>3. codes' = [codes EXCEPT ![c] = [codes[c] EXCEPT !.consumed = TRUE]]
    BY <1>4, <2>1 DEF CommitSignIn, TypeInv, TypeOK
  <2>4. codes' \in [Cids -> Challenges]
    BY <2>1, <2>3, RowTyped DEF TypeInv, TypeOK
  <2>5. account' \in [Emails -> {"none", "active", "suspended"}]
    BY <1>4, <2>1 DEF CommitSignIn, TypeInv, TypeOK
  <2>6. invites' \in [Iids -> Invitations]
    <3>1. invites[req[w].inv] \in Invitations
      BY <2>1 DEF TypeInv, TypeOK
    <3>2. [invites[req[w].inv] EXCEPT !.status = "accepted"] \in Invitations
      BY <3>1 DEF Invitations
    <3> QED
      BY <1>4, <3>2 DEF CommitSignIn, MarkAccepted, TypeInv, TypeOK
  <2>7. opened' \in [Cids -> Nat] /\ alive' \in [Cids -> BOOLEAN]
    BY <1>4, <2>1 DEF CommitSignIn, TypeInv, TypeOK
  <2> QED
    BY <2>2, <2>4, <2>5, <2>6, <2>7, Finished DEF TypeInv, TypeOK
<1>5. CASE Die(w)
  <2> DEFINE c == req[w].code
  <2>1. /\ UNCHANGED <<account, invites, sent, begun, opened, alive>>
        /\ Finish(w) /\ deaths' \in 0 .. MaxDeaths
    BY <1>5, SignInAssumption DEF Die, TypeInv, TypeOK
  <2>2. codes' \in [Cids -> Challenges]
    <3>1. CASE req[w].pc # "failing"
      BY <1>5, <3>1 DEF Die, TypeInv, TypeOK
    <3>2. CASE req[w].pc = "failing"
      <4>1. c \in Cids /\ codes[c] \in Challenges
        BY <1>1, <3>2 DEF StageOf, TypeInv, TypeOK
      <4>2. codes' = [codes EXCEPT ![c] = [codes[c] EXCEPT !.lost = codes[c].lost + 1]]
        BY <1>5, <3>2, <4>1 DEF Die, TypeInv, TypeOK
      <4> HIDE DEF c
      <4> QED
        BY <4>1, <4>2, RowTyped DEF TypeInv, TypeOK
    <3> QED
      BY <3>1, <3>2
  <2> QED
    BY <2>1, <2>2, Finished DEF TypeInv, TypeOK
<1> QED
  BY <1>2, <1>3, <1>4, <1>5

(* The administrators' steps, and time. *)
LEMMA AdminTyped ==
  ASSUME TypeInv,
         \/ Administer
         \/ \E c \in Cids : ExpireCode(c)
         \/ \E i \in Iids : ExpireInvitation(i)
  PROVE  TypeInv'
<1>1. ASSUME UNCHANGED <<req, begun>>, TypeOK' PROVE TypeInv'
  <2>1. Asking' = Asking /\ (\A x \in Workers : StageOf(req[x]))'
    BY <1>1 DEF Asking, TypeInv, StageOf
  <2> QED
    BY <1>1, <2>1 DEF TypeInv, Room
<1>2. ASSUME NEW e \in Emails, CreateInvitation(e) PROVE TypeInv'
  <2>1. PICK i \in Iids :
           invites' = [invites EXCEPT ![i] = [NoInvitation EXCEPT !.email = e, !.status = "pending"]]
    BY <1>2 DEF CreateInvitation
  <2>2. [NoInvitation EXCEPT !.email = e, !.status = "pending"] \in Invitations
    BY DEF NoInvitation, Invitations
  <2>3. invites' \in [Iids -> Invitations]
    BY <2>1, <2>2 DEF TypeInv, TypeOK
  <2> QED
    BY <1>1, <1>2, <2>3 DEF CreateInvitation, TypeInv, TypeOK
<1>3. ASSUME NEW i \in Iids, RevokeInvitation(i) PROVE TypeInv'
  <2>1. invites[i] \in Invitations
    BY DEF TypeInv, TypeOK
  <2>2. [invites[i] EXCEPT !.status = "revoked"] \in Invitations
    BY <2>1 DEF Invitations
  <2>3. invites' \in [Iids -> Invitations]
    BY <1>3, <2>2 DEF RevokeInvitation, TypeInv, TypeOK
  <2>4. alive' \in [Cids -> BOOLEAN]
    BY <1>3 DEF RevokeInvitation, TypeInv, TypeOK
  <2> QED
    BY <1>1, <1>3, <2>3, <2>4 DEF RevokeInvitation, TypeInv, TypeOK
<1>4. ASSUME NEW e \in Emails, NEW s \in {"active", "suspended"}, SetUserStatus(e, s) PROVE TypeInv'
  <2>1. account' \in [Emails -> {"none", "active", "suspended"}] /\ alive' \in [Cids -> BOOLEAN]
    BY <1>4 DEF SetUserStatus, TypeInv, TypeOK
  <2> QED
    BY <1>1, <1>4, <2>1 DEF SetUserStatus, TypeInv, TypeOK
<1>5. ASSUME NEW c \in Cids, ExpireCode(c) PROVE TypeInv'
  <2>1. codes[c] \in Challenges /\ codes' = [codes EXCEPT ![c] = [codes[c] EXCEPT !.expired = TRUE]]
    BY <1>5 DEF ExpireCode, TypeInv, TypeOK
  <2>2. codes' \in [Cids -> Challenges]
    BY <2>1, RowTyped DEF TypeInv, TypeOK
  <2> QED
    BY <1>1, <1>5, <2>2 DEF ExpireCode, TypeInv, TypeOK
<1>6. ASSUME NEW i \in Iids, ExpireInvitation(i) PROVE TypeInv'
  <2>1. invites[i] \in Invitations
    BY DEF TypeInv, TypeOK
  <2>2. [invites[i] EXCEPT !.expired = TRUE] \in Invitations
    BY <2>1 DEF Invitations
  <2>3. invites' \in [Iids -> Invitations]
    BY <1>6, <2>2 DEF ExpireInvitation, TypeInv, TypeOK
  <2> QED
    BY <1>1, <1>6, <2>3 DEF ExpireInvitation, TypeInv, TypeOK
<1> QED
  BY <1>2, <1>3, <1>4, <1>5, <1>6 DEF Administer

(* The empty tables are well typed and leave room for every row. *)
LEMMA InitTyped == Init => TypeInv
<1> SUFFICES ASSUME Init PROVE TypeInv
  OBVIOUS
<1>1. Idle \in Requests /\ StageOf(Idle) /\ NoChallenge \in Challenges /\ NoInvitation \in Invitations
  BY DEF Idle, Requests, StageOf, NoChallenge, Challenges, NoInvitation, Invitations
<1>2. Asking = {}
  BY DEF Init, Asking, Idle
<1>3. Room
  BY <1>2, FS_EmptySet, SignInAssumption DEF Room, Init
<1>4. TypeOK
  BY <1>1, SignInAssumption DEF TypeOK, Init
<1> QED
  BY <1>1, <1>3, <1>4 DEF TypeInv, Init

(* Every step, and none, keeps the types. *)
LEMMA TypeStep == TypeInv /\ [Next]_vars => TypeInv'
<1>1. TypeInv /\ Next => TypeInv'
  BY AskTyped, FindTyped, InsertTyped, LockTyped, SignTyped, AdminTyped DEF Next, Arrive, Progress
<1>2. TypeInv /\ UNCHANGED vars => TypeInv'
  <2> SUFFICES ASSUME TypeInv, UNCHANGED vars PROVE TypeInv'
    OBVIOUS
  <2>1. TypeOK' /\ Asking' = Asking /\ (\A w \in Workers : StageOf(req[w]))'
    BY DEF TypeInv, TypeOK, vars, tables, Asking, StageOf
  <2> QED
    BY <2>1 DEF TypeInv, Room, vars, tables
<1> QED
  BY <1>1, <1>2

(* The tables and the requests in flight are well typed: in particular a   *)
(* row is there for every Issue that was admitted.                         *)
THEOREM SignInTypeCorrect == Spec => []TypeInv
BY InitTyped, TypeStep, PTL DEF Spec

----------------------------------------------------------------------------
(* Codes *)

(* A request that locks nothing new, begins no Issue and gets no code past *)
(* the comparison.                                                         *)
Calm(p, q) ==
    /\ q.held \subseteq p.held
    /\ q.pc \in Begun => q = p
    /\ q.pc \in {"signing", "opening"} =>
         /\ p.pc \in {"signing", "opening"}
         /\ q.code = p.code /\ q.email = p.email /\ q.held = p.held

(* A row whose code gets no livelier. *)
Kept(r, s) ==
    /\ s.email = r.email /\ s.consumed = r.consumed /\ s.beside = r.beside
    /\ r.invalidated => s.invalidated

(* Most steps are calm, and keep everything that is said of codes. *)
LEMMA CalmStep ==
  ASSUME TypeInv, CodeInv, UNCHANGED <<begun, opened>>,
         \A w \in Workers : Calm(req[w], req'[w]),
         \A c \in Cids : Kept(codes[c], codes'[c])
  PROVE  CodeInv'
<1>1. \A e : Live(e)' \subseteq Live(e)
  BY DEF Live, Kept
<1>2. Exclusive'
  BY DEF CodeInv, Exclusive, Calm
<1>3. Signing'
  <2> SUFFICES ASSUME NEW w \in Workers, req'[w].pc \in {"signing", "opening"}
               PROVE  /\ req'[w].code \in req'[w].held
                      /\ codes'[req'[w].code].email = req'[w].email
                      /\ ~codes'[req'[w].code].consumed
    BY DEF Signing
  <2>1. /\ req[w].pc \in {"signing", "opening"}
        /\ req'[w].code = req[w].code /\ req'[w].email = req[w].email /\ req'[w].held = req[w].held
    BY DEF Calm
  <2>2. req[w].code \in Cids
    BY <2>1 DEF TypeInv, StageOf
  <2> QED
    BY <2>1, <2>2 DEF CodeInv, Signing, Kept
<1>4. Empty'
  <2>1. \A c \in Cids : Unused(c) => Unused(c)'
    BY DEF Unused, Kept
  <2>2. \A w \in Workers : req'[w].pc \in Begun => req'[w] = req[w] /\ req[w].code \in Cids
    BY DEF Calm, TypeInv, StageOf, Begun
  <2> QED
    BY <2>1, <2>2 DEF CodeInv, Empty, Unused
<1>5. CodeUsedOnce'
  BY DEF CodeInv, CodeUsedOnce, Kept
<1>6. Retiring'
  <2> SUFFICES ASSUME NEW w \in Workers, req'[w].pc \in {"retiring", "inserting"},
                      NEW d \in Live(req[w].email)'
               PROVE  d \in Found(req'[w]) \/ req'[w].code \in codes'[d].beside
    BY DEF Retiring, Found
  <2>1. req'[w] = req[w] /\ d \in Live(req[w].email) /\ d \in Cids
    BY <1>1 DEF Calm, Begun, Live
  <2> QED
    BY <2>1 DEF CodeInv, Retiring, Kept
<1>7. SupersededRetired'
  <2> SUFFICES ASSUME NEW e \in Emails, NEW c \in Live(e)', NEW d \in Live(e)', c # d
               PROVE  d \in codes'[c].beside \/ c \in codes'[d].beside
    BY DEF SupersededRetired
  <2>1. c \in Live(e) /\ d \in Live(e) /\ c \in Cids /\ d \in Cids
    BY <1>1 DEF Live
  <2> QED
    BY <2>1 DEF CodeInv, SupersededRetired, Kept
<1> QED
  BY <1>2, <1>3, <1>4, <1>5, <1>6, <1>7 DEF CodeInv

(* Issue takes the next number. *)
LEMMA BeginStep ==
  ASSUME TypeInv, CodeInv, NEW w \in Workers, IssueBegin(w), TypeInv'
  PROVE  CodeInv'
<1>1. /\ req[w].pc = "issuing" /\ begun' = begun + 1 /\ UNCHANGED <<codes, opened>>
      /\ req'[w].pc = "reading" /\ req'[w].code = begun + 1 /\ req'[w].email = req[w].email
      /\ req'[w].held = req[w].held
      /\ \A x \in Workers \ {w} : req'[x] = req[x]
  BY DEF IssueBegin, TypeInv, TypeOK, Requests
<1>2. begun \in Nat /\ begun + 1 \in Cids
  BY <1>1 DEF TypeInv, TypeOK, StageOf
<1>3. \A e : Live(e)' = Live(e)
  BY <1>1 DEF Live
<1>4. Exclusive'
  BY <1>1 DEF CodeInv, Exclusive
<1>5. Signing'
  BY <1>1 DEF CodeInv, Signing
<1>6. Empty'
  <2>1. \A c \in Cids : Unused(c)' <=> Unused(c)
    BY <1>1 DEF Unused
  <2>2. Unused(begun + 1)
    BY <1>2 DEF CodeInv, Empty
  <2>3. \A x \in Workers : req[x].pc \in Begun => req[x].code <= begun /\ req[x].code \in Cids
    BY DEF CodeInv, Empty, TypeInv, StageOf, Begun
  <2>4. \A c \in Cids : c \in Nat
    BY DEF Cids
  <2>5. (\A c \in Cids : c > begun => Unused(c))'
    BY <1>1, <1>2, <2>1, <2>4 DEF CodeInv, Empty
  <2>6. (\A x \in Workers : req[x].pc \in Begun => Unused(req[x].code) /\ req[x].code <= begun)'
    <3> SUFFICES ASSUME NEW x \in Workers, req'[x].pc \in Begun
                 PROVE  Unused(req[x].code)' /\ req'[x].code <= begun'
      OBVIOUS
    <3>1. CASE x = w
      BY <1>1, <1>2, <2>1, <2>2, <3>1 DEF Unused
    <3>2. CASE x # w
      <4>1. req'[x] = req[x] /\ Unused(req[x].code)
        BY <1>1, <3>2 DEF CodeInv, Empty
      <4> QED
        BY <1>1, <1>2, <2>3, <2>4, <4>1 DEF Unused
    <3> QED
      BY <3>1, <3>2
  <2>7. (\A v, x \in Workers :
           v # x /\ req[v].pc \in Begun /\ req[x].pc \in Begun => req[v].code # req[x].code)'
    <3> SUFFICES ASSUME NEW v \in Workers, NEW x \in Workers, v # x,
                        req'[v].pc \in Begun, req'[x].pc \in Begun
                 PROVE  req'[v].code # req'[x].code
      OBVIOUS
    <3>1. CASE v # w /\ x # w
      BY <1>1, <3>1 DEF CodeInv, Empty
    <3>2. CASE v = w
      <4>1. req'[x] = req[x] /\ req[x].code <= begun /\ req[x].code \in Nat
        BY <1>1, <2>3, <2>4, <3>2
      <4> QED
        BY <1>1, <1>2, <3>2, <4>1
    <3>3. CASE x = w
      <4>1. req'[v] = req[v] /\ req[v].code <= begun /\ req[v].code \in Nat
        BY <1>1, <2>3, <2>4, <3>3
      <4> QED
        BY <1>1, <1>2, <3>3, <4>1
    <3> QED
      BY <3>1, <3>2, <3>3
  <2> QED
    BY <2>5, <2>6, <2>7 DEF Empty
<1>7. CodeUsedOnce'
  BY <1>1 DEF CodeInv, CodeUsedOnce
<1>8. Retiring'
  <2>1. \A x \in Workers : req'[x].pc \in {"retiring", "inserting"} => req'[x] = req[x]
    BY <1>1
  <2> QED
    BY <1>1, <1>3, <2>1 DEF CodeInv, Retiring, Found
<1>9. SupersededRetired'
  BY <1>1, <1>3 DEF CodeInv, SupersededRetired
<1> QED
  BY <1>4, <1>5, <1>6, <1>7, <1>8, <1>9 DEF CodeInv

(* An Issue with its number goes on, and writes nothing yet. *)
LEMMA IssueStep ==
  ASSUME TypeInv, CodeInv, NEW w \in Workers,
         req[w].pc \in Begun, req'[w].pc \in Begun, req'[w].code = req[w].code,
         \A x \in Workers \ {w} : req'[x] = req[x],
         UNCHANGED <<codes, begun, opened>>, Exclusive', Retiring'
  PROVE  CodeInv'
<1>1. codes' = codes /\ begun' = begun /\ opened' = opened
  OBVIOUS
<1>2. \A x \in Workers : req'[x].pc \in Begun => req[x].pc \in Begun /\ req'[x].code = req[x].code
  OBVIOUS
<1>3. Signing'
  <2>1. \A x \in Workers : req'[x].pc \in {"signing", "opening"} => req'[x] = req[x]
    BY DEF Begun
  <2> QED
    BY <1>1, <2>1 DEF CodeInv, Signing
<1>4. Empty'
  <2>1. Empty /\ \A d : Unused(d)' <=> Unused(d)
    BY <1>1 DEF Unused, CodeInv
  <2>2. (\A d \in Cids : d > begun => Unused(d))'
    BY <1>1, <2>1 DEF Empty
  <2>3. (\A x \in Workers : req[x].pc \in Begun => Unused(req[x].code) /\ req[x].code <= begun)'
    BY <1>1, <1>2, <2>1 DEF Empty, Unused
  <2>4. (\A v, x \in Workers :
           v # x /\ req[v].pc \in Begun /\ req[x].pc \in Begun => req[v].code # req[x].code)'
    BY <1>2, <2>1 DEF Empty
  <2> QED
    BY <2>2, <2>3, <2>4 DEF Empty
<1>5. CodeUsedOnce'
  BY <1>1 DEF CodeInv, CodeUsedOnce
<1>6. SupersededRetired'
  BY <1>1 DEF CodeInv, SupersededRetired, Live
<1> QED
  BY <1>3, <1>4, <1>5, <1>6 DEF CodeInv

(* Issue finds every code that is live. *)
LEMMA ReadStep ==
  ASSUME TypeInv, CodeInv, NEW w \in Workers, IssueRead(w)
  PROVE  CodeInv'
<1>1. /\ req[w].pc = "reading" /\ UNCHANGED <<codes, begun, opened>>
      /\ req'[w].pc = "retiring" /\ req'[w].code = req[w].code /\ req'[w].email = req[w].email
      /\ req'[w].seen = Live(req[w].email) /\ req'[w].held = req[w].held
      /\ \A x \in Workers \ {w} : req'[x] = req[x]
  BY DEF IssueRead, Snapshot, tables, TypeInv, TypeOK, Requests
<1>2. \A e : Live(e)' = Live(e)
  BY <1>1 DEF Live
<1>3. Exclusive'
  BY <1>1 DEF CodeInv, Exclusive
<1>4. Retiring'
  <2> SUFFICES ASSUME NEW x \in Workers, req'[x].pc \in {"retiring", "inserting"},
                      NEW d \in Live(req[x].email)'
               PROVE  d \in Found(req'[x]) \/ req'[x].code \in codes'[d].beside
    BY DEF Retiring, Found
  <2>1. CASE x = w
    BY <1>1, <1>2, <2>1 DEF Found
  <2>2. CASE x # w
    BY <1>1, <1>2, <2>2 DEF CodeInv, Retiring, Found
  <2> QED
    BY <2>1, <2>2
<1>5. req[w].pc \in Begun /\ req'[w].pc \in Begun
  BY <1>1 DEF Begun
<1> QED
  BY <1>1, <1>3, <1>4, <1>5, IssueStep

(* Issue locks the codes it has found that are live still. *)
LEMMA RetireStep ==
  ASSUME TypeInv, CodeInv, NEW w \in Workers, IssueRetire(w)
  PROVE  CodeInv'
<1>1. /\ req[w].pc = "retiring" /\ UNCHANGED <<codes, begun, opened>>
      /\ ~LockedByOther(w, StillLive(w))
      /\ req'[w].pc = "inserting" /\ req'[w].code = req[w].code /\ req'[w].email = req[w].email
      /\ req'[w].held = StillLive(w)
      /\ \A x \in Workers \ {w} : req'[x] = req[x]
  BY DEF IssueRetire, tables, TypeInv, TypeOK, Requests
<1>2. \A e : Live(e)' = Live(e)
  BY <1>1 DEF Live
<1>3. Exclusive'
  BY <1>1 DEF CodeInv, Exclusive, LockedByOther
<1>4. Retiring'
  <2> SUFFICES ASSUME NEW x \in Workers, req'[x].pc \in {"retiring", "inserting"},
                      NEW d \in Live(req[x].email)'
               PROVE  d \in Found(req'[x]) \/ req'[x].code \in codes'[d].beside
    BY DEF Retiring, Found
  <2>1. CASE x = w
    <3>1. d \in Live(req[w].email) /\ req'[x].code = req[w].code /\ codes'[d] = codes[d]
      BY <1>1, <1>2, <2>1
    <3>2. d \in req[w].seen \/ req[w].code \in codes[d].beside
      BY <1>1, <3>1 DEF CodeInv, Retiring, Found
    <3> QED
      BY <1>1, <2>1, <3>1, <3>2 DEF StillLive, Found
  <2>2. CASE x # w
    BY <1>1, <1>2, <2>2 DEF CodeInv, Retiring, Found
  <2> QED
    BY <2>1, <2>2
<1>5. req[w].pc \in Begun /\ req'[w].pc \in Begun
  BY <1>1 DEF Begun
<1> QED
  BY <1>1, <1>3, <1>4, <1>5, IssueStep

(* Issue commits: the earlier codes are retired and the new one is there,  *)
(* beside those of the Issues that have not committed.                     *)
LEMMA InsertStep ==
  ASSUME TypeInv, CodeInv, NEW w \in Workers, IssueInsert(w)
  PROVE  CodeInv'
<1> DEFINE n == req[w].code
<1> DEFINE B == {req[v].code : v \in {v \in Workers \ {w} : req[v].pc \in {"retiring", "inserting"}}}
<1>1. /\ req[w].pc = "inserting" /\ UNCHANGED <<begun, opened>>
      /\ req'[w].pc = "sending" /\ req'[w].held = {}
      /\ \A x \in Workers \ {w} : req'[x] = req[x]
  BY DEF IssueInsert, TypeInv, TypeOK, Requests
<1>2. n \in Cids /\ req[w].email \in Emails /\ Unused(n)
  BY <1>1 DEF TypeInv, StageOf, CodeInv, Empty, Begun
<1>3. /\ codes'[n].email = req[w].email /\ ~codes'[n].consumed /\ codes'[n].beside = B
      /\ \A c \in Cids \ {n} : Kept(codes[c], codes'[c]) /\ (c \in req[w].held => codes'[c].invalidated)
  <2>1. codes' = [c \in Cids |->
                    IF c = n THEN [NoChallenge EXCEPT !.email = req[w].email, !.beside = B]
                    ELSE [codes[c] EXCEPT !.invalidated = codes[c].invalidated \/ c \in req[w].held]]
    BY DEF IssueInsert
  <2>2. codes'[n] = [NoChallenge EXCEPT !.email = req[w].email, !.beside = B]
    BY <1>2, <2>1
  <2>3. codes'[n].email = req[w].email /\ ~codes'[n].consumed /\ codes'[n].beside = B
    BY <2>2 DEF NoChallenge
  <2>4. ASSUME NEW c \in Cids \ {n}
        PROVE  Kept(codes[c], codes'[c]) /\ (c \in req[w].held => codes'[c].invalidated)
    <3>1. codes'[c] = [codes[c] EXCEPT !.invalidated = codes[c].invalidated \/ c \in req[w].held]
      BY <2>1
    <3>2. codes[c] \in Challenges
      BY DEF TypeInv, TypeOK
    <3> QED
      BY <3>1, <3>2 DEF Kept, Challenges
  <2> QED
    BY <2>3, <2>4
<1> HIDE DEF n
<1>4. NULL \notin Emails
  BY SignInAssumption
<1>5. \A e \in Emails, d \in Cids :
         codes'[d].email = e /\ ~codes'[d].consumed /\ ~codes'[d].invalidated =>
            \/ d = n /\ e = req[w].email
            \/ d # n /\ d \in Live(e) /\ d \notin req[w].held
  <2> SUFFICES ASSUME NEW e \in Emails, NEW d \in Cids,
                      codes'[d].email = e, ~codes'[d].consumed, ~codes'[d].invalidated
               PROVE  \/ d = n /\ e = req[w].email
                      \/ d # n /\ d \in Live(e) /\ d \notin req[w].held
    OBVIOUS
  <2>1. d \in Cids /\ codes'[d].email = e /\ ~codes'[d].consumed /\ ~codes'[d].invalidated
    OBVIOUS
  <2>2. CASE d = n
    BY <1>3, <2>1, <2>2
  <2>3. CASE d # n
    <3>1. Kept(codes[d], codes'[d]) /\ d \notin req[w].held
      BY <1>3, <2>1, <2>3
    <3>2. codes[d].email = e /\ ~codes[d].consumed /\ ~codes[d].invalidated
      BY <2>1, <3>1 DEF Kept
    <3> QED
      BY <2>1, <2>3, <3>1, <3>2 DEF Live
  <2> QED
    BY <2>2, <2>3
<1>6. Exclusive'
  BY <1>1 DEF CodeInv, Exclusive
<1>7. Signing'
  <2> SUFFICES ASSUME NEW x \in Workers, req'[x].pc \in {"signing", "opening"}
               PROVE  /\ req'[x].code \in req'[x].held
                      /\ codes'[req'[x].code].email = req'[x].email
                      /\ ~codes'[req'[x].code].consumed
    BY DEF Signing
  <2>1. x # w /\ req'[x] = req[x]
    BY <1>1
  <2>2. req[x].code \in Cids /\ req[x].email \in Emails
    BY <2>1 DEF TypeInv, StageOf
  <2>3. codes[req[x].code].email = req[x].email /\ ~codes[req[x].code].consumed /\ req[x].code \in req[x].held
    BY <2>1 DEF CodeInv, Signing
  <2>4. req[x].code # n
    BY <1>2, <1>4, <2>2, <2>3 DEF Unused
  <2> QED
    BY <1>3, <2>1, <2>2, <2>3, <2>4 DEF Kept
<1>8. Empty'
  <2>1. n <= begun /\ begun \in Nat /\ n \in Nat
    BY <1>1, <1>2 DEF CodeInv, Empty, Cids, n, TypeInv, TypeOK, Begun
  <2>2. \A c \in Cids \ {n} : Unused(c) => Unused(c)'
    BY <1>3 DEF Unused, Kept
  <2>3. \A c \in Cids : c > begun => c # n
    BY <2>1 DEF Cids
  <2>4. \A x \in Workers : req'[x].pc \in Begun =>
           x # w /\ req'[x] = req[x] /\ req[x].code \in Cids /\ req[x].code # n
    BY <1>1 DEF CodeInv, Empty, TypeInv, StageOf, n, Begun
  <2>5. (\A c \in Cids : c > begun => Unused(c))'
    BY <1>1, <2>2, <2>3 DEF CodeInv, Empty
  <2>6. (\A x \in Workers : req[x].pc \in Begun => Unused(req[x].code) /\ req[x].code <= begun)'
    <3> SUFFICES ASSUME NEW x \in Workers, req'[x].pc \in Begun
                 PROVE  Unused(req[x].code)' /\ req'[x].code <= begun'
      OBVIOUS
    <3>1. req'[x] = req[x] /\ req[x].code \in Cids \ {n} /\ Unused(req[x].code) /\ req[x].code <= begun
      BY <2>4 DEF CodeInv, Empty
    <3> QED
      BY <1>1, <2>2, <3>1 DEF Unused
  <2>7. (\A v, x \in Workers :
           v # x /\ req[v].pc \in Begun /\ req[x].pc \in Begun => req[v].code # req[x].code)'
    BY <2>4 DEF CodeInv, Empty
  <2> QED
    BY <2>5, <2>6, <2>7 DEF Empty
<1>9. CodeUsedOnce'
  BY <1>1, <1>2, <1>3 DEF CodeInv, CodeUsedOnce, Kept, Unused
<1>10. Retiring'
  <2> SUFFICES ASSUME NEW x \in Workers, req'[x].pc \in {"retiring", "inserting"},
                      NEW d \in Live(req[x].email)'
               PROVE  d \in Found(req'[x]) \/ req'[x].code \in codes'[d].beside
    BY DEF Retiring, Found
  <2>1. x # w /\ req'[x] = req[x] /\ req[x].email \in Emails
    BY <1>1 DEF TypeInv, StageOf
  <2>2. CASE d = n
    <3>1. req[x].code \in B
      BY <2>1
    <3> QED
      BY <1>3, <2>1, <2>2, <3>1
  <2>3. CASE d # n
    <3>1. d \in Live(req[x].email) /\ d \in Cids
      BY <1>5, <2>1, <2>3 DEF Live
    <3>2. d \in Found(req[x]) \/ req[x].code \in codes[d].beside
      BY <2>1, <3>1 DEF CodeInv, Retiring
    <3> QED
      BY <1>3, <2>1, <2>3, <3>1, <3>2 DEF Kept
  <2> QED
    BY <2>2, <2>3
<1>11. SupersededRetired'
  <2>1. ASSUME NEW e \in Emails, NEW c \in Live(e)', NEW d \in Live(e)', c = n, d # n
        PROVE  n \in codes'[d].beside
    <3>1. d \in Live(e) /\ d \notin req[w].held /\ e = req[w].email /\ d \in Cids
      BY <1>5, <2>1 DEF Live
    <3>2. n \in codes[d].beside
      BY <1>1, <3>1 DEF CodeInv, Retiring, Found, n
    <3> QED
      BY <1>3, <2>1, <3>1, <3>2 DEF Kept
  <2>2. ASSUME NEW e \in Emails, NEW c \in Live(e)', NEW d \in Live(e)', c # n, d # n, c # d
        PROVE  d \in codes'[c].beside \/ c \in codes'[d].beside
    <3>1. c \in Live(e) /\ d \in Live(e) /\ c \in Cids /\ d \in Cids
      BY <1>5, <2>2 DEF Live
    <3> QED
      BY <1>3, <2>2, <3>1 DEF CodeInv, SupersededRetired, Kept
  <2> QED
    BY <2>1, <2>2 DEF SupersededRetired
<1> QED
  BY <1>6, <1>7, <1>8, <1>9, <1>10, <1>11 DEF CodeInv

(* The right code: the newest live row is locked. *)
LEMMA RightCode ==
  ASSUME TypeInv, CodeInv, NEW w \in Workers, NEW c \in Live(req[w].email),
         \A x \in Workers \ {w} : c \notin req[x].held,
         req'[w].pc = "signing", req'[w].held = {c}, req'[w].code = c, req'[w].email = req[w].email,
         \A x \in Workers \ {w} : req'[x] = req[x],
         UNCHANGED <<codes, begun, opened>>
  PROVE  CodeInv'
<1>2. Exclusive'
  <2> SUFFICES ASSUME NEW v \in Workers, NEW x \in Workers, v # x
               PROVE  req'[v].held \cap req'[x].held = {}
    BY DEF Exclusive
  <2>2. CASE v = w
    BY <2>2
  <2>3. CASE x = w
    BY <2>3
  <2>4. CASE v # w /\ x # w
    BY <2>4 DEF CodeInv, Exclusive
  <2> QED
    BY <2>2, <2>3, <2>4
<1>3. Signing'
  <2> SUFFICES ASSUME NEW x \in Workers, req'[x].pc \in {"signing", "opening"}
               PROVE  /\ req'[x].code \in req'[x].held
                      /\ codes[req'[x].code].email = req'[x].email
                      /\ ~codes[req'[x].code].consumed
    BY DEF Signing
  <2>1. CASE x = w
    BY <2>1 DEF Live
  <2>2. CASE x # w
    BY <2>2 DEF CodeInv, Signing
  <2> QED
    BY <2>1, <2>2
<1>4. \A x \in Workers : req'[x].pc \in Begun => req'[x] = req[x] /\ req[x].pc \in Begun
  BY DEF Begun
<1>5. Empty' /\ CodeUsedOnce'
  <2>1. codes' = codes /\ begun' = begun /\ opened' = opened
    OBVIOUS
  <2>2. Empty'
    <3>1. \A d : Unused(d)' <=> Unused(d)
      BY <2>1 DEF Unused
    <3>2. Empty
      BY DEF CodeInv
    <3>3. (\A d \in Cids : d > begun => Unused(d))'
      BY <2>1, <3>1, <3>2 DEF Empty
    <3>4. (\A x \in Workers : req[x].pc \in Begun => Unused(req[x].code) /\ req[x].code <= begun)'
      BY <1>4, <2>1, <3>2 DEF Empty, Unused
    <3>5. (\A v, x \in Workers :
             v # x /\ req[v].pc \in Begun /\ req[x].pc \in Begun => req[v].code # req[x].code)'
      BY <1>4, <3>2 DEF Empty
    <3> QED
      BY <3>3, <3>4, <3>5 DEF Empty
  <2>3. CodeUsedOnce'
    BY <2>1 DEF CodeInv, CodeUsedOnce
  <2> QED
    BY <2>2, <2>3
<1>6. Retiring' /\ SupersededRetired'
  BY <1>4 DEF CodeInv, Retiring, SupersededRetired, Live, Begun
<1> QED
  BY <1>2, <1>3, <1>5, <1>6 DEF CodeInv

(* A sign-in commits: its code, which no other request holds, is used up. *)
LEMMA CommitStep ==
  ASSUME TypeInv, CodeInv, NEW w \in Workers, CommitSignIn(w)
  PROVE  CodeInv'
<1> DEFINE c == req[w].code
<1>1. /\ req[w].pc = "opening" /\ UNCHANGED begun
      /\ req'[w] = Idle /\ \A x \in Workers \ {w} : req'[x] = req[x]
  BY DEF CommitSignIn, Finish, TypeInv, TypeOK
<1>2. c \in Cids /\ c \in req[w].held /\ ~codes[c].consumed /\ codes[c].email \in Emails
  BY <1>1 DEF TypeInv, StageOf, CodeInv, Signing
<1>3. /\ codes'[c].consumed /\ codes'[c].email = codes[c].email /\ codes'[c].invalidated = codes[c].invalidated
      /\ codes'[c].beside = codes[c].beside
      /\ \A d \in Cids \ {c} : codes'[d] = codes[d]
      /\ opened'[c] = opened[c] + 1 /\ \A d \in Cids \ {c} : opened'[d] = opened[d]
  BY <1>2 DEF CommitSignIn, TypeInv, TypeOK, Challenges
<1> HIDE DEF c
<1>4. \A x \in Workers : req'[x].pc # "idle" => x # w /\ req'[x] = req[x]
  BY <1>1 DEF Idle
<1>5. Exclusive'
  BY <1>1 DEF CodeInv, Exclusive, Idle
<1>6. Signing'
  <2> SUFFICES ASSUME NEW x \in Workers, req'[x].pc \in {"signing", "opening"}
               PROVE  /\ req'[x].code \in req'[x].held
                      /\ codes'[req'[x].code].email = req'[x].email
                      /\ ~codes'[req'[x].code].consumed
    BY DEF Signing
  <2>1. x # w /\ req'[x] = req[x] /\ req[x].code \in req[x].held /\ req[x].code \in Cids
    BY <1>4 DEF CodeInv, Signing, TypeInv, StageOf
  <2>2. req[x].code # c
    BY <1>2, <2>1 DEF CodeInv, Exclusive
  <2> QED
    BY <1>3, <2>1, <2>2 DEF CodeInv, Signing
<1>7. Empty'
  <2>1. NULL \notin Emails
    BY SignInAssumption
  <2>2. \A d \in Cids : Unused(d) => Unused(d)'
    BY <1>2, <1>3, <2>1 DEF Unused
  <2>3. \A x \in Workers : req'[x].pc \in Begun => req'[x] = req[x] /\ req[x].code \in Cids
    BY <1>4 DEF TypeInv, StageOf, Begun
  <2> QED
    BY <1>1, <2>2, <2>3 DEF CodeInv, Empty, Unused
<1>8. CodeUsedOnce'
  BY <1>2, <1>3 DEF CodeInv, CodeUsedOnce
<1>9. \A e, d : d \in Live(e)' => d \in Live(e) /\ codes'[d].beside = codes[d].beside
  BY <1>3 DEF Live
<1>10. Retiring'
  BY <1>4, <1>9 DEF CodeInv, Retiring
<1>11. SupersededRetired'
  BY <1>9 DEF CodeInv, SupersededRetired
<1> QED
  BY <1>5, <1>6, <1>7, <1>8, <1>10, <1>11 DEF CodeInv

(* Presenting a code locks the newest live row, or is calm. *)
LEMMA LockStep ==
  ASSUME TypeInv, CodeInv, NEW w \in Workers, LockLive(w)
  PROVE  CodeInv'
<1> DEFINE c == Newest(StillLive(w))
<1>1. req[w] \in Requests /\ req[w].pc = "locking" /\ UNCHANGED <<begun, opened>>
  BY DEF LockLive, TypeInv, TypeOK
<1>2. \A x \in Workers : Calm(req[x], req[x])
  BY DEF Calm
<1>3. CASE Finish(w) /\ UNCHANGED codes
  <2>1. \A x \in Workers : req'[x] = IF x = w THEN Idle ELSE req[x]
    BY <1>3 DEF Finish, TypeInv, TypeOK
  <2>2. Calm(req[w], Idle)
    BY DEF Calm, Idle, Begun
  <2>3. \A x \in Workers : Calm(req[x], req'[x])
    BY <1>2, <2>1, <2>2
  <2>4. \A d \in Cids : Kept(codes[d], codes'[d])
    BY <1>3 DEF Kept
  <2> QED
    BY <1>1, <2>3, <2>4, CalmStep
<1>4. CASE StillLive(w) # {} /\ ~(Finish(w) /\ UNCHANGED codes)
  <2>1. c \in Live(req[w].email) /\ c \in Cids
    BY <1>4, NewestIsOne DEF Live, StillLive
  <2>2. /\ ~LockedByOther(w, {c})
        /\ \/ /\ req' = [req EXCEPT ![w].pc = "failing", ![w].code = c, ![w].seen = {}]
              /\ codes' = [codes EXCEPT ![c].tried = @ + 1]
           \/ /\ req' = [req EXCEPT ![w].pc = "signing", ![w].seen = {}, ![w].held = {c}]
              /\ req[w].code = c
              /\ UNCHANGED codes
    BY <1>4 DEF LockLive
  <2> HIDE DEF c
  <2>3. CASE /\ req' = [req EXCEPT ![w].pc = "failing", ![w].code = c, ![w].seen = {}]
             /\ codes' = [codes EXCEPT ![c].tried = @ + 1]
    <3>1. \A x \in Workers : req'[x] = IF x = w THEN [req[w] EXCEPT !.pc = "failing", !.code = c, !.seen = {}] ELSE req[x]
      BY <2>3 DEF TypeInv, TypeOK
    <3>2. Calm(req[w], [req[w] EXCEPT !.pc = "failing", !.code = c, !.seen = {}])
      BY <1>1 DEF Calm, Requests, Begun
    <3>3. \A x \in Workers : Calm(req[x], req'[x])
      BY <1>2, <3>1, <3>2
    <3>4. \A d \in Cids : Kept(codes[d], codes'[d])
      BY <2>1, <2>3 DEF Kept, TypeInv, TypeOK, Challenges
    <3> QED
      BY <1>1, <3>3, <3>4, CalmStep
  <2>4. CASE /\ req' = [req EXCEPT ![w].pc = "signing", ![w].seen = {}, ![w].held = {c}]
             /\ req[w].code = c
             /\ UNCHANGED codes
    <3>1. /\ req'[w].pc = "signing" /\ req'[w].held = {c} /\ req'[w].code = c /\ req'[w].email = req[w].email
          /\ \A x \in Workers \ {w} : req'[x] = req[x]
      BY <1>1, <2>4 DEF TypeInv, TypeOK, Requests
    <3>2. \A x \in Workers \ {w} : c \notin req[x].held
      BY <2>2 DEF LockedByOther
    <3> QED
      BY <1>1, <2>1, <2>4, <3>1, <3>2, RightCode
  <2> QED
    BY <2>2, <2>3, <2>4
<1> QED
  BY <1>3, <1>4 DEF LockLive

(* The other steps of a request are calm. *)
LEMMA CalmRequest ==
  ASSUME TypeInv, CodeInv, NEW w \in Workers,
         \/ \E e \in Emails : Request(w, e)
         \/ \E e \in Emails, code \in sent \cup {NULL} : VerifyAndSignIn(w, e, code)
         \/ CheckAllowlist(w) \/ LockRead(w) \/ (\E delivered \in BOOLEAN : SendOTP(w, delivered))
         \/ RecordFailure(w) \/ upsertFromInvitation(w) \/ Die(w)
  PROVE  CodeInv'
<1>1. req[w] \in Requests
  BY DEF TypeInv, TypeOK
<1>2. UNCHANGED <<begun, opened>>
  BY DEF Request, VerifyAndSignIn, CheckAllowlist, LockRead, SendOTP, RecordFailure,
         upsertFromInvitation, Die, tables
<1>3. ASSUME NEW q, req' = [req EXCEPT ![w] = q], Calm(req[w], q)
      PROVE  \A x \in Workers : Calm(req[x], req'[x])
  BY <1>3 DEF Calm, TypeInv, TypeOK
<1>4. Calm(req[w], Idle)
  BY DEF Calm, Idle, Begun
<1>5. ASSUME Finish(w) PROVE \A x \in Workers : Calm(req[x], req'[x])
  BY <1>3, <1>4, <1>5 DEF Finish
<1>6. ASSUME UNCHANGED codes PROVE \A d \in Cids : Kept(codes[d], codes'[d])
  BY <1>6 DEF Kept
<1>7. CASE \E e \in Emails : Request(w, e)
  <2>1. PICK e \in Emails : req' = [req EXCEPT ![w] = [Idle EXCEPT !.pc = "allowlist", !.email = e]]
    BY <1>7 DEF Request, Start
  <2>2. Calm(req[w], [Idle EXCEPT !.pc = "allowlist", !.email = e])
    BY DEF Calm, Idle, Begun
  <2>3. UNCHANGED codes
    BY <1>7 DEF Request, tables
  <2> QED
    BY <1>2, <1>3, <1>6, <2>1, <2>2, <2>3, CalmStep
<1>8. CASE \E e \in Emails, code \in sent \cup {NULL} : VerifyAndSignIn(w, e, code)
  <2>1. PICK e, i, code :
           req' = [req EXCEPT ![w] = [Idle EXCEPT !.pc = "verifying", !.email = e, !.inv = i, !.code = code]]
    BY <1>8 DEF VerifyAndSignIn, Start
  <2>2. Calm(req[w], [Idle EXCEPT !.pc = "verifying", !.email = e, !.inv = i, !.code = code])
    BY DEF Calm, Idle, Begun
  <2>3. UNCHANGED codes
    BY <1>8 DEF VerifyAndSignIn, tables
  <2> QED
    BY <1>2, <1>3, <1>6, <2>1, <2>2, <2>3, CalmStep
<1>9. CASE CheckAllowlist(w)
  <2>1. UNCHANGED codes /\ (Finish(w) \/ Goto(w, "issuing"))
    BY <1>9 DEF CheckAllowlist, tables
  <2>2. Calm(req[w], [req[w] EXCEPT !.pc = "issuing"])
    BY <1>1 DEF Calm, Requests, Begun
  <2> QED
    BY <1>2, <1>3, <1>5, <1>6, <2>1, <2>2, CalmStep DEF Goto
<1>10. CASE \E delivered \in BOOLEAN : SendOTP(w, delivered)
  <2>1. UNCHANGED codes /\ Finish(w)
    BY <1>10 DEF SendOTP
  <2> QED
    BY <1>2, <1>5, <1>6, <2>1, CalmStep
<1>13. CASE Die(w)
  <2>1. Finish(w) /\ (req[w].pc = "failing" => req[w].code \in Cids)
    BY <1>13 DEF Die, TypeInv, StageOf
  <2>2. \A d \in Cids : Kept(codes[d], codes'[d])
    BY <1>13, <2>1 DEF Die, Kept, TypeInv, TypeOK, Challenges
  <2> QED
    BY <1>2, <1>5, <2>1, <2>2, CalmStep
<1>14. CASE LockRead(w)
  <2>1. UNCHANGED codes /\ req' = [req EXCEPT ![w] = [req[w] EXCEPT !.pc = "locking", !.seen = Live(req[w].email)]]
    BY <1>14 DEF LockRead, Snapshot, tables
  <2>2. Calm(req[w], [req[w] EXCEPT !.pc = "locking", !.seen = Live(req[w].email)])
    BY <1>1 DEF Calm, Requests, Begun
  <2> QED
    BY <1>2, <1>3, <1>6, <2>1, <2>2, CalmStep
<1>11. CASE RecordFailure(w)
  <2>1. req[w].code \in Cids /\ Finish(w)
    BY <1>11 DEF RecordFailure, TypeInv, StageOf
  <2>2. \A d \in Cids : Kept(codes[d], codes'[d])
    BY <1>11, <2>1 DEF RecordFailure, Kept, TypeInv, TypeOK, Challenges
  <2> QED
    BY <1>2, <1>5, <2>1, <2>2, CalmStep
<1>12. CASE upsertFromInvitation(w)
  <2>1. UNCHANGED codes /\ req[w].pc = "signing" /\ (Finish(w) \/ Goto(w, "opening"))
    BY <1>12 DEF upsertFromInvitation, tables
  <2>2. Calm(req[w], [req[w] EXCEPT !.pc = "opening"])
    BY <1>1, <2>1 DEF Calm, Requests, Begun
  <2> QED
    BY <1>2, <1>3, <1>5, <1>6, <2>1, <2>2, CalmStep DEF Goto
<1> QED
  BY <1>7, <1>8, <1>9, <1>10, <1>11, <1>12, <1>13, <1>14

(* Every step, and none, keeps what is said of codes. *)
LEMMA CodeStep == TypeInv /\ CodeInv /\ [Next]_vars /\ TypeInv' => CodeInv'
<1> SUFFICES ASSUME TypeInv, CodeInv, [Next]_vars, TypeInv' PROVE CodeInv'
  OBVIOUS
<1>1. ASSUME NEW w \in Workers, Arrive(w) \/ Progress(w) \/ Die(w) PROVE CodeInv'
  BY <1>1, BeginStep, ReadStep, RetireStep, InsertStep, LockStep, CommitStep, CalmRequest DEF Arrive, Progress
<1>2. ASSUME UNCHANGED <<req, begun, opened>>, \A d \in Cids : Kept(codes[d], codes'[d]) PROVE CodeInv'
  <2>1. \A x \in Workers : Calm(req[x], req'[x])
    BY <1>2 DEF Calm
  <2> QED
    BY <1>2, <2>1, CalmStep
<1>3. ASSUME UNCHANGED <<req, begun, opened, codes>> PROVE CodeInv'
  BY <1>2, <1>3 DEF Kept
<1>4. CASE Administer \/ \E i \in Iids : ExpireInvitation(i)
  BY <1>3, <1>4 DEF Administer, CreateInvitation, RevokeInvitation, SetUserStatus, ExpireInvitation
<1>5. ASSUME NEW c \in Cids, ExpireCode(c) PROVE CodeInv'
  <2>1. \A d \in Cids : Kept(codes[d], codes'[d])
    BY <1>5 DEF ExpireCode, Kept, TypeInv, TypeOK, Challenges
  <2> QED
    BY <1>2, <1>5, <2>1 DEF ExpireCode
<1>6. CASE UNCHANGED vars
  BY <1>3, <1>6 DEF vars, tables
<1> QED
  BY <1>1, <1>4, <1>5, <1>6 DEF Next

(* At first there is no code. *)
LEMMA InitCodes == Init => CodeInv
<1> SUFFICES ASSUME Init PROVE CodeInv
  OBVIOUS
<1>1. \A w \in Workers : req[w].pc = "idle" /\ req[w].held = {}
  BY DEF Init, Idle
<1>2. \A c \in Cids : codes[c].email = NULL /\ ~codes[c].consumed /\ opened[c] = 0
  BY DEF Init, NoChallenge
<1>3. \A e \in Emails : Live(e) = {}
  BY <1>2, SignInAssumption DEF Live
<1> QED
  BY <1>1, <1>2, <1>3
     DEF CodeInv, Exclusive, Signing, Empty, Unused, Begun, CodeUsedOnce, Retiring, SupersededRetired

(* What is said of codes holds throughout. *)
LEMMA CodesHold == Spec => []CodeInv
BY InitCodes, CodeStep, SignInTypeCorrect, PTL DEF Spec

(* A code opens exactly one session, however many requests present it at   *)
(* once (otp.go: LockLive ... FOR UPDATE, and the consume, the account and *)
(* the session in the one transaction).                                    *)
THEOREM OneSessionPerCode == Spec => []CodeUsedOnce
BY CodesHold, PTL DEF CodeInv

(* Two codes of one address are live together only when neither Issue had  *)
(* committed before the other looked for the codes to retire (otp.go: the  *)
(* UPDATE of Issue retires the codes of its snapshot, also when it has to  *)
(* wait for one of them).                                                  *)
THEOREM NewCodeRetiresOld == Spec => []SupersededRetired
BY CodesHold, PTL DEF CodeInv

----------------------------------------------------------------------------
(* The attempt cap *)

(* A row whose counters are as they were, with the same requests failing   *)
(* on it, or more of them.                                                 *)
LEMMA CountersKept ==
  ASSUME TypeInv, TypeInv', Counted, GuessesBounded,
         \A c \in Cids : /\ codes'[c].tried = codes[c].tried /\ codes'[c].attempts = codes[c].attempts
                         /\ codes'[c].lost = codes[c].lost
                         /\ Failing(c) \subseteq Failing(c)'
  PROVE  Counted' /\ GuessesBounded'
<1>1. GuessesBounded'
  BY DEF GuessesBounded
<1>2. ASSUME NEW c \in Cids
      PROVE  (codes[c].tried <= codes[c].attempts + Cardinality(Failing(c)) + codes[c].lost)'
  <2>1. Failing(c)' \subseteq Workers
    BY DEF Failing
  <2>2. /\ Cardinality(Failing(c)) <= Cardinality(Failing(c)')
        /\ Cardinality(Failing(c)) \in Nat /\ Cardinality(Failing(c)') \in Nat
    BY <1>2, <2>1, FewRequests
  <2>3. codes[c].tried \in Nat /\ codes[c].attempts \in Nat /\ codes[c].lost \in Nat
    BY DEF TypeInv, TypeOK, Challenges
  <2>4. codes[c].tried <= codes[c].attempts + Cardinality(Failing(c)) + codes[c].lost
    BY DEF Counted
  <2> QED
    BY <2>2, <2>3, <2>4
<1> QED
  BY <1>1, <1>2 DEF Counted

(* A wrong code is compared while the cap is not reached: the requests     *)
(* that have not recorded theirs yet are the others in flight.             *)
LEMMA WrongCode ==
  ASSUME TypeInv, TypeInv', Counted, GuessesBounded, NEW w \in Workers, NEW c \in Cids,
         req[w].pc = "locking", CheckLive(c),
         req'[w].pc = "failing", req'[w].code = c,
         \A x \in Workers \ {w} : req'[x] = req[x],
         codes'[c].tried = codes[c].tried + 1, codes'[c].attempts = codes[c].attempts,
         codes'[c].lost = codes[c].lost,
         \A d \in Cids \ {c} : codes'[d] = codes[d]
  PROVE  Counted' /\ GuessesBounded'
<1>1. codes[c].tried \in Nat /\ codes[c].attempts \in Nat /\ codes[c].lost \in Nat /\ MaxAttempts \in Nat
  BY SignInAssumption DEF TypeInv, TypeOK, Challenges
<1>2. Failing(c) \subseteq Workers /\ w \in Workers \ Failing(c)
  BY DEF Failing
<1>3. Failing(c)' = Failing(c) \cup {w}
  BY DEF Failing
<1>4. \A d \in Cids \ {c} : Failing(d)' = Failing(d)
  BY DEF Failing
<1>5. Cardinality(Failing(c)') = Cardinality(Failing(c)) + 1 /\ Cardinality(Failing(c)) \in Nat
  BY <1>2, <1>3, FewRequests
<1>6. Cardinality(Failing(c)') <= Cardinality(Workers) /\ Cardinality(Workers) \in Nat
  <2>1. Failing(c) \cup {w} \in SUBSET Workers
    BY <1>2
  <2> QED
    BY <1>3, <2>1, FewRequests
<1>7. codes[c].tried <= codes[c].attempts + Cardinality(Failing(c)) + codes[c].lost
  BY DEF Counted
<1>8. codes[c].attempts + 1 <= MaxAttempts
  BY <1>1 DEF CheckLive
<1>9. Counted'
  <2> SUFFICES ASSUME NEW d \in Cids
               PROVE  codes'[d].tried <= codes'[d].attempts + Cardinality(Failing(d)') + codes'[d].lost
    BY DEF Counted
  <2>1. CASE d = c
    BY <1>1, <1>5, <1>7, <2>1
  <2>2. CASE d # c
    <3>1. codes'[d] = codes[d] /\ Failing(d)' = Failing(d)
      BY <1>4, <2>2
    <3> QED
      BY <3>1 DEF Counted
  <2> QED
    BY <2>1, <2>2
<1>10. GuessesBounded'
  <2>1. codes'[c].tried <= MaxAttempts + Cardinality(Workers) - 1 + codes'[c].lost
    BY <1>1, <1>5, <1>6, <1>7, <1>8
  <2>2. \A d \in Cids \ {c} : codes'[d].tried <= MaxAttempts + Cardinality(Workers) - 1 + codes'[d].lost
    BY DEF GuessesBounded
  <2> QED
    BY <2>1, <2>2 DEF GuessesBounded
<1> QED
  BY <1>9, <1>10

(* A failure is recorded. *)
LEMMA FailureRecorded ==
  ASSUME TypeInv, TypeInv', Counted, GuessesBounded, NEW w \in Workers, RecordFailure(w)
  PROVE  Counted' /\ GuessesBounded'
<1>1. PICK c \in Cids : c = req[w].code /\ req[w].pc = "failing"
  BY DEF RecordFailure, TypeInv, StageOf
<1>2. /\ codes'[c].attempts = codes[c].attempts + 1 /\ codes'[c].tried = codes[c].tried
      /\ codes'[c].lost = codes[c].lost
      /\ \A d \in Cids \ {c} : codes'[d] = codes[d]
  <2>1. codes[c] \in Challenges
    BY DEF TypeInv, TypeOK
  <2>2. codes' = [codes EXCEPT ![c].attempts = @ + 1,
                               ![c].invalidated = @ \/ codes[c].attempts + 1 >= MaxAttempts]
    BY <1>1 DEF RecordFailure
  <2> QED
    BY <2>1, <2>2 DEF TypeInv, TypeOK, Challenges
<1>3. req'[w].pc = "idle" /\ \A x \in Workers \ {w} : req'[x] = req[x]
  BY DEF RecordFailure, Finish, Idle, TypeInv, TypeOK
<1>4. w \in Failing(c) /\ Failing(c) \subseteq Workers
  BY <1>1 DEF Failing
<1>5. Failing(c)' = Failing(c) \ {w}
  BY <1>3 DEF Failing
<1>6. \A d \in Cids \ {c} : Failing(d)' = Failing(d)
  BY <1>1, <1>3 DEF Failing
<1>7. Cardinality(Failing(c)') = Cardinality(Failing(c)) - 1 /\ Cardinality(Failing(c)) \in Nat
  BY <1>4, <1>5, FewRequests
<1>8. codes[c].tried \in Nat /\ codes[c].attempts \in Nat /\ codes[c].lost \in Nat
  BY <1>1 DEF TypeInv, TypeOK, Challenges
<1>9. Counted'
  <2> SUFFICES ASSUME NEW d \in Cids
               PROVE  codes'[d].tried <= codes'[d].attempts + Cardinality(Failing(d)') + codes'[d].lost
    BY DEF Counted
  <2>1. CASE d = c
    <3>1. codes[c].tried <= codes[c].attempts + Cardinality(Failing(c)) + codes[c].lost
      BY <1>1 DEF Counted
    <3> QED
      BY <1>1, <1>2, <1>7, <1>8, <2>1, <3>1
  <2>2. CASE d # c
    <3>1. codes'[d] = codes[d] /\ Failing(d)' = Failing(d)
      BY <1>1, <1>2, <1>6, <2>2
    <3> QED
      BY <3>1 DEF Counted
  <2> QED
    BY <2>1, <2>2
<1>10. GuessesBounded'
  BY <1>1, <1>2 DEF GuessesBounded
<1> QED
  BY <1>9, <1>10

(* A step of one request that is not failing, with the rows as they were,  *)
(* or changed in other fields.                                             *)
LEMMA NotFailing ==
  ASSUME TypeInv, TypeInv', Counted, GuessesBounded, NEW w \in Workers, req[w].pc # "failing",
         \A x \in Workers \ {w} : req'[x] = req[x],
         \A c \in Cids : /\ codes'[c].tried = codes[c].tried /\ codes'[c].attempts = codes[c].attempts
                         /\ codes'[c].lost = codes[c].lost
  PROVE  Counted' /\ GuessesBounded'
<1>1. \A c \in Cids : Failing(c) \subseteq Failing(c)'
  BY DEF Failing
<1> QED
  BY <1>1, CountersKept

(* A request dies: if it was failing, what it compared is lost. *)
LEMMA DeathCounted ==
  ASSUME TypeInv, TypeInv', Counted, GuessesBounded, NEW w \in Workers, Die(w)
  PROVE  Counted' /\ GuessesBounded'
<1>1. req'[w].pc = "idle" /\ \A x \in Workers \ {w} : req'[x] = req[x]
  BY DEF Die, Finish, Idle, TypeInv, TypeOK
<1>2. CASE req[w].pc # "failing"
  <2>1. codes' = codes
    BY <1>2 DEF Die
  <2> QED
    BY <1>1, <1>2, <2>1, NotFailing
<1>3. CASE req[w].pc = "failing"
  <2>1. PICK c \in Cids : c = req[w].code
    BY <1>3 DEF TypeInv, StageOf
  <2>2. codes[c] \in Challenges /\ codes' = [codes EXCEPT ![c].lost = @ + 1]
    BY <1>3, <2>1 DEF Die, TypeInv, TypeOK
  <2>3. /\ codes'[c].tried = codes[c].tried /\ codes'[c].attempts = codes[c].attempts
        /\ codes'[c].lost = codes[c].lost + 1
        /\ \A d \in Cids \ {c} : codes'[d] = codes[d]
    BY <2>1, <2>2 DEF TypeInv, TypeOK, Challenges
  <2>4. w \in Failing(c) /\ Failing(c) \subseteq Workers
    BY <1>3, <2>1 DEF Failing
  <2>5. Failing(c)' = Failing(c) \ {w}
    BY <1>1 DEF Failing
  <2>6. \A d \in Cids \ {c} : Failing(d)' = Failing(d)
    BY <1>1, <1>3, <2>1 DEF Failing
  <2>7. Cardinality(Failing(c)') = Cardinality(Failing(c)) - 1 /\ Cardinality(Failing(c)) \in Nat
    BY <2>4, <2>5, FewRequests
  <2>8. codes[c].tried \in Nat /\ codes[c].attempts \in Nat /\ codes[c].lost \in Nat
    BY <2>2 DEF Challenges
  <2>9. Counted'
    <3> SUFFICES ASSUME NEW d \in Cids
                 PROVE  codes'[d].tried <= codes'[d].attempts + Cardinality(Failing(d)') + codes'[d].lost
      BY DEF Counted
    <3>1. CASE d = c
      <4>1. codes[c].tried <= codes[c].attempts + Cardinality(Failing(c)) + codes[c].lost
        BY <2>1 DEF Counted
      <4> QED
        BY <2>3, <2>7, <2>8, <3>1, <4>1
    <3>2. CASE d # c
      <4>1. codes'[d] = codes[d] /\ Failing(d)' = Failing(d)
        BY <2>3, <2>6, <3>2
      <4> QED
        BY <4>1 DEF Counted
    <3> QED
      BY <3>1, <3>2
  <2>10. Cardinality(Workers) \in Nat /\ MaxAttempts \in Nat
    BY FS_CardinalityType, SignInAssumption
  <2>11. codes'[c].tried <= MaxAttempts + Cardinality(Workers) - 1 + codes'[c].lost
    <3>1. codes[c].tried <= MaxAttempts + Cardinality(Workers) - 1 + codes[c].lost
      BY <2>1 DEF GuessesBounded
    <3> QED
      BY <2>3, <2>8, <2>10, <3>1
  <2>12. \A d \in Cids \ {c} : codes'[d].tried <= MaxAttempts + Cardinality(Workers) - 1 + codes'[d].lost
    BY <2>3 DEF GuessesBounded
  <2> QED
    BY <2>9, <2>11, <2>12 DEF GuessesBounded
<1> QED
  BY <1>2, <1>3

(* A new row has been compared with nothing. *)
LEMMA FreshCounted ==
  ASSUME TypeInv, TypeInv', Counted, GuessesBounded, NEW w \in Workers, IssueInsert(w)
  PROVE  Counted' /\ GuessesBounded'
<1> DEFINE n == req[w].code
<1>1. n \in Cids
  BY DEF IssueInsert, TypeInv, StageOf
<1>2. /\ codes'[n].tried = 0 /\ codes'[n].attempts = 0 /\ codes'[n].lost = 0
      /\ \A d \in Cids \ {n} : /\ codes'[d].tried = codes[d].tried /\ codes'[d].attempts = codes[d].attempts
                             /\ codes'[d].lost = codes[d].lost
  BY <1>1 DEF IssueInsert, NoChallenge, TypeInv, TypeOK, Challenges
<1> HIDE DEF n
<1>3. \A d \in Cids : Failing(d)' = Failing(d)
  <2>1. /\ req[w].pc = "inserting" /\ req'[w].pc = "sending"
        /\ \A x \in Workers \ {w} : req'[x] = req[x]
    BY DEF IssueInsert, TypeInv, TypeOK, Requests
  <2> QED
    BY <2>1 DEF Failing
<1>4. \A d \in Cids : Cardinality(Failing(d)) \in Nat
  <2>1. \A d \in Cids : Failing(d) \in SUBSET Workers
    BY DEF Failing
  <2> QED
    BY <2>1, FewRequests
<1>5. Cardinality(Workers) \in Nat /\ MaxAttempts \in Nat \ {0}
  BY FS_CardinalityType, SignInAssumption
<1>6. Counted'
  BY <1>1, <1>2, <1>3, <1>4, <1>5 DEF Counted
<1>7. GuessesBounded'
  BY <1>1, <1>2, <1>5 DEF GuessesBounded
<1> QED
  BY <1>6, <1>7

(* Every step, and none, keeps the count of wrong codes. *)
LEMMA CountStep ==
  TypeInv /\ Counted /\ GuessesBounded /\ [Next]_vars /\ TypeInv' => Counted' /\ GuessesBounded'
<1> SUFFICES ASSUME TypeInv, Counted, GuessesBounded, [Next]_vars, TypeInv'
             PROVE  Counted' /\ GuessesBounded'
  OBVIOUS
<1>1. ASSUME NEW w \in Workers, LockLive(w) PROVE Counted' /\ GuessesBounded'
  <2>1. PICK c : c = Newest(StillLive(w))
    OBVIOUS
  <2>2. req[w] \in Requests /\ req[w].pc = "locking"
    BY <1>1 DEF LockLive, TypeInv, TypeOK
  <2>3. CASE StillLive(w) # {} /\ CheckLive(c) /\ req[w].code # c
    <3>1. c \in Cids
      BY <2>1, <2>3, NewestIsOne DEF Live, StillLive
    <3>2. /\ req' = [req EXCEPT ![w].pc = "failing", ![w].code = c, ![w].seen = {}]
          /\ codes' = [codes EXCEPT ![c].tried = @ + 1]
      BY <1>1, <2>1, <2>3 DEF LockLive
    <3>3. /\ req'[w].pc = "failing" /\ req'[w].code = c
          /\ \A x \in Workers \ {w} : req'[x] = req[x]
      BY <2>2, <3>2 DEF TypeInv, TypeOK, Requests
    <3>4. /\ codes'[c].tried = codes[c].tried + 1 /\ codes'[c].attempts = codes[c].attempts
          /\ codes'[c].lost = codes[c].lost
          /\ \A d \in Cids \ {c} : codes'[d] = codes[d]
      BY <3>1, <3>2 DEF TypeInv, TypeOK, Challenges
    <3> QED
      BY <2>2, <2>3, <3>1, <3>3, <3>4, WrongCode
  <2>4. CASE ~(StillLive(w) # {} /\ CheckLive(c) /\ req[w].code # c)
    <3>1. UNCHANGED codes /\ \A x \in Workers \ {w} : req'[x] = req[x]
      BY <1>1, <2>1, <2>4 DEF LockLive, Finish, TypeInv, TypeOK
    <3> QED
      BY <2>2, <3>1, NotFailing
  <2> QED
    BY <2>3, <2>4
<1>2. ASSUME NEW w \in Workers,
             \/ \E e \in Emails : Request(w, e)
             \/ \E e \in Emails, code \in sent \cup {NULL} : VerifyAndSignIn(w, e, code)
             \/ CheckAllowlist(w) \/ (\E delivered \in BOOLEAN : SendOTP(w, delivered))
             \/ IssueBegin(w) \/ IssueRead(w) \/ IssueRetire(w) \/ LockRead(w) \/ upsertFromInvitation(w)
      PROVE  Counted' /\ GuessesBounded'
  <2>1. req[w].pc # "failing" /\ UNCHANGED codes
    BY <1>2 DEF Request, VerifyAndSignIn, Start, CheckAllowlist, SendOTP, IssueBegin, IssueRead,
                IssueRetire, LockRead, upsertFromInvitation, tables
  <2>2. \A x \in Workers \ {w} : req'[x] = req[x]
    BY <1>2 DEF Request, VerifyAndSignIn, Start, CheckAllowlist, SendOTP, IssueBegin, IssueRead,
                IssueRetire, LockRead, Snapshot, upsertFromInvitation, Goto, Finish, TypeInv, TypeOK
  <2> QED
    BY <2>1, <2>2, NotFailing
<1>3. ASSUME NEW w \in Workers, CommitSignIn(w) PROVE Counted' /\ GuessesBounded'
  <2>1. req[w].pc # "failing" /\ \A x \in Workers \ {w} : req'[x] = req[x]
    BY <1>3 DEF CommitSignIn, Finish, TypeInv, TypeOK
  <2>2. \A c \in Cids : /\ codes'[c].tried = codes[c].tried /\ codes'[c].attempts = codes[c].attempts
                        /\ codes'[c].lost = codes[c].lost
    BY <1>3 DEF CommitSignIn, TypeInv, TypeOK, Challenges
  <2> QED
    BY <2>1, <2>2, NotFailing
<1>4. ASSUME NEW w \in Workers, Arrive(w) \/ Progress(w) \/ Die(w) PROVE Counted' /\ GuessesBounded'
  BY <1>1, <1>2, <1>3, <1>4, FailureRecorded, DeathCounted, FreshCounted DEF Arrive, Progress
<1>5. ASSUME UNCHANGED req,
             \A c \in Cids : /\ codes'[c].tried = codes[c].tried /\ codes'[c].attempts = codes[c].attempts
                             /\ codes'[c].lost = codes[c].lost
      PROVE  Counted' /\ GuessesBounded'
  <2>1. \A c \in Cids : Failing(c) \subseteq Failing(c)'
    BY <1>5 DEF Failing
  <2> QED
    BY <1>5, <2>1, CountersKept
<1>6. CASE Administer \/ \E i \in Iids : ExpireInvitation(i)
  BY <1>5, <1>6 DEF Administer, CreateInvitation, RevokeInvitation, SetUserStatus, ExpireInvitation
<1>7. ASSUME NEW c \in Cids, ExpireCode(c) PROVE Counted' /\ GuessesBounded'
  <2>1. \A d \in Cids : /\ codes'[d].tried = codes[d].tried /\ codes'[d].attempts = codes[d].attempts
                        /\ codes'[d].lost = codes[d].lost
    BY <1>7 DEF ExpireCode, TypeInv, TypeOK, Challenges
  <2> QED
    BY <1>5, <1>7, <2>1 DEF ExpireCode
<1>8. CASE UNCHANGED vars
  BY <1>5, <1>8 DEF vars, tables
<1> QED
  BY <1>4, <1>6, <1>7, <1>8 DEF Next

(* At first nothing has been tried. *)
LEMMA InitCounted == Init => Counted /\ GuessesBounded
<1> SUFFICES ASSUME Init PROVE Counted /\ GuessesBounded
  OBVIOUS
<1>1. \A c \in Cids : codes[c].tried = 0 /\ codes[c].attempts = 0 /\ codes[c].lost = 0
  BY DEF Init, NoChallenge
<1>2. Cardinality(Workers) \in Nat /\ MaxAttempts \in Nat \ {0}
  BY FS_CardinalityType, SignInAssumption
<1>3. \A c \in Cids : Cardinality(Failing(c)) \in Nat
  <2>1. \A c \in Cids : Failing(c) \in SUBSET Workers
    BY DEF Failing
  <2> QED
    BY <2>1, FewRequests
<1> QED
  BY <1>1, <1>2, <1>3 DEF Counted, GuessesBounded

(* A wrong guess escapes the attempt cap in two ways only: a challenge is  *)
(* compared with at most MaxAttempts wrong codes, one more for each other  *)
(* request in flight, and one for each whose request died between the      *)
(* comparison and RecordFailure (otp.go releases the row in between, and   *)
(* RecordFailure runs on the request's context).                           *)
THEOREM AttemptCapHolds == Spec => []GuessesBounded
BY InitCounted, CountStep, SignInTypeCorrect, PTL DEF Spec

----------------------------------------------------------------------------
(* Revocation *)

(* A revoked invitation is never pending or accepted again, whatever       *)
(* sign-in was in flight (invitation_repository.go: MarkAccepted touches   *)
(* pending rows only).                                                     *)
THEOREM RevokedForGood == Spec => RevocationTerminal
<1>1. ASSUME TypeInv, [Next]_vars, NEW i \in Iids, invites[i].status = "revoked"
      PROVE  invites'[i].status = "revoked"
  <2>1. CASE UNCHANGED invites
    BY <1>1, <2>1
  <2>2. ASSUME NEW w \in Workers, CommitSignIn(w) PROVE invites'[i].status = "revoked"
    BY <1>1, <2>2 DEF CommitSignIn, MarkAccepted, TypeInv, TypeOK
  <2>3. ASSUME NEW e \in Emails, CreateInvitation(e) PROVE invites'[i].status = "revoked"
    BY <1>1, <2>3 DEF CreateInvitation, NoInvitation, TypeInv, TypeOK
  <2>4. ASSUME NEW j \in Iids, RevokeInvitation(j) PROVE invites'[i].status = "revoked"
    BY <1>1, <2>4 DEF RevokeInvitation, TypeInv, TypeOK, Invitations
  <2>5. ASSUME NEW j \in Iids, ExpireInvitation(j) PROVE invites'[i].status = "revoked"
    BY <1>1, <2>5 DEF ExpireInvitation, TypeInv, TypeOK
  <2>6. ASSUME NEW w \in Workers, Arrive(w) \/ Progress(w) \/ Die(w) PROVE invites'[i].status = "revoked"
    BY <2>1, <2>2, <2>6
       DEF Arrive, Request, VerifyAndSignIn, Progress, CheckAllowlist, IssueRetire, IssueInsert,
           IssueBegin, IssueRead, LockRead, Snapshot, SendOTP, LockLive, RecordFailure,
           upsertFromInvitation, Die, tables
  <2>7. CASE Administer
    BY <2>1, <2>3, <2>4, <2>7 DEF Administer, SetUserStatus
  <2>8. CASE (\E c \in Cids : ExpireCode(c)) \/ UNCHANGED vars
    BY <2>1, <2>8 DEF ExpireCode, vars, tables
  <2> QED
    BY <1>1, <2>5, <2>6, <2>7, <2>8 DEF Next
<1>2. TypeInv /\ [Next]_vars =>
        [\A i \in Iids : invites[i].status = "revoked" => invites'[i].status = "revoked"]_vars
  BY <1>1
<1> QED
  BY <1>2, SignInTypeCorrect, PTL DEF Spec, RevocationTerminal

=============================================================================
