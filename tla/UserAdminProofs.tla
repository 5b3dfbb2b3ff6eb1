-------------------------- MODULE UserAdminProofs --------------------------
(***************************************************************************)
(* User administration, proved for any accounts and any number of          *)
(* overlapping requests: the row locks make each change atomic, and an     *)
(* active super admin always remains.                                      *)
(***************************************************************************)
EXTENDS UserAdmin, TLAPS

(* What holds of a transaction in flight: the rows it locked are its own,  *)
(* the rows it counted are other active super admins it holds, and one     *)
(* that skipped the guard takes no active super admin away.                *)
TxInv(w) ==
    /\ \A x \in Workers \ {w} : tx[w].locks \cap tx[x].locks = {}
    /\ tx[w].pc # "idle" => tx[w].user \in tx[w].locks /\ role[tx[w].user] # "none"
    /\ tx[w].pc # "idle" /\ tx[w].column = "state" => state[tx[w].user] # tx[w].value
    /\ tx[w].found \subseteq tx[w].locks \ {tx[w].user}
    /\ \A v \in tx[w].found : A!ActiveAdmin(v)
    /\ tx[w].user \notin tx[w].awaiting
    /\ tx[w].pc = "writing" => ~RemovesAdmin(tx[w].user, tx[w].column, tx[w].value)

AdminInv == TypeOK /\ \A w \in Workers : TxInv(w)

(* A transaction with nothing in it is well formed. *)
LEMMA IdleTx == Idle \in Transactions
  BY DEF Idle, Transactions, A!Roles, A!Statuses

(* The bootstrapped accounts, with no transaction open, satisfy the        *)
(* invariant.                                                              *)
LEMMA AdminInit == Init => AdminInv
<1> SUFFICES ASSUME Init PROVE AdminInv
  OBVIOUS
<1>1. TypeOK
  BY IdleTx, BootstrapAssumption DEF Init, A!Init, TypeOK, Idle, A!Statuses
<1>2. \A w \in Workers : TxInv(w)
  BY UsersAssumption DEF Init, TxInv, Idle
<1> QED
  BY <1>1, <1>2 DEF AdminInv

(* Replacing one transaction by a well-formed one, with accounts of the    *)
(* right types, keeps everything well typed.                               *)
LEMMA TxType ==
  ASSUME TypeOK, NEW w \in Workers, NEW t \in Transactions, tx' = [tx EXCEPT ![w] = t],
         role'  \in [Users -> A!Roles \cup {"none"}],
         state' \in [Users -> A!Statuses],
         t.pc # "idle" =>
            /\ t.user \in Users
            /\ t.value \in IF t.column = "role" THEN A!Roles ELSE A!Statuses
  PROVE  TypeOK'
  BY DEF TypeOK

(* A transaction's invariant survives a step of another one that locks     *)
(* only free rows and leaves the accounts this one holds alone.            *)
LEMMA OtherTx ==
  ASSUME AdminInv, NEW w \in Workers, NEW x \in Workers, x # w,
         NEW t \in Transactions, tx' = [tx EXCEPT ![w] = t],
         \A u \in t.locks : Free(w, u),
         \A u \in tx[x].locks : role'[u] = role[u] /\ state'[u] = state[u]
  PROVE  TxInv(x)'
<1>1. tx'[x] = tx[x] /\ tx'[w] = t
  BY DEF AdminInv, TypeOK
<1>2. TxInv(x)
  BY DEF AdminInv
<1>3. \A y \in Workers \ {x} : tx[x].locks \cap tx'[y].locks = {}
  <2> SUFFICES ASSUME NEW y \in Workers \ {x} PROVE tx[x].locks \cap tx'[y].locks = {}
    OBVIOUS
  <2>1. CASE y = w
    BY <1>1, <2>1 DEF Free
  <2>2. CASE y # w
    BY <1>2, <2>2 DEF TxInv, AdminInv, TypeOK
  <2> QED
    BY <2>1, <2>2
<1> QED
  BY <1>1, <1>2, <1>3 DEF TxInv, RemovesAdmin, A!ActiveAdmin

(* Ending a transaction that changed nothing keeps the invariant. *)
LEMMA CloseKeeps ==
  ASSUME AdminInv, NEW w \in Workers, Close(w), UNCHANGED <<role, state>>
  PROVE  AdminInv'
<1>1. TypeOK'
  BY IdleTx, TxType DEF AdminInv, TypeOK, Close, Idle
<1>2. TxInv(w)'
  BY UsersAssumption DEF AdminInv, TypeOK, Close, Idle, TxInv
<1>3. \A x \in Workers \ {w} : TxInv(x)'
  BY IdleTx, OtherTx DEF Close, Idle
<1> QED
  BY <1>1, <1>2, <1>3 DEF AdminInv

(* Opening, counting and writing keep the invariant. *)
LEMMA AdminStep == AdminInv /\ [Next]_vars => AdminInv'
<1> SUFFICES ASSUME AdminInv, [Next]_vars PROVE AdminInv'
  OBVIOUS
<1> USE DEF AdminInv
<1>1. ASSUME NEW w \in Workers, NEW u \in Users,
             NEW c \in {"role", "state"},
             NEW val \in IF c = "role" THEN A!Roles ELSE A!Statuses,
             LockTarget(w, u, c, val)
      PROVE  AdminInv'
  <2> DEFINE t == [Idle EXCEPT !.pc = IF RemovesAdmin(u, c, val) THEN "guarding" ELSE "writing",
                               !.column = c, !.user = u, !.value = val, !.locks = {u}]
  <2>1. /\ t \in Transactions
        /\ t.user = u /\ t.column = c /\ t.value = val /\ t.locks = {u}
        /\ t.found = {} /\ t.awaiting = {}
        /\ t.pc = IF RemovesAdmin(u, c, val) THEN "guarding" ELSE "writing"
    BY IdleTx, <1>1 DEF Idle, Transactions
  <2>2. tx' = [tx EXCEPT ![w] = t] /\ UNCHANGED <<role, state>>
    BY <1>1 DEF LockTarget
  <2> HIDE DEF t
  <2>3. TypeOK'
    BY <1>1, <2>1, <2>2, TxType DEF TypeOK
  <2>4. tx'[w] = t
    BY <2>2 DEF TypeOK
  <2>5. \A x \in Workers \ {w} : t.locks \cap tx'[x].locks = {}
    BY <1>1, <2>1, <2>2 DEF LockTarget, Free, TypeOK
  <2>6. RemovesAdmin(u, c, val)' = RemovesAdmin(u, c, val)
    BY <2>2 DEF RemovesAdmin, A!ActiveAdmin
  <2>7. TxInv(w)'
    BY <1>1, <2>1, <2>2, <2>4, <2>5, <2>6 DEF TxInv, LockTarget
  <2>8. \A z \in t.locks : Free(w, z)
    BY <1>1, <2>1 DEF LockTarget
  <2>9. \A x \in Workers \ {w} : TxInv(x)'
    BY <2>1, <2>2, <2>8, OtherTx
  <2> QED
    BY <2>3, <2>7, <2>9
<1>2. ASSUME NEW w \in Workers, otherActiveSuperAdmins(w)
      PROVE  AdminInv'
  <2> DEFINE t == [tx[w] EXCEPT !.pc = "counting",
                                !.awaiting = {v \in Users \ {tx[w].user} : A!ActiveAdmin(v)}]
  <2>1. /\ t \in Transactions
        /\ t.user = tx[w].user /\ t.column = tx[w].column /\ t.value = tx[w].value
        /\ t.locks = tx[w].locks /\ t.found = tx[w].found
        /\ t.pc = "counting"
        /\ t.user \notin t.awaiting
    BY DEF Transactions, TypeOK
  <2>2. tx' = [tx EXCEPT ![w] = t] /\ UNCHANGED <<role, state>>
    BY <1>2 DEF otherActiveSuperAdmins, TypeOK
  <2>3. tx[w].pc # "idle"
    BY <1>2 DEF otherActiveSuperAdmins
  <2> HIDE DEF t
  <2>4. TypeOK'
    BY <2>1, <2>2, <2>3, TxType DEF TypeOK
  <2>5. tx'[w] = t /\ \A x \in Workers \ {w} : tx'[x] = tx[x]
    BY <2>2 DEF TypeOK
  <2>6. TxInv(w)'
    BY <2>1, <2>2, <2>3, <2>5 DEF TxInv, A!ActiveAdmin
  <2>7. \A u \in t.locks : Free(w, u)
    BY <2>1 DEF TxInv, Free
  <2>8. \A x \in Workers \ {w} : TxInv(x)'
    BY <2>1, <2>2, <2>7, OtherTx
  <2> QED
    BY <2>4, <2>6, <2>8
<1>3. ASSUME NEW w \in Workers, NEW v \in Users, LockOther(w, v)
      PROVE  AdminInv'
  <2> DEFINE t == [tx[w] EXCEPT !.awaiting = @ \ {v},
                                !.found = IF A!ActiveAdmin(v) THEN @ \cup {v} ELSE @,
                                !.locks = @ \cup {v}]
  <2>1. /\ t \in Transactions
        /\ t.user = tx[w].user /\ t.column = tx[w].column /\ t.value = tx[w].value
        /\ t.pc = tx[w].pc
        /\ t.awaiting = tx[w].awaiting \ {v}
        /\ t.locks = tx[w].locks \cup {v}
        /\ t.found = IF A!ActiveAdmin(v) THEN tx[w].found \cup {v} ELSE tx[w].found
    BY DEF Transactions, TypeOK
  <2>2. tx' = [tx EXCEPT ![w] = t] /\ UNCHANGED <<role, state>>
    BY <1>3 DEF LockOther, TypeOK
  <2>3. tx[w].pc = "counting" /\ v \in tx[w].awaiting /\ Free(w, v)
    BY <1>3 DEF LockOther
  <2> HIDE DEF t
  <2>4. TypeOK'
    BY <2>1, <2>2, <2>3, TxType DEF TypeOK
  <2>5. tx'[w] = t /\ \A x \in Workers \ {w} : tx'[x] = tx[x]
    BY <2>2 DEF TypeOK
  <2>6. \A u \in t.locks : Free(w, u)
    BY <2>1, <2>3 DEF TxInv, Free
  <2>7. TxInv(w)
    OBVIOUS
  <2>8. \A x \in Workers \ {w} : t.locks \cap tx'[x].locks = {}
    BY <2>5, <2>6 DEF Free
  <2>9. \A z \in t.found : A!ActiveAdmin(z)'
    BY <2>1, <2>2, <2>7 DEF TxInv, A!ActiveAdmin
  <2>10. TxInv(w)'
    BY <2>1, <2>2, <2>3, <2>5, <2>7, <2>8, <2>9 DEF TxInv
  <2>11. \A x \in Workers \ {w} : TxInv(x)'
    BY <2>1, <2>2, <2>6, OtherTx
  <2> QED
    BY <2>4, <2>10, <2>11
<1>4. ASSUME NEW w \in Workers, RefuseLastSuperAdmin(w) \/ Abort(w)
      PROVE  AdminInv'
  BY <1>4, CloseKeeps DEF RefuseLastSuperAdmin, Abort
<1>5. ASSUME NEW w \in Workers, Write(w)
      PROVE  AdminInv'
  <2>1. tx' = [tx EXCEPT ![w] = Idle]
    BY <1>5 DEF Write, Close
  <2>2. /\ tx[w].pc # "idle"
        /\ tx[w].user \in tx[w].locks
        /\ tx[w].user \in Users
        /\ tx[w].value \in IF tx[w].column = "role" THEN A!Roles ELSE A!Statuses
    BY <1>5 DEF Write, TxInv, TypeOK
  <2>3. \/ tx[w].column = "role" /\ role' = [role EXCEPT ![tx[w].user] = tx[w].value] /\ UNCHANGED state
        \/ tx[w].column = "state" /\ state' = [state EXCEPT ![tx[w].user] = tx[w].value] /\ UNCHANGED role
    BY <1>5 DEF Write
  <2>4. role' \in [Users -> A!Roles \cup {"none"}] /\ state' \in [Users -> A!Statuses]
    BY <2>2, <2>3 DEF TypeOK
  <2>5. TypeOK'
    BY <2>1, <2>4, IdleTx, TxType DEF Idle
  <2>6. TxInv(w)'
    BY <2>1, UsersAssumption DEF Idle, TxInv, TypeOK
  <2>7. \A x \in Workers \ {w} : \A u \in tx[x].locks : role'[u] = role[u] /\ state'[u] = state[u]
    <3> SUFFICES ASSUME NEW x \in Workers \ {w}, NEW u \in tx[x].locks
                 PROVE  role'[u] = role[u] /\ state'[u] = state[u]
      OBVIOUS
    <3>1. u \in Users
      BY DEF TypeOK, Transactions
    <3>2. u # tx[w].user
      BY <2>2 DEF TxInv
    <3> QED
      BY <2>3, <3>1, <3>2 DEF TypeOK
  <2>8. \A x \in Workers \ {w} : TxInv(x)'
    BY <2>1, <2>7, IdleTx, OtherTx DEF Idle
  <2> QED
    BY <2>5, <2>6, <2>8
<1>6. ASSUME NEW u \in Users, NEW r \in A!Roles, Register(u, r)
      PROVE  AdminInv'
  <2>1. role[u] = "none" /\ role' = [role EXCEPT ![u] = r] /\ UNCHANGED <<state, tx>>
    BY <1>6 DEF Register, A!Register
  <2>2. TypeOK'
    BY <2>1 DEF TypeOK
  <2>3. ASSUME NEW w \in Workers PROVE TxInv(w)'
    <3>1. TxInv(w)
      OBVIOUS
    <3>2. \A v \in Users : role[v] # "none" => role'[v] = role[v]
      BY <2>1 DEF TypeOK
    <3>3. \A v \in tx[w].found : A!ActiveAdmin(v)'
      BY <2>1, <3>1, <3>2 DEF TxInv, A!ActiveAdmin, TypeOK, Transactions
    <3>4. tx[w].pc # "idle" => role[tx[w].user] # "none" /\ role'[tx[w].user] = role[tx[w].user]
      BY <3>1, <3>2 DEF TxInv, TypeOK
    <3>5. tx[w].pc = "writing" => ~RemovesAdmin(tx[w].user, tx[w].column, tx[w].value)'
      BY <2>1, <3>1, <3>4 DEF TxInv, RemovesAdmin, A!ActiveAdmin
    <3> QED
      BY <2>1, <3>1, <3>3, <3>4, <3>5 DEF TxInv
  <2> QED
    BY <2>2, <2>3
<1>7. CASE UNCHANGED vars
  BY <1>7 DEF vars, TypeOK, TxInv, RemovesAdmin, A!ActiveAdmin
<1> QED
  BY <1>1, <1>2, <1>3, <1>4, <1>5, <1>6, <1>7 DEF Next

(* A counted row proves the guard of the change that counted it. *)
LEMMA GuardHolds ==
  ASSUME AdminInv, NEW w \in Workers, Write(w),
         RemovesAdmin(tx[w].user, tx[w].column, tx[w].value)
  PROVE  A!OtherActiveAdmin(tx[w].user)
<1>1. tx[w].found # {}
  BY DEF AdminInv, TxInv, Write
<1>2. PICK v \in tx[w].found : TRUE
  BY <1>1
<1> QED
  BY <1>2 DEF AdminInv, TxInv, TypeOK, Transactions, A!OtherActiveAdmin

(* Every step is a step of Accounts or leaves the accounts alone. *)
LEMMA StepAtomic == AdminInv /\ [Next]_vars => [A!Next]_<<role, state>>
<1> SUFFICES ASSUME AdminInv, [Next]_vars, ~ UNCHANGED <<role, state>> PROVE A!Next
  OBVIOUS
<1>1. ASSUME NEW w \in Workers, Write(w)
      PROVE  A!Next
  <2>1. /\ tx[w].user \in Users
        /\ tx[w].value \in IF tx[w].column = "role" THEN A!Roles ELSE A!Statuses
        /\ role[tx[w].user] # "none"
        /\ tx[w].column = "state" => state[tx[w].user] # tx[w].value
    BY <1>1 DEF AdminInv, TxInv, TypeOK, Write
  <2>2. CASE tx[w].column = "role"
    <3>1. role' = [role EXCEPT ![tx[w].user] = tx[w].value] /\ UNCHANGED state
      BY <1>1, <2>2 DEF Write
    <3>2. A!ChangeRole(tx[w].user, tx[w].value)
      BY <1>1, <2>1, <2>2, <3>1, GuardHolds DEF A!ChangeRole, RemovesAdmin
    <3> QED
      BY <2>1, <2>2, <3>2 DEF A!Next
  <2>3. CASE tx[w].column = "state"
    <3>1. state' = [state EXCEPT ![tx[w].user] = tx[w].value] /\ UNCHANGED role
      BY <1>1, <2>3 DEF Write
    <3>2. A!SetUserStatus(tx[w].user, tx[w].value)
      BY <1>1, <2>1, <2>3, <3>1, GuardHolds DEF A!SetUserStatus, RemovesAdmin
    <3> QED
      BY <2>1, <2>3, <3>2 DEF A!Next
  <2> QED
    BY <1>1, <2>2, <2>3 DEF Write
<1>2. ASSUME NEW u \in Users, NEW r \in A!Roles, Register(u, r)
      PROVE  A!Next
  BY <1>2 DEF Register, A!Next
<1> QED
  BY <1>1, <1>2 DEF Next, vars, LockTarget, otherActiveSuperAdmins, LockOther,
                    RefuseLastSuperAdmin, Abort

(* A step of Accounts never takes the last active super admin away. *)
LEMMA GuardKeepsAdmin ==
  ASSUME role \in [Users -> A!Roles \cup {"none"}], state \in [Users -> A!Statuses],
         A!SuperAdminRemains, [A!Next]_<<role, state>>
  PROVE  A!SuperAdminRemains'
<1>1. ASSUME NEW u \in Users, NEW r \in A!Roles, A!Register(u, r)
      PROVE  A!SuperAdminRemains'
  BY <1>1 DEF A!Register, A!SuperAdminRemains, A!ActiveAdmin
<1>2. ASSUME NEW u \in Users, NEW r \in A!Roles, A!ChangeRole(u, r)
      PROVE  A!SuperAdminRemains'
  BY <1>2 DEF A!ChangeRole, A!SuperAdminRemains, A!OtherActiveAdmin, A!ActiveAdmin
<1>3. ASSUME NEW u \in Users, NEW s \in A!Statuses, A!SetUserStatus(u, s)
      PROVE  A!SuperAdminRemains'
  BY <1>3 DEF A!SetUserStatus, A!SuperAdminRemains, A!OtherActiveAdmin, A!ActiveAdmin, A!Statuses
<1>4. CASE UNCHANGED <<role, state>>
  BY <1>4 DEF A!SuperAdminRemains, A!ActiveAdmin
<1> QED
  BY <1>1, <1>2, <1>3, <1>4 DEF A!Next

(* The row locks of ChangeRole and SetUserStatus make every interleaving   *)
(* of them equivalent to one change at a time, guard and all.              *)
THEOREM UserAdminAtomic == Spec => AdministrationAtomic
<1>1. Init => A!Init
  BY DEF Init
<1> QED
  BY <1>1, AdminInit, AdminStep, StepAtomic, PTL DEF Spec, AdministrationAtomic, A!Spec

(* Whatever administration requests overlap, and whichever of them fail, a *)
(* super admin who can administer the platform remains.                    *)
THEOREM SuperAdminAlwaysRemains == Spec => []SuperAdminRemains
<1>1. Init => A!SuperAdminRemains
  BY BootstrapAssumption DEF Init, A!Init, A!SuperAdminRemains, A!ActiveAdmin
<1>2. AdminInv /\ A!SuperAdminRemains /\ [Next]_vars => A!SuperAdminRemains'
  BY StepAtomic, GuardKeepsAdmin DEF AdminInv, TypeOK
<1> QED
  BY <1>1, <1>2, AdminInit, AdminStep, PTL DEF Spec, SuperAdminRemains

(* The accounts and transactions always hold values of their columns'      *)
(* types.                                                                  *)
THEOREM AdminTypeCorrect == Spec => []TypeOK
<1>1. AdminInv => TypeOK
  BY DEF AdminInv
<1> QED
  BY <1>1, AdminInit, AdminStep, PTL DEF Spec
=============================================================================
