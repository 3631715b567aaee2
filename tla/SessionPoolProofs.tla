-------------------------- MODULE SessionPoolProofs --------------------------
(***************************************************************************)
(* Proofs about SessionPool for any number of callers, handles and token   *)
(* faults, any configured pool size and any limit the token states.        *)
(***************************************************************************)
EXTENDS SessionPool, FiniteSetTheorems, TLAPS

\* A goroutine has a session in hand exactly in these control states.
HandsOK ==
    \A c \in Callers :
        sess[c] # NoSession <=> pc[c] \in {"login", "op", "release", "closing"}

(* The inductive invariant.  Capacity needs PermitsReturned (a goroutine that
   finds idle empty may open a session because it is one of at most PoolSize
   permit holders); Exclusive and NoSessionLeak need HandsOK. *)
IInv ==
    /\ TypeOK
    /\ HandsOK
    /\ IsFiniteSet(idle)
    /\ PermitsReturned
    /\ Capacity
    /\ Exclusive
    /\ NoSessionLeak

-----------------------------------------------------------------------------
\* The pool has room for at least one session, whatever the configuration and
\* the token say.
LEMMA PoolSizeType == PoolSize \in Nat /\ PoolSize >= 1 /\ 0 \in 0..PoolSize
BY SessionPoolAssumption DEF SessionPoolAssumption, PoolSize

\* A fault the token may still have is counted within the bound.
LEMMA FaultsType ==
    ASSUME faults \in 0..MaxFaults, faults < MaxFaults
    PROVE  faults + 1 \in 0..MaxFaults
BY SessionPoolAssumption DEF SessionPoolAssumption

\* The sets of goroutines the invariants count are finite.
LEMMA Finite ==
    /\ IsFiniteSet(PermitHolders) /\ Cardinality(PermitHolders) \in Nat
    /\ IsFiniteSet(SessionUsers) /\ Cardinality(SessionUsers) \in Nat
    /\ IsFiniteSet(Draining) /\ Cardinality(Draining) \in Nat
<1>1. /\ PermitHolders \in SUBSET Callers
      /\ SessionUsers \in SUBSET Callers
      /\ Draining \in SUBSET Callers
  BY DEF PermitHolders, SessionUsers, Draining
<1>2. IsFiniteSet(PermitHolders) /\ IsFiniteSet(SessionUsers) /\ IsFiniteSet(Draining)
  BY <1>1, SessionPoolAssumption, FS_Subset DEF SessionPoolAssumption
<1>. QED
  BY <1>2, FS_CardinalityType

\* What one goroutine's move to another control state does to those sets.
LEMMA Moves ==
    ASSUME TypeOK, NEW c \in Callers, NEW s \in States, Goto(c, s)
    PROVE  /\ PermitHolders' = IF s \in WithPermit
                               THEN PermitHolders \cup {c} ELSE PermitHolders \ {c}
           /\ SessionUsers' = IF s \in WithSessionDue
                              THEN SessionUsers \cup {c} ELSE SessionUsers \ {c}
           /\ pc' \in [Callers -> States]
BY DEF TypeOK, Goto, PermitHolders, SessionUsers

\* How the two counts change with such a move.
LEMMA Counts ==
    ASSUME TypeOK, NEW c \in Callers, NEW s \in States, Goto(c, s)
    PROVE  /\ Cardinality(PermitHolders') =
                 CASE pc[c] \in WithPermit /\ s \notin WithPermit ->
                        Cardinality(PermitHolders) - 1
                   [] pc[c] \notin WithPermit /\ s \in WithPermit ->
                        Cardinality(PermitHolders) + 1
                   [] OTHER -> Cardinality(PermitHolders)
           /\ Cardinality(SessionUsers') =
                 CASE pc[c] \in WithSessionDue /\ s \notin WithSessionDue ->
                        Cardinality(SessionUsers) - 1
                   [] pc[c] \notin WithSessionDue /\ s \in WithSessionDue ->
                        Cardinality(SessionUsers) + 1
                   [] OTHER -> Cardinality(SessionUsers)
<1>1. /\ c \in PermitHolders <=> pc[c] \in WithPermit
      /\ c \in SessionUsers <=> pc[c] \in WithSessionDue
  BY DEF PermitHolders, SessionUsers
<1>2. /\ Cardinality(PermitHolders \cup {c}) =
            IF c \in PermitHolders THEN Cardinality(PermitHolders)
                                   ELSE Cardinality(PermitHolders) + 1
      /\ Cardinality(PermitHolders \ {c}) =
            IF c \in PermitHolders THEN Cardinality(PermitHolders) - 1
                                   ELSE Cardinality(PermitHolders)
  BY Finite, FS_AddElement, FS_RemoveElement
<1>3. /\ Cardinality(SessionUsers \cup {c}) =
            IF c \in SessionUsers THEN Cardinality(SessionUsers)
                                  ELSE Cardinality(SessionUsers) + 1
      /\ Cardinality(SessionUsers \ {c}) =
            IF c \in SessionUsers THEN Cardinality(SessionUsers) - 1
                                  ELSE Cardinality(SessionUsers)
  BY Finite, FS_AddElement, FS_RemoveElement
<1>4. CASE s \in WithPermit /\ s \in WithSessionDue
  BY <1>1, <1>2, <1>3, <1>4, Moves
<1>5. CASE s \in WithPermit /\ s \notin WithSessionDue
  BY <1>1, <1>2, <1>3, <1>5, Moves
<1>6. CASE s \notin WithPermit /\ s \notin WithSessionDue
  BY <1>1, <1>2, <1>3, <1>6, Moves
<1>. QED
  BY <1>4, <1>5, <1>6 DEF WithPermit, WithSessionDue

\* A session user that is not the picking goroutine itself is one of the other
\* permit holders.
LEMMA PickerHasRoom ==
    ASSUME TypeOK, PermitsReturned, NEW c \in Callers, pc[c] = "pick"
    PROVE  Cardinality(SessionUsers) < PoolSize
<1>1. /\ SessionUsers \in SUBSET (PermitHolders \ {c})
      /\ c \in PermitHolders
  BY DEF SessionUsers, PermitHolders, WithPermit, WithSessionDue
<1>2. /\ IsFiniteSet(PermitHolders \ {c})
      /\ Cardinality(PermitHolders \ {c}) = Cardinality(PermitHolders) - 1
  BY <1>1, Finite, FS_RemoveElement
<1>3. Cardinality(SessionUsers) <= Cardinality(PermitHolders \ {c})
  BY <1>1, <1>2, FS_Subset
<1>. QED
  BY <1>2, <1>3, Finite, PoolSizeType DEF PermitsReturned, TypeOK

-----------------------------------------------------------------------------
\* A caller's step as the counting argument sees it: who moves where, and what
\* happens to the permits and to idle.
CountingStep(c) ==
    \/ UNCHANGED <<pc, sem, idle>>
    \/ pc[c] = "idle" /\ Goto(c, "acquire") /\ UNCHANGED <<sem, idle>>
    \/ pc[c] = "idle" /\ Goto(c, "drain") /\ UNCHANGED <<sem, idle>>
    \/ /\ pc[c] = "acquire" /\ Goto(c, "pick")
       /\ sem < PoolSize /\ sem' = sem + 1 /\ UNCHANGED idle
    \/ pc[c] = "acquire" /\ Goto(c, "idle") /\ UNCHANGED <<sem, idle>>
    \/ pc[c] = "pick" /\ Goto(c, "open") /\ idle = {} /\ UNCHANGED <<sem, idle>>
    \/ /\ pc[c] = "pick" /\ Goto(c, "login") /\ UNCHANGED sem
       /\ \E s \in idle : idle' = idle \ {s}
    \/ pc[c] = "open" /\ Goto(c, "idle") /\ sem' = sem - 1 /\ UNCHANGED idle
    \/ pc[c] = "open" /\ Goto(c, "login") /\ UNCHANGED <<sem, idle>>
    \/ pc[c] = "login" /\ Goto(c, "op") /\ UNCHANGED <<sem, idle>>
    \/ pc[c] \in {"login", "op"} /\ Goto(c, "release") /\ UNCHANGED <<sem, idle>>
    \/ /\ pc[c] = "release" /\ Goto(c, "free") /\ UNCHANGED sem
       /\ idle' \in {idle, idle \cup {sess[c]}}
    \/ /\ pc[c] = "free" /\ sem' = sem - 1 /\ UNCHANGED idle
       /\ Goto(c, "reset") \/ Goto(c, "idle")
    \/ pc[c] = "reset" /\ Goto(c, "idle") /\ UNCHANGED <<sem, idle>>
    \/ pc[c] = "drain" /\ Goto(c, "reset") /\ UNCHANGED <<sem, idle>>
    \/ /\ pc[c] = "drain" /\ Goto(c, "closing") /\ UNCHANGED sem
       /\ \E s \in idle : idle' = idle \ {s}
    \/ pc[c] = "closing" /\ Goto(c, "drain") /\ UNCHANGED <<sem, idle>>

CallerStep(c) ==
    WithSession(c) \/ Close(c) \/ TakePermit(c) \/ Cancelled(c) \/ Proceed(c)

\* Every action of a caller is such a step.
LEMMA CallerStepCounts ==
    ASSUME TypeOK, NEW c \in Callers, CallerStep(c)
    PROVE  CountingStep(c)
<1>1. CASE WithSession(c) \/ Close(c)
  BY <1>1 DEF WithSession, Close, Loaded, CountingStep, pool
<1>2. CASE TakePermit(c) \/ Cancelled(c) \/ Pick(c) \/ OpenFails(c)
  BY <1>2 DEF TakePermit, Cancelled, Pick, OpenFails, CountingStep, pool
<1>3. CASE OpenSession(c) \/ Login(c) \/ RunOp(c)
  BY <1>3 DEF OpenSession, Login, RunOp, CountingStep, pool
<1>4. CASE Release(c) \/ Free(c) \/ ResetLogin(c)
  BY <1>4 DEF Release, Free, ResetLogin, CountingStep
<1>5. CASE DrainTake(c) \/ DrainClose(c)
  BY <1>5 DEF DrainTake, DrainClose, CountingStep, pool
<1>. QED
  BY <1>1, <1>2, <1>3, <1>4, <1>5 DEF CallerStep, Proceed

\* The counts survive every caller's step: a permit is given back once, and a
\* session leaves a user's hand when it enters idle.
LEMMA CountsPreserved ==
    ASSUME IInv, NEW c \in Callers, CountingStep(c)
    PROVE  /\ sem' \in 0..PoolSize
           /\ IsFiniteSet(idle')
           /\ PermitsReturned'
           /\ Capacity'
<1>. USE PoolSizeType, Finite DEF IInv
<1>. DEFINE Good == /\ sem' \in 0..PoolSize
                    /\ IsFiniteSet(idle')
                    /\ PermitsReturned'
                    /\ Capacity'
<1>0. /\ sem \in 0..PoolSize
      /\ sem = Cardinality(PermitHolders)
      /\ Cardinality(idle) + Cardinality(SessionUsers) <= PoolSize
      /\ Cardinality(idle) \in Nat
  BY FS_CardinalityType DEF TypeOK, PermitsReturned, Capacity
<1>1. ASSUME NEW s \in States, Goto(c, s), UNCHANGED <<sem, idle>>,
             pc[c] \in WithPermit <=> s \in WithPermit,
             pc[c] \in WithSessionDue <=> s \in WithSessionDue
      PROVE  Good
  BY <1>0, <1>1, Counts DEF PermitsReturned, Capacity
<1>2. CASE UNCHANGED <<pc, sem, idle>>
  <2>1. PermitHolders' = PermitHolders /\ SessionUsers' = SessionUsers
    BY <1>2 DEF PermitHolders, SessionUsers
  <2>. QED
    BY <1>0, <1>2, <2>1 DEF PermitsReturned, Capacity
<1>3. CASE /\ pc[c] = "acquire" /\ Goto(c, "pick")
           /\ sem < PoolSize /\ sem' = sem + 1 /\ UNCHANGED idle
  <2>1. /\ Cardinality(PermitHolders') = Cardinality(PermitHolders) + 1
        /\ Cardinality(SessionUsers') = Cardinality(SessionUsers)
    BY <1>3, Counts DEF WithPermit, WithSessionDue, States
  <2>. QED
    BY <1>0, <1>3, <2>1 DEF PermitsReturned, Capacity
<1>4. CASE pc[c] = "pick" /\ Goto(c, "open") /\ idle = {} /\ UNCHANGED <<sem, idle>>
  <2>1. /\ Cardinality(PermitHolders') = Cardinality(PermitHolders)
        /\ Cardinality(SessionUsers') = Cardinality(SessionUsers) + 1
    BY <1>4, Counts DEF WithPermit, WithSessionDue, States
  <2>2. Cardinality(SessionUsers) < PoolSize
    BY <1>4, PickerHasRoom
  <2>3. Cardinality(idle) = 0
    BY <1>4, FS_EmptySet
  <2>. QED
    BY <1>0, <1>4, <2>1, <2>2, <2>3 DEF PermitsReturned, Capacity
<1>5. CASE /\ pc[c] = "pick" /\ Goto(c, "login") /\ UNCHANGED sem
           /\ \E s \in idle : idle' = idle \ {s}
  <2>1. /\ Cardinality(PermitHolders') = Cardinality(PermitHolders)
        /\ Cardinality(SessionUsers') = Cardinality(SessionUsers) + 1
    BY <1>5, Counts DEF WithPermit, WithSessionDue, States
  <2>2. IsFiniteSet(idle') /\ Cardinality(idle') = Cardinality(idle) - 1
    BY <1>5, FS_RemoveElement
  <2>. QED
    BY <1>0, <1>5, <2>1, <2>2 DEF PermitsReturned, Capacity
<1>6. CASE pc[c] = "open" /\ Goto(c, "idle") /\ sem' = sem - 1 /\ UNCHANGED idle
  <2>1. /\ Cardinality(PermitHolders') = Cardinality(PermitHolders) - 1
        /\ Cardinality(SessionUsers') = Cardinality(SessionUsers) - 1
    BY <1>6, Counts DEF WithPermit, WithSessionDue, States
  <2>2. Cardinality(PermitHolders') \in Nat
    BY Finite, FS_RemoveElement, FS_CardinalityType, Moves, <1>6
    DEF WithPermit, States
  <2>. QED
    BY <1>0, <1>6, <2>1, <2>2 DEF PermitsReturned, Capacity
<1>7. CASE /\ pc[c] = "release" /\ Goto(c, "free") /\ UNCHANGED sem
           /\ idle' \in {idle, idle \cup {sess[c]}}
  <2>1. /\ Cardinality(PermitHolders') = Cardinality(PermitHolders)
        /\ Cardinality(SessionUsers') = Cardinality(SessionUsers) - 1
    BY <1>7, Counts DEF WithPermit, WithSessionDue, States
  <2>2. /\ IsFiniteSet(idle')
        /\ Cardinality(idle') \in {Cardinality(idle), Cardinality(idle) + 1}
    BY <1>7, FS_AddElement
  <2>. QED
    BY <1>0, <1>7, <2>1, <2>2 DEF PermitsReturned, Capacity
<1>8. ASSUME NEW s \in {"reset", "idle"}, pc[c] = "free", Goto(c, s),
             sem' = sem - 1, UNCHANGED idle
      PROVE  Good
  <2>1. /\ Cardinality(PermitHolders') = Cardinality(PermitHolders) - 1
        /\ Cardinality(SessionUsers') = Cardinality(SessionUsers)
    BY <1>8, Counts DEF WithPermit, WithSessionDue, States
  <2>2. Cardinality(PermitHolders') \in Nat
    BY Finite, FS_RemoveElement, FS_CardinalityType, Moves, <1>8
    DEF WithPermit, States
  <2>. QED
    BY <1>0, <1>8, <2>1, <2>2 DEF PermitsReturned, Capacity
<1>9. CASE /\ pc[c] = "drain" /\ Goto(c, "closing") /\ UNCHANGED sem
           /\ \E s \in idle : idle' = idle \ {s}
  <2>1. /\ Cardinality(PermitHolders') = Cardinality(PermitHolders)
        /\ Cardinality(SessionUsers') = Cardinality(SessionUsers)
    BY <1>9, Counts DEF WithPermit, WithSessionDue, States
  <2>2. IsFiniteSet(idle') /\ Cardinality(idle') = Cardinality(idle) - 1
    BY <1>9, FS_RemoveElement
  <2>. QED
    BY <1>0, <1>9, <2>1, <2>2 DEF PermitsReturned, Capacity
<1>. QED
  BY <1>1, <1>2, <1>3, <1>4, <1>5, <1>6, <1>7, <1>8, <1>9
  DEF CountingStep, WithPermit, WithSessionDue, States

-----------------------------------------------------------------------------
\* Sessions move between idle, one goroutine's hand and the token: a step never
\* puts one in two places, and never drops one the token still counts.
LEMMA OwnershipPreserved ==
    ASSUME IInv, NEW c \in Callers, CallerStep(c)
    PROVE  HandsOK' /\ Exclusive' /\ NoSessionLeak'
<1>. DEFINE Good == HandsOK' /\ Exclusive' /\ NoSessionLeak'
<1>. USE DEF IInv, TypeOK, HandsOK, Exclusive, NoSessionLeak, Goto
<1>1. CASE WithSession(c) \/ Close(c) \/ TakePermit(c) \/ Cancelled(c)
           \/ OpenFails(c) \/ RunOp(c) \/ Free(c) \/ ResetLogin(c)
  <2>1. UNCHANGED <<sess, idle, open, refused>>
    BY <1>1 DEF WithSession, Close, Loaded, TakePermit, Cancelled, OpenFails,
                RunOp, Free, ResetLogin, pool, token
  <2>2. HandsOK'
    BY <1>1, <2>1 DEF WithSession, Close, Loaded, TakePermit, Cancelled,
                      OpenFails, RunOp, Free, ResetLogin
  <2>. QED
    BY <2>1, <2>2
<1>2. CASE Login(c)
  BY <1>2 DEF Login
<1>3. ASSUME NEW s \in idle, NEW next \in {"login", "closing"},
             pc[c] \in {"pick", "drain"}, idle' = idle \ {s},
             sess' = [sess EXCEPT ![c] = s], Goto(c, next),
             UNCHANGED <<open, refused>>
      PROVE  Good
  <2>1. s \in Handles /\ s # NoSession
    BY SessionPoolAssumption DEF SessionPoolAssumption
  <2>2. sess[c] = NoSession
    BY <1>3
  <2>3. HandsOK'
    BY <1>3, <2>1
  <2>4. Exclusive'
    BY <1>3, <2>1
  <2>5. \A x \in open : \/ x \in idle' \cup refused
                       \/ \E d \in Callers : sess'[d] = x
    BY <1>3, <2>1, <2>2, SessionPoolAssumption DEF SessionPoolAssumption
  <2>. QED
    BY <1>3, <2>3, <2>4, <2>5
<1>4. CASE Pick(c) \/ DrainTake(c)
  <2>1. CASE idle = {} /\ UNCHANGED <<idle, sess, open, refused>>
    BY <1>4, <2>1 DEF Pick, DrainTake, token
  <2>. QED
    BY <1>3, <1>4, <2>1 DEF Pick, DrainTake, token
<1>5. CASE OpenSession(c)
  <2>. PICK h \in Handles : /\ IsNewHandle(h)
                            /\ open' = open \cup {h}
                            /\ sess' = [sess EXCEPT ![c] = h]
    BY <1>5 DEF OpenSession
  <2>1. /\ h \notin idle
        /\ \A d \in Callers : sess[d] # h
        /\ h # NoSession
    BY SessionPoolAssumption DEF IsNewHandle, Unused, SessionPoolAssumption
  <2>2. /\ idle' = idle /\ refused' = refused
        /\ pc' = [pc EXCEPT ![c] = "login"] /\ sess[c] = NoSession
    BY <1>5 DEF OpenSession, pool
  <2>3. HandsOK'
    BY <2>1, <2>2
  <2>4. Exclusive'
    BY <2>1, <2>2
  <2>5. \A x \in open' : \/ x \in idle' \cup refused'
                        \/ \E d \in Callers : sess'[d] = x
    BY <2>1, <2>2, SessionPoolAssumption DEF SessionPoolAssumption
  <2>. QED
    BY <2>3, <2>4, <2>5
<1>6. CASE Release(c) \/ DrainClose(c)
  <2>1. /\ sess[c] # NoSession /\ sess[c] \in Handles
        /\ sess' = [sess EXCEPT ![c] = NoSession]
        /\ pc' \in {[pc EXCEPT ![c] = "free"], [pc EXCEPT ![c] = "drain"]}
        /\ \/ /\ idle' = idle \cup {sess[c]}
              /\ open' = open /\ refused' = refused
           \/ /\ idle' = idle
              /\ open' = open \ {sess[c]} /\ refused' = refused \ {sess[c]}
           \/ /\ idle' = idle
              /\ open' = open /\ refused' = refused \cup ({sess[c]} \cap open)
    BY <1>6 DEF Release, DrainClose, CloseSession, pool, token
  <2>2. HandsOK'
    BY <2>1
  <2>3. Exclusive'
    BY <2>1
  <2>4. \A x \in open' : \/ x \in idle' \cup refused'
                        \/ \E d \in Callers : sess'[d] = x
    <3>. TAKE x \in open'
    <3>1. x \in open
      BY <2>1
    <3>2. CASE x = sess[c]
      BY <2>1, <3>1, <3>2
    <3>3. CASE x # sess[c]
      <4>1. x \in idle \cup refused \/ \E d \in Callers : sess[d] = x
        BY <3>1
      <4>. QED
        BY <2>1, <3>3, <4>1
    <3>. QED
      BY <3>2, <3>3
  <2>. QED
    BY <2>2, <2>3, <2>4
<1>. QED
  BY <1>1, <1>2, <1>4, <1>5, <1>6 DEF CallerStep, Proceed

\* The variables the counting argument does not cover keep their types.
LEMMA TypesPreserved ==
    ASSUME IInv, NEW c \in Callers, CallerStep(c), sem' \in 0..PoolSize
    PROVE  TypeOK'
<1>. USE DEF IInv, TypeOK, Goto, States, Errors, pool, token, registry
<1>1. CASE WithSession(c) \/ Close(c)
  BY <1>1 DEF WithSession, Close, Loaded
<1>2. CASE TakePermit(c) \/ Cancelled(c) \/ OpenFails(c) \/ Free(c) \/ ResetLogin(c)
  BY <1>2 DEF TakePermit, Cancelled, OpenFails, Free, ResetLogin
<1>3. CASE Pick(c) \/ DrainTake(c)
  BY <1>3 DEF Pick, DrainTake
<1>4. CASE OpenSession(c)
  BY <1>4 DEF OpenSession
<1>5. CASE Login(c) \/ RunOp(c)
  BY <1>5, FaultsType DEF Login, RunOp, ReportsDead
<1>6. CASE Release(c)
  <2>1. sess[c] \in Handles
    BY <1>6 DEF Release, HandsOK
  <2>. QED
    BY <1>6, <2>1 DEF Release, CloseSession
<1>7. CASE DrainClose(c)
  BY <1>7 DEF DrainClose, CloseSession
<1>. QED
  BY <1>1, <1>2, <1>3, <1>4, <1>5, <1>6, <1>7 DEF CallerStep, Proceed

-----------------------------------------------------------------------------
\* IInv is an invariant of the pool.
LEMMA Invariance == Spec => []IInv
<1>1. Init => IInv
  <2>. SUFFICES ASSUME Init PROVE IInv
    OBVIOUS
  <2>1. PermitHolders = {} /\ SessionUsers = {}
    BY DEF Init, PermitHolders, SessionUsers, WithPermit, WithSessionDue
  <2>2. TypeOK
    <3>1. sem \in 0..PoolSize /\ faults \in 0..MaxFaults
      BY PoolSizeType, SessionPoolAssumption DEF Init, SessionPoolAssumption
    <3>. QED
      BY <3>1 DEF Init, TypeOK, States, Errors
  <2>3. HandsOK /\ Exclusive /\ NoSessionLeak
    BY DEF Init, HandsOK, Exclusive, NoSessionLeak
  <2>4. IsFiniteSet(idle) /\ PermitsReturned /\ Capacity
    BY <2>1, FS_EmptySet, PoolSizeType DEF Init, PermitsReturned, Capacity
  <2>. QED
    BY <2>2, <2>3, <2>4 DEF IInv
<1>2. ASSUME IInv, [Next]_vars PROVE IInv'
  <2>1. ASSUME NEW c \in Callers, CallerStep(c) PROVE IInv'
    <3>1. CountingStep(c)
      BY <1>2, <2>1, CallerStepCounts DEF IInv
    <3>2. /\ sem' \in 0..PoolSize
          /\ IsFiniteSet(idle')
          /\ PermitsReturned'
          /\ Capacity'
      BY <1>2, <3>1, CountsPreserved
    <3>3. TypeOK'
      BY <1>2, <2>1, <3>2, TypesPreserved
    <3>. QED
      BY <1>2, <2>1, <3>2, <3>3, OwnershipPreserved DEF IInv
  <2>2. CASE Shutdown
    <3>1. PermitHolders' = {} /\ SessionUsers' = {}
      BY <2>2 DEF Shutdown, PermitHolders, SessionUsers, WithPermit, WithSessionDue
    <3>2. TypeOK'
      <4>1. sem' \in 0..PoolSize
        BY <2>2, PoolSizeType DEF Shutdown
      <4>. QED
        BY <1>2, <2>2, <4>1 DEF IInv, TypeOK, Shutdown
    <3>3. IsFiniteSet(idle') /\ PermitsReturned' /\ Capacity'
      BY <2>2, <3>1, FS_EmptySet, PoolSizeType DEF Shutdown, PermitsReturned, Capacity
    <3>4. HandsOK' /\ Exclusive' /\ NoSessionLeak'
      BY <1>2, <2>2 DEF IInv, Shutdown, HandsOK, Exclusive, NoSessionLeak
    <3>. QED
      BY <3>2, <3>3, <3>4 DEF IInv
  <2>3. CASE TokenReset
    <3>1. PermitHolders' = PermitHolders /\ SessionUsers' = SessionUsers
      BY <2>3 DEF TokenReset, PermitHolders, SessionUsers
    <3>2. TypeOK'
      <4>1. faults' \in 0..MaxFaults
        BY <1>2, <2>3, FaultsType DEF IInv, TypeOK, TokenReset
      <4>. QED
        BY <1>2, <2>3, <4>1 DEF IInv, TypeOK, TokenReset, registry, pool
    <3>. QED
      BY <1>2, <2>3, <3>1, <3>2
      DEF IInv, TokenReset, pool, PermitsReturned, Capacity, HandsOK, Exclusive,
          NoSessionLeak
  <2>4. CASE UNCHANGED vars
    <3>1. PermitHolders' = PermitHolders /\ SessionUsers' = SessionUsers
      BY <2>4 DEF vars, PermitHolders, SessionUsers
    <3>. QED
      BY <1>2, <2>4, <3>1
      DEF IInv, vars, TypeOK, PermitsReturned, Capacity, HandsOK, Exclusive,
          NoSessionLeak
  <2>. QED
    BY <1>2, <2>1, <2>2, <2>3, <2>4 DEF Next, CallerStep
<1>. QED
  BY <1>1, <1>2, PTL DEF Spec

\* All variables of the pool keep their types; in particular the permits taken
\* never exceed the channel's capacity nor go below zero.
THEOREM TypeCorrectness == Spec => []TypeOK
BY Invariance, PTL DEF IInv

\* No error path of withSession or acquire loses or duplicates a permit.
THEOREM PermitsAreReturned == Spec => []PermitsReturned
BY Invariance, PTL DEF IInv

\* The idle sessions and the sessions in use never exceed the pool's size, so
\* the branch of pool.release that closes a session for want of room is dead.
THEOREM CapacityRespected == Spec => []Capacity
BY Invariance, PTL DEF IInv

\* A session is in one goroutine's hand at a time, and not in idle meanwhile.
THEOREM SessionsAreExclusive == Spec => []Exclusive
BY Invariance, PTL DEF IInv

\* Every session open on the token is idle, in a goroutine's hand, or one the
\* token was told to close and refused.
THEOREM SessionsNeverLeak == Spec => []NoSessionLeak
BY Invariance, PTL DEF IInv

-----------------------------------------------------------------------------
\* A union is no larger than its parts together.
LEMMA UnionBound ==
    ASSUME NEW S, NEW T, IsFiniteSet(S), IsFiniteSet(T)
    PROVE  /\ IsFiniteSet(S \cup T)
           /\ Cardinality(S \cup T) <= Cardinality(S) + Cardinality(T)
<1>1. S \cap T \in SUBSET S
  OBVIOUS
<1>2. IsFiniteSet(S \cap T)
  BY <1>1, FS_Subset
<1>3. /\ Cardinality(S \cap T) \in Nat
      /\ Cardinality(S) \in Nat
      /\ Cardinality(T) \in Nat
  BY <1>2, FS_CardinalityType
<1>4. /\ IsFiniteSet(S \cup T)
      /\ Cardinality(S \cup T) =
            Cardinality(S) + Cardinality(T) - Cardinality(S \cap T)
  BY FS_Union
<1>. QED
  BY <1>3, <1>4

\* But for the sessions it refused to close, the token never has more open than
\* the pool may hold plus those a Close in progress has taken out of idle: no
\* leak, and Capacity.
THEOREM OpenSessionsAreBounded == Spec => []OpenSessionsBounded
<1>1. ASSUME IInv PROVE OpenSessionsBounded
  <2>. DEFINE Hands == {c \in Callers : sess[c] # NoSession}
              InHand == {sess[c] : c \in Hands}
              holds == [c \in Hands |-> sess[c]]
  <2>. USE Finite, PoolSizeType DEF IInv
  <2>1. open \ refused \subseteq idle \cup InHand
    BY <1>1, SessionPoolAssumption
    DEF NoSessionLeak, TypeOK, SessionPoolAssumption
  <2>2. Hands \subseteq SessionUsers \cup Draining
    BY <1>1 DEF HandsOK, SessionUsers, Draining, WithSessionDue
  <2>3. /\ IsFiniteSet(SessionUsers \cup Draining)
        /\ Cardinality(SessionUsers \cup Draining) <=
              Cardinality(SessionUsers) + Cardinality(Draining)
    BY UnionBound
  <2>4. /\ IsFiniteSet(Hands)
        /\ Cardinality(Hands) <= Cardinality(SessionUsers \cup Draining)
    BY <2>2, <2>3, FS_Subset
  <2>5. holds \in Surjection(Hands, InHand)
    BY DEF Surjection
  <2>6. IsFiniteSet(InHand) /\ Cardinality(InHand) <= Cardinality(Hands)
    BY <2>4, <2>5, FS_Surjection
  <2>7. /\ IsFiniteSet(idle \cup InHand)
        /\ Cardinality(idle \cup InHand) <= Cardinality(idle) + Cardinality(InHand)
    BY <1>1, <2>6, UnionBound
  <2>8. /\ IsFiniteSet(open \ refused)
        /\ Cardinality(open \ refused) <= Cardinality(idle \cup InHand)
    BY <2>1, <2>7, FS_Subset
  <2>9. /\ Cardinality(idle) \in Nat /\ Cardinality(InHand) \in Nat
        /\ Cardinality(Hands) \in Nat /\ Cardinality(open \ refused) \in Nat
        /\ Cardinality(SessionUsers \cup Draining) \in Nat
        /\ Cardinality(idle \cup InHand) \in Nat
    BY <1>1, <2>3, <2>4, <2>6, <2>7, <2>8, FS_CardinalityType
  <2>. HIDE DEF Hands, InHand, holds
  <2>. QED
    BY <1>1, <2>3, <2>4, <2>6, <2>7, <2>8, <2>9
    DEF Capacity, OpenSessionsBounded
<1>. QED
  BY <1>1, Invariance, PTL
=============================================================================
