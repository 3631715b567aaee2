----------------------------- MODULE SessionPool -----------------------------
(***************************************************************************)
(* How the PKCS#11 backend shares one token between concurrent operations: *)
(* the module registry, the cached slot, the session pool and the cached   *)
(* login flag of encrypt/pkcs11/session.go, driven by withSession          *)
(* (backend.go) and Repository.Close (repository.go).                      *)
(*                                                                         *)
(* A caller is one goroutine.  Every lock or channel operation and every   *)
(* call into the PKCS#11 library is one action, because that is where      *)
(* another goroutine, or the token, can get in between.  The token is      *)
(* external: it keeps the set of open sessions and one login per slot,     *)
(* drops the login with the last session, and may drop everything (device  *)
(* removed, HSM restarted).  Every call into it may fail, C_CloseSession   *)
(* and C_Finalize too: the code ignores or only reports that, so a session *)
(* the token refused to close stays open on it with nobody to use it.  One *)
(* library and one slot are modelled.  The reference count is left out:    *)
(* nothing reads it.                                                       *)
(***************************************************************************)
EXTENDS Integers, FiniteSets

CONSTANTS
    Callers,     \* goroutines calling repository methods or Close
    Handles,     \* session handles the token can hand out
    MaxSession,  \* config.maxSession
    TokenMax,    \* slotInfo.MaxSessions, 0 when the token states no limit
    SizeKnown,   \* poolSize could read it: mod.Slots did not fail
    MaxFaults,   \* how often the token drops every session, or calls a
                 \* session dead that it keeps open
    NoSession    \* no session in hand

ASSUME SessionPoolAssumption ==
    /\ IsFiniteSet(Callers)
    /\ MaxSession \in Int
    /\ TokenMax \in Nat
    /\ SizeKnown \in BOOLEAN
    /\ MaxFaults \in Nat
    /\ NoSession \notin Handles

VARIABLES
    entry,       \* the registry's entry: "absent", "ready" or "failed" (err)
    slotCached,  \* the slot is in entry.slots, with its pool
    sem,         \* permits taken from pool.sem
    idle,        \* sessions in pool.idle
    loggedIn,    \* slotState.loggedIn
    open,        \* token: the open sessions
    tokenLogin,  \* token: the user is logged in
    refused,     \* token: the open sessions whose close failed
    faults,      \* how many of the MaxFaults happened
    pc,          \* control state of each caller
    sess,        \* the session in a caller's hand
    err          \* opErr of the operation in progress

vars == <<entry, slotCached, sem, idle, loggedIn, open, tokenLogin, refused,
          faults, pc, sess, err>>
token == <<open, tokenLogin, refused, faults>>
pool == <<sem, idle, loggedIn>>
registry == <<entry, slotCached>>

Errors == {"none", "error", "dead", "notLoggedIn"}
States == {"idle", "acquire", "pick", "open", "login", "op",
           "release", "free", "reset", "drain", "closing"}

(* poolSize clamps the configuration to the token, unless the slots cannot be
   listed, and newSessionPool to one. *)
PoolSize ==
    LET clamped == IF SizeKnown /\ TokenMax > 0 /\ MaxSession > TokenMax
                   THEN TokenMax ELSE MaxSession
    IN  IF clamped < 1 THEN 1 ELSE clamped

TypeOK ==
    /\ entry \in {"absent", "ready", "failed"}
    /\ slotCached \in BOOLEAN
    /\ sem \in 0..PoolSize
    /\ idle \subseteq Handles
    /\ loggedIn \in BOOLEAN
    /\ open \subseteq Handles
    /\ tokenLogin \in BOOLEAN
    /\ refused \subseteq open
    /\ faults \in 0..MaxFaults
    /\ pc \in [Callers -> States]
    /\ sess \in [Callers -> Handles \cup {NoSession}]
    /\ err \in [Callers -> Errors]

Init ==
    /\ entry = "absent" /\ slotCached = FALSE
    /\ sem = 0 /\ idle = {} /\ loggedIn = FALSE
    /\ open = {} /\ tokenLogin = FALSE /\ refused = {} /\ faults = 0
    /\ pc = [c \in Callers |-> "idle"]
    /\ sess = [c \in Callers |-> NoSession]
    /\ err = [c \in Callers |-> "none"]

Goto(c, s) == pc' = [pc EXCEPT ![c] = s]

\* sessionIsDead: the codes that mean the session or the login is gone.
SessionIsDead(e) == e \in {"dead", "notLoggedIn"}

(* CKR_SESSION_HANDLE_INVALID and the like from a session that is gone; or
   CKR_DEVICE_ERROR and its kind, which sessionIsDead counts too, while the
   session is still open on the token. *)
ReportsDead(s) ==
    \/ s \notin open /\ UNCHANGED faults
    \/ s \in open /\ faults < MaxFaults /\ faults' = faults + 1

(* C_CloseSession: the token drops the login with its last session.  It may
   also fail, and then a session that was open still is. *)
CloseSession(s) ==
    /\ \/ /\ open' = open \ {s}
          /\ refused' = refused \ {s}
          /\ tokenLogin' = (tokenLogin /\ open' # {})
       \/ /\ refused' = refused \cup ({s} \cap open)
          /\ UNCHANGED <<open, tokenLogin>>
    /\ UNCHANGED faults

(* A handle the token may return: never one of an open session, nor one the
   process still holds.  The code never compares handles, so they are taken in
   a fixed order. *)
Unused == Handles \ (open \cup idle \cup {sess[c] : c \in Callers})
IsNewHandle(h) == h \in Unused /\ h = CHOOSE u \in Unused : TRUE

-----------------------------------------------------------------------------
(* withSession: an operation of a repository. *)

(* acquireModule: the first caller loads and initializes the library, once;
   its failure stays with the entry. *)
Loaded(outcome) ==
    /\ entry # "absent" => outcome = entry
    /\ entry' = outcome

(* The context, the configuration, acquireModule and slotFor: nothing to wait
   for, and nothing another goroutine could undo in between.  Resolving the
   slot or listing its mechanisms may fail; only a success is cached. *)
WithSession(c) ==
    /\ pc[c] = "idle"
    /\ \/ /\ Loaded("failed")
          /\ UNCHANGED <<pc, slotCached>>
       \/ /\ Loaded("ready")
          /\ UNCHANGED <<pc, slotCached>>
       \/ /\ Loaded("ready")
          /\ slotCached' = TRUE
          /\ Goto(c, "acquire")
    /\ UNCHANGED <<pool, token, sess, err>>

\* pool.acquire: case p.sem <- struct{}{}
TakePermit(c) ==
    /\ pc[c] = "acquire"
    /\ sem < PoolSize
    /\ sem' = sem + 1
    /\ Goto(c, "pick")
    /\ UNCHANGED <<registry, idle, loggedIn, token, sess, err>>

\* pool.acquire: ctx.Err() or case <-ctx.Done()
Cancelled(c) ==
    /\ pc[c] = "acquire"
    /\ Goto(c, "idle")
    /\ UNCHANGED <<registry, pool, token, sess, err>>

\* Bugs: idle sessions are never reused; one is used but stays in idle.
PickNeverReuses(c) ==
    /\ pc[c] = "pick"
    /\ Goto(c, "open")
    /\ UNCHANGED <<registry, pool, token, sess, err>>
PickWithoutTaking(c) ==
    /\ pc[c] = "pick"
    /\ \/ idle = {} /\ Goto(c, "open") /\ UNCHANGED sess
       \/ \E s \in idle : sess' = [sess EXCEPT ![c] = s] /\ Goto(c, "login")
    /\ UNCHANGED <<registry, pool, token, err>>

\* pool.acquire: take an idle session if there is one, else open one.
Pick(c) ==
    /\ pc[c] = "pick"
    /\ \/ /\ idle = {}
          /\ Goto(c, "open")
          /\ UNCHANGED <<idle, sess>>
       \/ \E s \in idle :
             /\ idle' = idle \ {s}
             /\ sess' = [sess EXCEPT ![c] = s]
             /\ Goto(c, "login")
    /\ UNCHANGED <<registry, sem, loggedIn, token, err>>

\* A bug: a failed C_OpenSession keeps its permit.
OpenFailsKeepingPermit(c) ==
    /\ pc[c] = "open"
    /\ Goto(c, "idle")
    /\ UNCHANGED <<registry, pool, token, sess, err>>

\* C_OpenSession fails, for any reason: the permit goes back.
OpenFails(c) ==
    /\ pc[c] = "open"
    /\ sem' = sem - 1
    /\ Goto(c, "idle")
    /\ UNCHANGED <<registry, idle, loggedIn, token, sess, err>>

OpenSession(c) ==
    /\ pc[c] = "open"
    /\ TokenMax > 0 => Cardinality(open) < TokenMax
    /\ \E h \in Handles :
          /\ IsNewHandle(h)
          /\ open' = open \cup {h}
          /\ sess' = [sess EXCEPT ![c] = h]
    /\ Goto(c, "login")
    /\ UNCHANGED <<registry, pool, tokenLogin, refused, faults, err>>

(* slotState.login, under loginMu: nothing to do when the flag is set; else
   the PIN provider and C_Login, which fail or leave the user logged in
   (CKR_USER_ALREADY_LOGGED_IN counts as success). *)
Login(c) ==
    /\ pc[c] = "login"
    /\ \/ /\ loggedIn
          /\ Goto(c, "op")
          /\ UNCHANGED <<loggedIn, tokenLogin, faults, err>>
       \/ /\ ~loggedIn /\ sess[c] \in open
          /\ loggedIn' = TRUE
          /\ tokenLogin' = TRUE
          /\ Goto(c, "op")
          /\ UNCHANGED <<faults, err>>
       \/ /\ ~loggedIn
          /\ \E e \in {"error", "dead"} :
                /\ err' = [err EXCEPT ![c] = e]
                /\ IF e = "dead" THEN ReportsDead(sess[c]) ELSE UNCHANGED faults
          /\ Goto(c, "release")
          /\ UNCHANGED <<loggedIn, tokenLogin>>
    /\ UNCHANGED <<registry, sem, idle, open, refused, sess>>

(* The operation on the session, and what the token says to it: it succeeds
   only on an open session, and CKR_USER_NOT_LOGGED_IN needs one without a
   login; it may fail for any other reason at any time. *)
RunOp(c) ==
    /\ pc[c] = "op"
    /\ \E e \in Errors :
          /\ e = "none" => sess[c] \in open
          /\ e = "notLoggedIn" => sess[c] \in open /\ ~tokenLogin
          /\ err' = [err EXCEPT ![c] = e]
          /\ IF e = "dead" THEN ReportsDead(sess[c]) ELSE UNCHANGED faults
    /\ Goto(c, "release")
    /\ UNCHANGED <<registry, pool, open, tokenLogin, refused, sess>>

\* A bug: a session the token refused is dropped without closing it.
ReleaseLeaking(c) ==
    /\ pc[c] = "release"
    /\ idle' = IF SessionIsDead(err[c]) THEN idle ELSE idle \cup {sess[c]}
    /\ sess' = [sess EXCEPT ![c] = NoSession]
    /\ Goto(c, "free")
    /\ UNCHANGED <<registry, sem, loggedIn, token, err>>

(* pool.release, all but the deferred part: a dead session is closed, another
   goes back to idle, or is closed if idle were full.  Whether the close
   succeeded is ignored. *)
Release(c) ==
    /\ pc[c] = "release"
    /\ IF ~SessionIsDead(err[c]) /\ Cardinality(idle) < PoolSize
       THEN idle' = idle \cup {sess[c]} /\ UNCHANGED token
       ELSE CloseSession(sess[c]) /\ UNCHANGED idle
    /\ sess' = [sess EXCEPT ![c] = NoSession]
    /\ Goto(c, "free")
    /\ UNCHANGED <<registry, sem, loggedIn, err>>

\* pool.release, the deferred <-p.sem.
Free(c) ==
    /\ pc[c] = "free"
    /\ sem' = sem - 1
    /\ Goto(c, IF SessionIsDead(err[c]) THEN "reset" ELSE "idle")
    /\ err' = [err EXCEPT ![c] = "none"]
    /\ UNCHANGED <<registry, idle, loggedIn, token, sess>>

\* slotState.resetLogin, after a dead session or after Close drained the pool.
ResetLogin(c) ==
    /\ pc[c] = "reset"
    /\ loggedIn' = FALSE
    /\ Goto(c, "idle")
    /\ UNCHANGED <<registry, sem, idle, token, sess, err>>

-----------------------------------------------------------------------------
(* Repository.Close, and the token's and the process's own events. *)

(* Close and moduleEntry.release: the slots are listed under the lock; a slot
   no operation has used yet is not there, and nothing is left to do. *)
Close(c) ==
    /\ pc[c] = "idle"
    /\ \/ /\ Loaded("failed")
          /\ UNCHANGED pc
       \/ /\ Loaded("ready")
          /\ IF slotCached THEN Goto(c, "drain") ELSE UNCHANGED pc
    /\ UNCHANGED <<slotCached, pool, token, sess, err>>

\* pool.drain takes one idle session out...
DrainTake(c) ==
    /\ pc[c] = "drain"
    /\ \/ /\ idle = {}
          /\ Goto(c, "reset")
          /\ UNCHANGED <<idle, sess>>
       \/ \E s \in idle :
             /\ idle' = idle \ {s}
             /\ sess' = [sess EXCEPT ![c] = s]
             /\ Goto(c, "closing")
    /\ UNCHANGED <<registry, sem, loggedIn, token, err>>

\* ...and closes it; an error is joined to Close's and the drain goes on.
DrainClose(c) ==
    /\ pc[c] = "closing"
    /\ CloseSession(sess[c])
    /\ sess' = [sess EXCEPT ![c] = NoSession]
    /\ Goto(c, "drain")
    /\ UNCHANGED <<registry, pool, err>>

(* Shutdown empties the registry, and then finalizes the library it had
   initialized, which closes every session.  "Call it once, on the way out,
   when no repository is in use": no call is in progress.  If C_Finalize fails
   the sessions stay open, and nobody knows them any more; a later Initialize
   then finds the library initialized and goes on. *)
Shutdown ==
    /\ \A c \in Callers : pc[c] = "idle"
    /\ entry' = "absent" /\ slotCached' = FALSE
    /\ sem' = 0 /\ idle' = {} /\ loggedIn' = FALSE
    /\ \/ /\ entry = "ready"
          /\ open' = {} /\ refused' = {} /\ tokenLogin' = FALSE
       \/ /\ refused' = open
          /\ UNCHANGED <<open, tokenLogin>>
    /\ UNCHANGED <<faults, pc, sess, err>>

\* The token is removed or restarts: every session and the login are gone.
TokenReset ==
    /\ faults < MaxFaults
    /\ faults' = faults + 1
    /\ open' = {}
    /\ refused' = {}
    /\ tokenLogin' = FALSE
    /\ UNCHANGED <<registry, pool, pc, sess, err>>

-----------------------------------------------------------------------------
Proceed(c) ==
    \/ Pick(c)
    \/ OpenFails(c)
    \/ OpenSession(c)
    \/ Login(c)
    \/ RunOp(c)
    \/ Release(c)
    \/ Free(c)
    \/ ResetLogin(c)
    \/ DrainTake(c)
    \/ DrainClose(c)

Next ==
    \/ \E c \in Callers :
          WithSession(c) \/ Close(c) \/ TakePermit(c) \/ Cancelled(c) \/ Proceed(c)
    \/ Shutdown
    \/ TokenReset

(* Go runs every runnable goroutine and a library call returns.  A channel
   serves its blocked senders in order, so a goroutine that waits for a permit
   gets one if permits keep coming back.  No context is obliged to end. *)
Fairness ==
    \A c \in Callers : WF_vars(Proceed(c)) /\ SF_vars(TakePermit(c))

Spec == Init /\ [][Next]_vars
FairSpec == Spec /\ Fairness

-----------------------------------------------------------------------------
(* Properties. *)

WithPermit == {"pick", "open", "login", "op", "release", "free"}
WithSessionDue == {"open", "login", "op", "release"}
PermitHolders == {c \in Callers : pc[c] \in WithPermit}
SessionUsers == {c \in Callers : pc[c] \in WithSessionDue}
Draining == {c \in Callers : pc[c] = "closing"}

(* Every way out of an operation gives its permit back exactly once: a failed
   C_OpenSession, a failed login, a dead session.  A lost permit would shrink
   the pool for the life of the process. *)
PermitsReturned == sem = Cardinality(PermitHolders)

(* Sessions parked in idle and sessions an operation has or is about to open
   never exceed the pool's size together, so the "pool is full" branch of
   release is dead code and no session is closed for want of room.  It holds
   because the permit goes back after the session. *)
Capacity == Cardinality(idle) + Cardinality(SessionUsers) <= PoolSize

(* "Exclusivity is required": a session in one goroutine's hand is neither in
   another's nor in idle, whether an operation or a draining Close has it. *)
Exclusive ==
    \A c \in Callers : sess[c] # NoSession =>
        /\ sess[c] \notin idle
        /\ \A d \in Callers : d # c => sess[d] # sess[c]

(* No session the token still counts is forgotten: it is idle, some goroutine
   has it in hand and will park or close it, or the token itself refused to
   close it (release and drain drop such a session, and Shutdown drops them
   all when C_Finalize fails). *)
NoSessionLeak == open \subseteq idle \cup {sess[c] : c \in Callers} \cup refused

(* But for the sessions it refused to close, the token never has more open than
   the pool may hold and the ones a concurrent Close has taken out and not
   closed yet.  The refused ones come on top: their permit goes back and
   another session is opened in their place. *)
OpenSessionsBounded ==
    Cardinality(open \ refused) <= PoolSize + Cardinality(Draining)

(* An operation that waits for a permit is served, and one that runs returns,
   whatever fails and whoever closes meanwhile. *)
OpStates == {"acquire", "pick", "open", "login", "op",
             "release", "free"}
OpReturns == \A c \in Callers : pc[c] \in OpStates ~> pc[c] \in {"reset", "idle"}

(* "the cached flag has to go with them or the next session would skip C_Login
   and fail with CKR_USER_NOT_LOGGED_IN": as long as the token itself drops
   nothing and has no fault, no operation is refused for want of a login. *)
NeverRefusedLogin == faults = 0 => \A c \in Callers : err[c] # "notLoggedIn"
=============================================================================
