-------------------------------- MODULE Keys --------------------------------
(***************************************************************************)
(* The repositories of src/encrypt at work: clients call the methods of    *)
(* one backend (LocalKeys, AwsKms, AzureKeyVault, GcpKms or Pkcs11Keys) on *)
(* keys of one family, the methods make their calls to the service one at  *)
(* a time, and calls of several clients interleave.  The service is        *)
(* external: what it answers is modelled from how the code uses it.        *)
(***************************************************************************)
EXTENDS KeyMaterial, FiniteSets

CONSTANTS
    Clients,    \* concurrent callers
    Managers,   \* the clients that look up and deactivate keys; the others use them
    Names,      \* names of keys that can be created
    MaxCalls,   \* bound on the calls of methods
    Instances   \* the pairs of a backend and a family to explore

Backends == {"local", "aws", "azure", "gcp", "pkcs11"}
Families == {"aes", "rsa", "ecdh", "ed25519", "mac"}

\* "none" is the name that no text names.
ASSUME KeysAssumption ==
    /\ Instances \subseteq Backends \X Families
    /\ "none" \notin Names

Aws   == INSTANCE AwsKms
Azure == INSTANCE AzureKeyVault
Gcp   == INSTANCE GcpKms
Token == INSTANCE Pkcs11Keys
Mem   == INSTANCE LocalKeys

VARIABLES
    env,     \* backend, family, configured key, options
    store,   \* the service's keys: kind, uses, which versions are on, the primary one
    held,    \* the key data that callers have been given
    arts,    \* ciphertexts and signatures, each with the arguments it was made with
    job,     \* each client's call
    calls,   \* the calls made so far
    retired, \* keys whose deactivation has been asked for
    acked    \* per key, the version of the last rotation acknowledged

vars == <<env, store, held, arts, job, calls, retired, acked>>

Configured == "k0"       \* the key that an operator made beforehand
AllNames   == Names \cup {Configured}

Backend == env.backend
Family  == env.family

\* The method that a family's keys come from, the pairs of methods that seal
\* and open, the sizes and the uses of an operator's key.
Generator == [aes |-> "GenerateSymetrycKeys", rsa |-> "GenerateRSAKeys",
              ecdh |-> "GenerateECDHCurveKeys", ed25519 |-> "GenerateEd255Keys"]
Pairs == [aes |-> {<<"EncryptAES", "DecryptAES">>},
          rsa |-> {<<"RSA_OAEP_Encode", "RSA_OAEP_Decode">>, <<"SignRSAPSS", "VerifyRSAPSS">>,
                   <<"Sign_RSA_PKCS1v15_SHA256", "Verify_RSA_PKCS1v15_SHA256">>},
          ecdh |-> {<<"ECDH_Encode", "ECDH_Decode">>},
          ed25519 |-> {<<"SignEd25519", "VerifyEd25519">>},
          mac |-> {<<"HMAC", "HMAC">>}]
Sizes == [aes |-> {Key128Bits, Key256Bits}, rsa |-> {3072}, ecdh |-> {256}, ed25519 |-> {0}, mac |-> {0}]
OperatorUses == [aes |-> {"encrypt"}, rsa |-> {"sign"}, ecdh |-> {"derive"}, ed25519 |-> {"sign"}, mac |-> {"mac"}]

\* The methods that take the public half of a key.
TakesPublic == {"RSA_OAEP_Encode", "ECDH_Encode", "VerifyEd25519", "VerifyRSAPSS", "Verify_RSA_PKCS1v15_SHA256"}
Hashes      == {"HMAC", "Sha256Hex", "Blake3"}
Manages     == {"RotateKey", "GetKey", "DeactivateKey"}

----------------------------------------------------------------------------
\* The method of the backend, and the key data that it makes of a description.
Method(op, a) ==
    CASE Backend = "aws" -> Aws!Method(op, a)
      [] Backend = "azure" -> Azure!Method(op, a)
      [] Backend = "gcp" -> Gcp!Method(op, a)
      [] Backend = "pkcs11" -> Token!Method(op, a)
      [] Backend = "local" -> Mem!Method(op, a)

DataOf(t) ==
    CASE Backend = "aws" -> Aws!awsKeyDataFromMetadata(t)
      [] Backend = "azure" -> Azure!azureKeyDataFromBundle(t)
      [] Backend = "gcp" -> Gcp!gcpKeyDataFromCryptoKey(t)
      [] Backend = "pkcs11" -> Token!keyDataFor(t)

NoKey  == [alg |-> "none", size |-> 0, uses |-> {}, on |-> <<>>, prim |-> 0, after |-> "none"]
NoData == KeyData(NoText, NoText, NoText)
NoArt  == [art |-> Sealed("none", NoText, "", <<>>), with |-> NoData, uid |-> "", add |-> "nil"]

\* "why" a call failed: a fault of the service or the caller's context, a
\* version that is off, a use the key was not made for, or none of these.
Idle   == [st |-> "idle", op |-> "none", with |-> NoData, from |-> NoArt, plan |-> Fail, todo |-> <<>>,
           reg |-> NoText, a |-> [key |-> NoText], val |-> NoDigest, ok |-> TRUE, why |-> "none", floor |-> 0]

NewKey(alg, size, uses, after) ==
    [alg |-> alg, size |-> size, uses |-> uses, on |-> <<TRUE>>,
     prim |-> IF Backend = "gcp" /\ alg # "aes" THEN 0 ELSE 1, after |-> after]

Known(t)    == t.form \in {"ref", "id"} /\ t.key \in AllNames /\ store[t.key] # NoKey
Current(k)  == IF Backend = "azure" THEN Len(store[k].on) ELSE store[k].prim
\* The version that a call about t is about.
Version(t) ==
    CASE Backend = "gcp" -> Gcp!gcpPublicVersionName(t.ver, Current(t.key))
      [] Backend = "azure" /\ t.ver # 0 -> t.ver
      [] OTHER -> Current(t.key)
On(t, v) == v \in DOMAIN store[t.key].on /\ store[t.key].on[v]
Told(k, v) == Text("ref", store[k].alg, k, v, store[k].size)

\* Answers of the service.
Granted(reg, val, st) == [ok |-> TRUE, why |-> "none", reg |-> reg, val |-> val, st |-> st]
Refused(why)          == [ok |-> FALSE, why |-> why, reg |-> NoText, val |-> NoDigest, st |-> store]

TurnOff(t) ==
    [store EXCEPT ![t.key].on = [v \in DOMAIN @ |-> @[v] /\ Backend # "aws" /\ v # Version(t)]]
WithVersion(t) == [store EXCEPT ![t.key].on = Append(@, TRUE)]

\* Which use a cryptographic call needs.
UseOf(do) == CASE do \in {"Encrypt", "Decrypt"} -> "encrypt"
               [] do \in {"Sign", "Verify"} -> "sign"
               [] do = "Mac" -> "mac"
               [] OTHER -> "derive"

\* A ciphertext tells the version that sealed it where the service keeps old
\* versions behind one name; elsewhere it opens with the version addressed.
SealedBy(t, art) == IF Backend = "aws" \/ (Backend = "gcp" /\ art.kind = "aes") THEN art.ver ELSE Version(t)

\* The cryptographic calls, on a key that exists.
Compute(call, t, a) ==
    LET k    == store[t.key]
        v    == IF call.do = "Decrypt" THEN SealedBy(t, a.art) ELSE Version(t)
        fits == a.art.kind = call.kind /\ a.art.key = t.key /\ a.art.ver = v
    IN  IF UseOf(call.do) \notin k.uses THEN Refused("use")
        ELSE IF ~On(t, v) THEN Refused("off")
        ELSE CASE call.do \in {"Encrypt", "Sign", "Mac"} ->
                    Granted(Told(t.key, v), Sealed(call.kind, Told(t.key, v), a.msg, call.bind), store)
               [] call.do = "Decrypt" ->
                    IF fits /\ a.art.bind = call.bind
                    THEN Granted(Told(t.key, v), Message(a.art.msg), store) ELSE Refused("mismatch")
               [] call.do = "Verify" ->
                    IF fits /\ a.art.msg = a.msg THEN Granted(Told(t.key, v), Verified, store) ELSE Refused("mismatch")
               [] call.do = "Derive" ->
                    IF a.art.size = k.size THEN Granted(Told(t.key, v), NoDigest, store) ELSE Refused("mismatch")
               \* An empty plaintext comes back from the token as nil.
               [] call.do = "DecryptInHardware" ->
                    IF ~fits THEN Refused("mismatch")
                    ELSE IF a.art.msg = "" THEN Granted(NoText, NoDigest, store)
                    ELSE Granted([Told(t.key, v) EXCEPT !.form = "plain"], NoDigest, store)

\* Calls that look at the key or change it; on a key that is off, some of
\* them may be refused.
Administer(call, t) ==
    LET v == Version(t)
        given == Granted(Told(t.key, v), NoDigest, store)
    IN  CASE call.do \in {"DescribeKey", "GetAttributes", "GetCryptoKey"} -> {given}
          [] call.do = "GetKey" -> {given} \cup (IF On(t, v) THEN {} ELSE {Refused("off")})
          [] call.do = "GetPublicKey" ->
               IF store[t.key].alg \in Asymmetric
               THEN {given} \cup (IF On(t, v) THEN {} ELSE {Refused("off")})
               ELSE {Refused("mismatch")}
          [] call.do = "RotateKey" ->
               LET n == Len(store[t.key].on) + 1
               IN  IF On(t, Current(t.key))
                   THEN {Granted([Told(t.key, v) EXCEPT !.ver = n], NoDigest, [WithVersion(t) EXCEPT ![t.key].prim = n])}
                   ELSE {Refused("off")}
          [] call.do = "CreateCryptoKeyVersion" ->
               {Granted([Told(t.key, v) EXCEPT !.ver = Len(store[t.key].on) + 1], NoDigest, WithVersion(t))}
          [] call.do = "UpdatePrimary" ->
               {Granted(t, NoDigest, [store EXCEPT ![t.key].prim = t.ver])}
          [] call.do \in {"DisableKey", "DisablePrevious", "DestroyObject"} ->
               {Granted(Told(t.key, v), NoDigest, TurnOff(t))}
               \cup (IF Backend = "pkcs11" /\ call.do # "DestroyObject" THEN {Refused("use")} ELSE {})

Computing == {"Encrypt", "Decrypt", "Sign", "Verify", "Mac", "Derive", "DecryptInHardware"}

Answers(call, j) ==
    LET t == IF call.do = "DisablePrevious" \/ j.reg = NoText THEN j.plan.ref ELSE j.reg
    IN  IF call.do = "CreateKey" THEN
               {Granted(Text("ref", call.kind, j.a.new, 1, call.size), NoDigest,
                        [store EXCEPT ![j.a.new] = NewKey(call.kind, call.size, call.bind, "none")])}
        ELSE IF call.do = "CreateReplacement" THEN
               {Granted(Text("ref", t.alg, j.a.new, 1, size), NoDigest,
                        [store EXCEPT ![j.a.new] = NewKey(t.alg, size, Token!replacementUses(t.alg), t.key)])
                  : size \in Token!generateReplacement(t)}
        ELSE IF ~Known(t) THEN {Refused("mismatch")}
        ELSE IF call.do \in Computing THEN {Compute(call, t, j.a)}
        ELSE Administer(call, t)

----------------------------------------------------------------------------
\* The end of a method: with a result, or with an error (the empty string, for a hash).
Returned(j, r, why) ==
    [j EXCEPT !.st = "returned", !.todo = <<>>, !.why = why,
              !.ok = r.step = "give" \/ j.op \in Hashes,
              !.val = IF r.step = "give" THEN r.val ELSE IF j.op \in Hashes THEN NoDigest ELSE @]

\* What a method makes of the last answer.
Conclude(j, val) ==
    CASE j.plan.then = "data" -> Give(DataOf(j.reg))
      [] j.plan.then \in {"value", "digest"} -> Give(val)
      [] j.plan.then = "none" -> Give(NoDigest)
      [] j.plan.then = "local" -> Method(j.op, [j.a EXCEPT !.key = DataOf(j.reg).pub])
      [] j.plan.then = "open" ->
           IF j.reg.form = "plain" THEN Give(Message(j.a.art.msg)) ELSE Mem!OpenWithSecret(j.reg, j.a.art)

Step(r) == IF r.step = "ask" THEN Fail ELSE r

\* The calls left once those that the answers so far rule out are dropped; no
\* plan has more than two of these in a row.
Skip(todo, reg) ==
    IF todo # <<>> /\ reg # NoText /\ reg.alg \notin Head(todo).for THEN Tail(todo) ELSE todo
Remaining(todo, reg) == Skip(Skip(todo, reg), reg)

\* After an answer: the method goes on, ends, or takes the other way.
After(j, ans) ==
    LET call == Head(j.todo)
        told == [j EXCEPT !.reg = IF ans.ok THEN ans.reg ELSE [@ EXCEPT !.form = "bare"]]
        rest == IF call.do = "DisablePrevious" THEN <<>> ELSE Remaining(Tail(j.todo), told.reg)
        kept == IF call.do = "DisablePrevious" /\ ans.ok THEN j ELSE told
    IN  IF ~ans.ok /\ call.else = "fail" THEN Returned(j, Fail, ans.why)
        ELSE IF ~ans.ok /\ call.else # "skip" THEN [j EXCEPT !.todo = <<Plain(call.else, call.kind)>>]
        ELSE IF ans.ok /\ ans.reg # NoText /\ ans.reg.alg \notin call.need THEN Returned(j, Fail, "mismatch")
        ELSE IF rest # <<>> THEN [kept EXCEPT !.todo = rest]
        ELSE Returned(kept, Step(Conclude(kept, ans.val)), IF Step(Conclude(kept, ans.val)) = Fail THEN "mismatch" ELSE "none")

\* One call to the service.  It may fail, and fail having had its effect.
ServiceCall(c) ==
    /\ job[c].st = "calling"
    /\ \E ans \in Answers(Head(job[c].todo), job[c]) :
          \/ /\ store' = ans.st
             /\ job' = [job EXCEPT ![c] = After(job[c], ans)]
             /\ acked' = IF /\ job[c].op = "RotateKey" /\ job'[c].st = "returned" /\ job'[c].ok
                            /\ \A d \in Clients \ {c} : job[d].op # "RotateKey"
                         THEN [acked EXCEPT ![job'[c].reg.key] = job'[c].reg.ver]
                         ELSE acked
          \/ /\ \/ store' = store
                \/ store' = ans.st
             /\ job' = [job EXCEPT ![c] = After(job[c], Refused("fault"))]
             /\ UNCHANGED acked
    /\ UNCHANGED <<env, held, arts, calls, retired>>

----------------------------------------------------------------------------
Fresh == {n \in Names : store[n] = NoKey /\ \A d \in held : d.ref.key # n}
               \ {job[c].a.new : c \in {d \in Clients : job[d].st # "idle"}}

\* The arguments of a call: the key data used, an earlier artefact to be
\* opened or checked, the text for the key, and the rest.
Arguments(op) ==
    [with : held \cup {NoData},
     from : IF op \in {p[2] : p \in Pairs[Family]} /\ op # "HMAC" THEN arts ELSE {NoArt},
     uid  : IF Family = "aes" /\ op \notin Manages THEN {"", "x"} ELSE {""},
     add  : IF op \in {"EncryptAES", "DecryptAES"} THEN {"nil", "x"} ELSE {"nil"},
     size : IF Family # "mac" /\ op = Generator[Family] THEN Sizes[Family] ELSE {0},
     msg  : IF op = "ECDH_Encode" THEN {"", "m"} ELSE {"m"}]

\* Without key data, the key is left out.
KeyTexts(op, d) ==
    IF op \in Manages THEN {d.id, d.ref}
    ELSE IF op \in TakesPublic /\ Backend # "local" THEN {d.ref, d.pub}
    ELSE IF op \in TakesPublic THEN {d.pub}
    ELSE {d.ref}

Ops(c) ==
    {"RotateKey"} \cup
    (IF c \in Managers THEN Manages
     ELSE {p[1] : p \in Pairs[Family]} \cup {p[2] : p \in Pairs[Family]}
          \cup (IF Family = "mac" THEN Hashes ELSE {Generator[Family]}))

\* A method is called: it ends at once, or has calls to make.
Call_(c) ==
    /\ job[c].st = "idle"
    /\ calls < MaxCalls
    /\ \E op \in Ops(c) : \E x \in Arguments(op) : \E key \in KeyTexts(op, x.with) :
         LET named == IF key = NoText THEN env.configured.key ELSE key.key
             makes == op = "RotateKey" \/ (Family # "mac" /\ op = Generator[Family])
             a == [key |-> key, art |-> x.from.art, msg |-> IF x.from = NoArt THEN x.msg ELSE x.from.art.msg,
                   add |-> x.add, uid |-> x.uid, size |-> x.size,
                   new |-> IF makes THEN CHOOSE n \in Fresh : TRUE ELSE "none",
                   configured |-> env.configured, vault |-> env.vault, opts |-> env.opts]
             j == [Idle EXCEPT !.op = op, !.with = x.with, !.from = x.from, !.a = a,
                               !.floor = IF named \in AllNames THEN acked[named] ELSE 0]
         IN  /\ makes => Fresh # {}
             /\ \E r \in (IF Method(op, a).step = "give" THEN Mem!runWithContext("ends", Method(op, a)) ELSE {Method(op, a)}) :
                   job' = [job EXCEPT ![c] =
                             IF r.step = "ask"
                             THEN [j EXCEPT !.st = "calling", !.plan = r, !.todo = r.calls]
                             ELSE Returned(j, r, IF r = Fail /\ Method(op, a) = Fail THEN "mismatch"
                                                 ELSE IF r = Fail THEN "fault" ELSE "none")]
             /\ retired' = IF op = "DeactivateKey" THEN retired \cup {named} ELSE retired
    /\ calls' = calls + 1
    /\ UNCHANGED <<env, store, held, arts, acked>>

\* The caller takes what a method returned.
Take(c) ==
    /\ job[c].st = "returned"
    /\ job' = [job EXCEPT ![c] = Idle]
    /\ LET j == job[c]
       IN  /\ held' = IF j.ok /\ DOMAIN j.val = DOMAIN NoData THEN held \cup {j.val} ELSE held
           /\ arts' = IF j.ok /\ DOMAIN j.val = DOMAIN NoArt.art
                      THEN arts \cup {[art |-> j.val, with |-> j.with, uid |-> j.a.uid, add |-> j.a.add]}
                      ELSE arts
    /\ UNCHANGED <<env, store, calls, retired, acked>>

----------------------------------------------------------------------------
NoOptions == [rotateDisablesPrev |-> FALSE, deactivateDestroys |-> FALSE, allowSecretExtraction |-> TRUE, hkdf |-> FALSE]
Options(b, f) ==
    {o \in [rotateDisablesPrev : BOOLEAN, deactivateDestroys : BOOLEAN, allowSecretExtraction : BOOLEAN, hkdf : BOOLEAN] :
        /\ b # "pkcs11" => o = NoOptions
        /\ o.rotateDisablesPrev = o.deactivateDestroys
        /\ f # "ecdh" => o.allowSecretExtraction /\ ~o.hkdf
        /\ f = "ecdh" => o.hkdf \/ ~o.rotateDisablesPrev}

\* The text that configures the operator's key: it names a version where the
\* backend's references do.
ConfiguredText(b, f) ==
    Text("ref", f, Configured, IF b = "aws" \/ (b = "gcp" /\ f = "aes") THEN 0 ELSE 1,
         IF b = "gcp" /\ f = "ecdh" THEN 768 ELSE CHOOSE s \in Sizes[f] : s # Key128Bits)

Init ==
    /\ \E i \in Instances : \E o \in Options(i[1], i[2]) : \E configured \in BOOLEAN :
         /\ configured => i[1] # "local"
         /\ i[1] = "gcp" => configured
         /\ env = [backend |-> i[1], family |-> i[2], opts |-> o, vault |-> TRUE,
                   configured |-> IF configured THEN ConfiguredText(i[1], i[2]) ELSE NoText]
    /\ store = [n \in AllNames |->
                  IF n = Configured /\ env.configured # NoText
                  THEN NewKey(Family, env.configured.size, OperatorUses[Family], "none") ELSE NoKey]
    /\ held = IF env.configured = NoText THEN {} ELSE {DataOf([env.configured EXCEPT !.ver = 1])}
    /\ arts = {}
    /\ job = [c \in Clients |-> Idle]
    /\ calls = 0
    /\ retired = {}
    /\ acked = [n \in AllNames |-> 0]

Next == \E c \in Clients : Call_(c) \/ ServiceCall(c) \/ Take(c)

Spec == Init /\ [][Next]_vars
----------------------------------------------------------------------------
KindOf == [DecryptAES |-> "aes", RSA_OAEP_Decode |-> "oaep", ECDH_Decode |-> "ecdh", VerifyEd25519 |-> "ed25519",
           VerifyRSAPSS |-> "pss", Verify_RSA_PKCS1v15_SHA256 |-> "pkcs1v15"]

\* A call that has opened or checked, or failed to, an artefact of the right kind.
Opening(j) == j.st = "returned" /\ j.op \in DOMAIN KindOf /\ j.from.art.kind = KindOf[j.op]

\* The token returns an empty plaintext as nil, which ECDH_Decode takes for
\* "not decrypted in the token".
EmptyInHardware(j) == j.op = "ECDH_Decode" /\ j.a.opts.hkdf /\ j.from.art.msg = ""

\* A token that cannot derive with HKDF, and a policy that forbids to read the secret.
NoWayToDerive(j) == j.op = "ECDH_Decode" /\ ~j.a.opts.hkdf /\ ~j.a.opts.allowSecretExtraction

\* Key data read from a token may lack the public half.  A method that takes
\* one is then called without a key, and falls back on the configured key.
NoPublicHalf(j) == j.op \in {"RSA_OAEP_Decode", "ECDH_Decode"} /\ j.with # NoData /\ j.with.pub = NoText

\* What a key sealed or signed, the same key data opens or checks, with the
\* same identifier and additional data: the call can only fail for a fault, a
\* version turned off, or a use that the key was not made for.
RoundTrip ==
    \A c \in Clients :
      LET j == job[c]
      IN  /\ Opening(j)
          /\ j.from.with = j.with
          /\ j.a.key = NoText => j.with = NoData
          /\ j.from.uid = j.a.uid /\ j.from.add = j.a.add
          /\ ~EmptyInHardware(j) /\ ~NoWayToDerive(j) /\ ~NoPublicHalf(j)
          => IF j.ok THEN j.val \in {Message(j.from.art.msg), Verified} ELSE j.why \in {"fault", "off", "use"}

\* A ciphertext opens only with the additional data it was made with, and for
\* the backends that authenticate the caller's identifier, only with both; Azure
\* and Google join the two, so there it is said of calls that agree on whether
\* there is an identifier.
AuthBinding ==
    \A c \in Clients :
      LET j == job[c]
          sameUID == j.from.uid = j.a.uid
      IN  Opening(j) /\ j.op = "DecryptAES" /\ j.ok =>
            /\ (Backend \in {"local", "pkcs11"} \/ sameUID) => j.from.add = j.a.add
            /\ Backend = "aws" => sameUID

\* Whatever was sealed or signed with a key of the service stays within reach
\* of it: its version is on unless the key was deactivated, or was replaced by a
\* rotation that was told to disable it and whose replacement is there.
PastKept ==
    \A e \in arts :
      LET k == e.art.key
      IN  k \in AllNames /\ store[k] # NoKey =>
            \/ store[k].on[e.art.ver]
            \/ k \in retired
            \/ env.opts.rotateDisablesPrev /\ \E n \in Names : store[n].after = k

\* Once a rotation that no other one overlapped is acknowledged, encryption
\* under the key's name uses the version it made, or a later one.
RotationTakesEffect ==
    \A c \in Clients :
      LET j == job[c]
      IN  Backend \in {"aws", "gcp"} /\ j.st = "returned" /\ j.op = "EncryptAES" /\ j.ok => j.val.ver >= j.floor

\* A deactivation that reports success has turned off the version that its
\* reference names (for AWS, the key).
Deactivated ==
    \A c \in Clients :
      LET j == job[c]
          t == IF j.a.key = NoText THEN env.configured ELSE j.a.key
      IN  j.st = "returned" /\ j.op = "DeactivateKey" /\ j.ok /\ t.form = "ref" =>
            IF t.ver # 0 THEN ~store[t.key].on[t.ver] ELSE ~store[t.key].on[j.reg.ver]

\* Azure Key Vault has no Ed25519 keys, and an RSA pair made by LocalKeys is
\* encoded in PKCS#1, which no parser of utilities.go accepts.
NotServed == {<<"azure", "ed25519">>, <<"local", "rsa">>}

\* Key data serves the methods of the backend that made it, as the README uses
\* it (KeyRef for the private half, PublicKey for the public one): sealing or
\* signing with it fails only for a fault, a version turned off, or a use that
\* the key was not made for.
GeneratedKeyServes ==
    \A c \in Clients :
      LET j == job[c]
      IN  /\ j.st = "returned"
          /\ j.op \in {p[1] : p \in Pairs[Family]}
          /\ j.a.key # NoText
          /\ <<Backend, Family>> \notin NotServed
          => j.ok \/ j.why \in {"fault", "off", "use"}

\* With Google only AES keys have a primary version; the identifier of another
\* key stands for its first version, whichever its caller was given.
StandsForFirst == Backend = "gcp" /\ Family # "aes"

\* What a call that looked a key up, or turned it off, dealt with: the key that
\* the text names, and the version; without one, the version of the last
\* rotation acknowledged before the call, or a later one.
Meant(t, reg, floor) ==
    /\ reg.key = t.key
    /\ IF t.ver # 0 THEN reg.ver = t.ver ELSE StandsForFirst \/ reg.ver >= floor

\* A text that the methods which manage keys take.
ManagedBy(j) ==
    /\ j.op \in {"GetKey", "DeactivateKey"}
    /\ j.a.key # NoText
    /\ Backend # "local"
    /\ Backend = "pkcs11" => j.a.key.form # "id"

\* Key data also serves the management of its key, by identifier as by
\* reference, and while others rotate the key: the call is about the key and the
\* version meant, and fails only for a fault or a version turned off.  The token
\* knows no key by its identifier alone; local keys are not managed.
ManagedById ==
    \A c \in Clients :
      LET j == job[c]
      IN  j.st = "returned" /\ ManagedBy(j) =>
            IF j.ok THEN Meant(j.a.key, j.reg, j.floor) ELSE j.why \in {"fault", "off", "use"}

----------------------------------------------------------------------------
(* What the documentation says, and the code does not do. *)

\* encrypt/README.md: "KeyRepository manages provider keys by id", and its
\* example ends with DeactivateKey.  When that succeeds for the identifier of
\* key data of the key's latest version, that version is off.
DeactivatedById ==
    \A c \in Clients :
      LET j == job[c]
          d == j.with
      IN  /\ j.st = "returned" /\ j.op = "DeactivateKey" /\ j.ok
          /\ j.a.key.form = "id" /\ d.ref.ver = Len(store[d.ref.key].on)
          => ~store[d.ref.key].on[d.ref.ver]
=============================================================================
