------------------------------ MODULE Security ------------------------------
(***************************************************************************)
(* The JWT service (security/auth/jwt), the cookie service on top of it    *)
(* (security/auth/cookies) and the middlewares and interceptors that use   *)
(* them (security/middlewares).  All of them are configured through one    *)
(* global store of layered settings (viper), which the program, a file and *)
(* the cookie service write at any time, while middlewares are built from  *)
(* it, at once or at the first request, and tokens are made and checked.   *)
(*                                                                         *)
(* A setting that names a key holds its text, or the path of a PEM file    *)
(* with that text (pem).  Strategies other than the four of the package    *)
(* are the caller's code and are left out.                                 *)
(***************************************************************************)
EXTENDS KeyMaterial, Integers, FiniteSets

CONSTANTS
    Files,     \* configuration files: partial functions from settings to values
    KeyPairs,  \* pairs given to SetJWTAsymmetricKeys
    Inputs,    \* the settings passed to the cookie service
    Claims,    \* claims: object, exp, nbf, role
    Options,   \* the options of a middleware: the role its validator wants, a claims factory
    MaxTime,   \* bound on the clock
    MaxTokens, \* bound on the tokens made
    MaxBuilt,  \* bound on the middlewares built
    MaxWrites  \* bound on the changes of the configuration

Local == INSTANCE LocalKeys

VARIABLES
    layers,    \* the store: what was Set, what a file holds, the defaults
    mw,        \* the middlewares
    tokens,    \* the tokens made
    now,       \* the clock
    last,      \* the last request and what became of it
    writes,    \* changes of the configuration so far
    lastSet    \* history: the pair of the last SetJWTAsymmetricKeys, until other code sets keys

vars == <<layers, mw, tokens, now, last, writes, lastSet>>

Middlewares == {"jwt", "cookie", "grpc"}
Settings    == {"enable", "alg", "secret", "priv", "pub", "rsaPriv", "rsaPub", "edPriv", "edPub"}
Absent      == -1      \* a claim that is not there
Invalid     == -2      \* a claim that is no number

Value(t, pem) == [t |-> t, pem |-> pem]
Word(w)       == Value(Text("word", w, w, 0, 0), FALSE)
Nothing       == Value(NoText, FALSE)

(* A text of the configuration names no version; only the empty one is about no
   key.  A pair has both halves of one key. *)
IsText(t)  == t = Text(t.form, t.alg, t.key, 0, 0)
IsValue(v) == v = Value(v.t, v.pem) /\ IsText(v.t) /\ (v.t.key = "none" => v = Nothing)
IsLayer(f) == \A k \in DOMAIN f : IsValue(f[k])

ASSUME SecurityAssumption ==
    /\ \A f \in Files \cup Inputs : IsLayer(f)
    /\ \A p \in KeyPairs : /\ IsValue(p.priv) /\ IsValue(p.pub)
                           /\ p.priv.t.key = p.name /\ p.pub.t.key = p.name /\ p.name # "none"
    /\ \A c \in Claims : c.object \in BOOLEAN /\ c.exp \in Int /\ c.nbf \in Int

\* The store: Set goes before a file, a file before a default.
IsSet(l, key) == key \in DOMAIN l.override \cup DOMAIN l.file \cup DOMAIN l.default
GetString(l, key) ==
    IF key \in DOMAIN l.override THEN l.override[key]
    ELSE IF key \in DOMAIN l.file THEN l.file[key]
    ELSE IF key \in DOMAIN l.default THEN l.default[key]
    ELSE Nothing
With(f, key, v) == [k \in DOMAIN f \cup {key} |-> IF k = key THEN v ELSE f[k]]
Set(l, key, v)        == [l EXCEPT !.override = With(@, key, v)]
SetDefault(l, key, v) == [l EXCEPT !.default = With(@, key, v)]

\* The algorithm of the configuration, whatever its case.
AlgorithmOf(l) == GetString(l, "alg").t.key
Enabled(l)     == IsSet(l, "enable") => GetString(l, "enable").t.key = "true"

----------------------------------------------------------------------------
(* jwt.go: configuration and construction *)

\* A bug: existing values stay in front of the new ones.
setJWTConfigDefault(l, key, v) == SetDefault(l, key, v)

setJWTConfigValue(l, key, v) == IF IsSet(l, key) THEN Set(l, key, v) ELSE SetDefault(l, key, v)

SetJWTAsymmetricKeys(l, pair) ==
    setJWTConfigValue(setJWTConfigValue(l, "priv", pair.priv), "pub", pair.pub)

\* The generic setting goes before the one of the algorithm, for each half alone.
asymmetricConfigValue(l, primaryKey, legacyKey) ==
    IF GetString(l, primaryKey) # Nothing THEN GetString(l, primaryKey) ELSE GetString(l, legacyKey)

\* A PEM file and a Base64 text are parsed alike; NoText is an error.
parseFromConfig(v, half) ==
    LET parses == CASE half = "rsaPriv" -> ParseRSAPrivateKeyFromBase64(v.t)
                    [] half = "rsaPub"  -> ParseRSAPublicKeyFromBase64(v.t)
                    [] half = "edPriv"  -> ParseEd25519PrivateKeyFromBase64(v.t)
                    [] half = "edPub"   -> ParseEd25519PublicKeyFromBase64(v.t)
    IN  IF parses THEN v.t ELSE NoText

NewService(alg, priv, pub) ==
    IF priv = NoText \/ pub = NoText THEN Fail
    ELSE Give([alg |-> alg, priv |-> priv, pub |-> pub, leeway |-> 0, role |-> "any"])

NewHMACService(l) == NewService("HS256", GetString(l, "secret").t, GetString(l, "secret").t)

\* A bug: the public half is taken from the legacy setting.
NewRSAServiceLegacyPublic(l) ==
    NewService("RS256", parseFromConfig(asymmetricConfigValue(l, "priv", "rsaPriv"), "rsaPriv"),
                        parseFromConfig(asymmetricConfigValue(l, "rsaPub", "pub"), "rsaPub"))

NewRSAService(l) ==
    NewService("RS256", parseFromConfig(asymmetricConfigValue(l, "priv", "rsaPriv"), "rsaPriv"),
                        parseFromConfig(asymmetricConfigValue(l, "pub", "rsaPub"), "rsaPub"))

NewRSAPSSService(l) ==
    NewService("PS256", parseFromConfig(asymmetricConfigValue(l, "priv", "rsaPriv"), "rsaPriv"),
                        parseFromConfig(asymmetricConfigValue(l, "pub", "rsaPub"), "rsaPub"))

NewEd25519Service(l) ==
    NewService("EdDSA", parseFromConfig(asymmetricConfigValue(l, "priv", "edPriv"), "edPriv"),
                        parseFromConfig(asymmetricConfigValue(l, "pub", "edPub"), "edPub"))

NewConfiguredService(l) ==
    CASE AlgorithmOf(l) = "HS256" -> NewHMACService(l)
      [] AlgorithmOf(l) = "RS256" -> NewRSAService(l)
      [] AlgorithmOf(l) = "PS256" -> NewRSAPSSService(l)
      [] AlgorithmOf(l) = "EDDSA" -> NewEd25519Service(l)
      [] OTHER -> Fail

\* The validator and the leeway that the options add.
WithOptions(r, role, leeway) ==
    IF r = Fail THEN Fail ELSE Give([r.val EXCEPT !.role = role, !.leeway = leeway])

----------------------------------------------------------------------------
(* jwt.go: tokens *)

(* The four strategies.  An HMAC is made again and compared; the other      *)
(* signatures are verified with the public half.                           *)
hmacSHA256(secret, m)          == Give(Sealed("hs256", secret, m, <<>>))
hmacSHA256Verify(s, m, art)    == hmacSHA256(s.pub, m) = Give(art)
rsaSHA256Sign(s, m)            == Local!Sign_RSA_PKCS1v15_SHA256([key |-> s.priv, msg |-> m])
rsaSHA256Verify(s, m, art)     == Local!Verify_RSA_PKCS1v15_SHA256([key |-> s.pub, msg |-> m, art |-> art]) # Fail
rsaPSSSHA256Sign(s, m)         == Local!SignRSAPSS([key |-> s.priv, msg |-> m])
rsaPSSSHA256Verify(s, m, art)  == Local!VerifyRSAPSS([key |-> s.pub, msg |-> m, art |-> art]) # Fail
ed25519Sign(s, m)              == Local!SignEd25519([key |-> s.priv, msg |-> m])
ed25519Verify(s, m, art)       == Local!VerifyEd25519([key |-> s.pub, msg |-> m, art |-> art]) # Fail

signStrategy(s, m) ==
    CASE s.alg = "HS256" -> hmacSHA256(s.priv, m)
      [] s.alg = "RS256" -> rsaSHA256Sign(s, m)
      [] s.alg = "PS256" -> rsaPSSSHA256Sign(s, m)
      [] s.alg = "EdDSA" -> ed25519Sign(s, m)

verifyStrategy(s, m, art) ==
    CASE s.alg = "HS256" -> hmacSHA256Verify(s, m, art)
      [] s.alg = "RS256" -> rsaSHA256Verify(s, m, art)
      [] s.alg = "PS256" -> rsaPSSSHA256Verify(s, m, art)
      [] s.alg = "EdDSA" -> ed25519Verify(s, m, art)

CreateWithContext(s, claims) ==
    [alg |-> s.alg, claims |-> claims, signature |-> signStrategy(s, <<s.alg, claims>>).val, by |-> s]

\* A claim that is there has to be a number.
numericDateClaim(v) == v # Invalid

\* A bug: a token is taken at the instant it expires.
validateTimeClaimsInclusive(s, claims) ==
    claims.object =>
        /\ numericDateClaim(claims.exp) /\ numericDateClaim(claims.nbf)
        /\ claims.exp # Absent => now <= claims.exp + s.leeway
        /\ claims.nbf # Absent => now + s.leeway >= claims.nbf

\* Only an object has registered claims.
validateRegisteredTimeClaims(s, claims) ==
    claims.object =>
        /\ numericDateClaim(claims.exp) /\ numericDateClaim(claims.nbf)
        /\ claims.exp # Absent => now < claims.exp + s.leeway
        /\ claims.nbf # Absent => now + s.leeway >= claims.nbf

parseAndValidate(s, t) ==
    /\ t.alg = s.alg
    /\ verifyStrategy(s, <<t.alg, t.claims>>, t.signature)
    /\ validateRegisteredTimeClaims(s, t.claims)

\* destination takes objects only, unless a claims factory makes another one;
\* a context that has ended makes the verification fail.
Decode(s, t, ctx, anyClaims) ==
    /\ ctx = "live"
    /\ parseAndValidate(s, t)
    /\ t.claims.object \/ anyClaims
    /\ s.role \in {"any", t.claims.role}

----------------------------------------------------------------------------
(* cookies.go and the middlewares *)

\* What the cookie service is given is Set for everybody.
applyJWTConfig(l, input) ==
    [l EXCEPT !.override = [k \in DOMAIN @ \cup DOMAIN input |-> IF k \in DOMAIN input THEN input[k] ELSE @[k]]]

NewCookieService(l, input) == NewConfiguredService(applyJWTConfig(l, input))

\* A middleware: not built, open (switched off), unbuilt (built at the first
\* request), refusing (its service could not be built), or checking.
NoService == [alg |-> "none", priv |-> NoText, pub |-> NoText, leeway |-> 0, role |-> "any"]
NoOption  == [role |-> "any", anyClaims |-> FALSE]
Middleware(st, s, o) == [st |-> st, svc |-> s, opt |-> o, paired |-> FALSE]
NotBuilt  == Middleware("none", NoService, NoOption)

\* History: the private and the public setting of every name hold one pair.
Paired(l) ==
    \A h \in {<<"priv", "pub">>, <<"rsaPriv", "rsaPub">>, <<"edPriv", "edPub">>} :
        GetString(l, h[1]).t.key = GetString(l, h[2]).t.key

Checking(r, o, l) ==
    IF r = Fail THEN Middleware("refusing", NoService, o)
    ELSE [Middleware("checking", WithOptions(r, o.role, r.val.leeway).val, o) EXCEPT !.paired = Paired(l)]

NoToken   == [alg |-> "none", claims |-> [object |-> FALSE, exp |-> Absent, nbf |-> Absent, role |-> "none"],
              signature |-> Sealed("none", NoText, "none", <<>>), by |-> NoService]
NoRequest == [mw |-> "none", token |-> NoToken, ran |-> FALSE, off |-> FALSE, live |-> FALSE, there |-> FALSE]

\* w is not built yet, and one more may be.
CanBuild(w) == mw[w].st = "none" /\ Cardinality({v \in Middlewares : mw[v].st # "none"}) < MaxBuilt

\* The switch is read when the middleware is built.
RequireJWT(o) ==
    /\ CanBuild("jwt")
    /\ mw' = [mw EXCEPT !["jwt"] = IF Enabled(layers) THEN Checking(NewConfiguredService(layers), o, layers)
                                   ELSE Middleware("open", NoService, o)]
    /\ last' = NoRequest
    /\ UNCHANGED <<layers, tokens, now, writes, lastSet>>

\* The caller's own service, here one with a leeway, goes before the
\* configuration; the validator is not added to it.
WithJWTService(o) ==
    /\ CanBuild("jwt")
    /\ Enabled(layers)
    /\ NewConfiguredService(layers) # Fail
    /\ mw' = [mw EXCEPT !["jwt"] =
                Checking(WithOptions(NewConfiguredService(layers), "any", 1), [o EXCEPT !.role = "any"], layers)]
    /\ last' = NoRequest
    /\ UNCHANGED <<layers, tokens, now, writes, lastSet>>

\* The cookie service changes the store before it builds its JWT service, and
\* also when that fails.
RequireJWTCookie(o, input) ==
    /\ CanBuild("cookie")
    /\ LET l == applyJWTConfig(layers, input)
       IN  IF Enabled(layers)
           THEN /\ layers' = l
                /\ mw' = [mw EXCEPT !["cookie"] = Checking(NewCookieService(layers, input), o, l)]
                /\ lastSet' = IF DOMAIN input \cap {"priv", "pub"} = {} THEN lastSet ELSE "none"
           ELSE /\ mw' = [mw EXCEPT !["cookie"] = Middleware("open", NoService, o)]
                /\ UNCHANGED <<layers, lastSet>>
    /\ last' = NoRequest
    /\ UNCHANGED <<tokens, now, writes>>

\* The interceptors build their service at the first request that needs it.
newJWTGRPCConfig(o) ==
    /\ CanBuild("grpc")
    /\ mw' = [mw EXCEPT !["grpc"] = Middleware("unbuilt", NoService, o)]
    /\ last' = NoRequest
    /\ UNCHANGED <<layers, tokens, now, writes, lastSet>>

resolveService(m) ==
    IF m.st = "unbuilt" THEN Checking(NewConfiguredService(layers), m.opt, layers) ELSE m

\* No header, another scheme or an empty token; no cookie or an empty one.
extractBearerToken(t) == t # NoToken
TokenFromRequest(t)   == t # NoToken

authenticate(m, there, t, ctx) ==
    m.st = "checking" /\ there /\ Decode(m.svc, t, ctx, m.opt.anyClaims)

\* The handler runs if the middleware lets the request through.  The switch is
\* read again for every call of gRPC.
Serve(w, t, ctx) ==
    /\ mw[w].st # "none"
    /\ LET off   == IF w = "grpc" THEN ~Enabled(layers) ELSE mw[w].st = "open"
           m     == IF w = "grpc" /\ ~off THEN resolveService(mw[w]) ELSE mw[w]
           there == IF w = "cookie" THEN TokenFromRequest(t) ELSE extractBearerToken(t)
           runs  == off \/ authenticate(m, there, t, ctx)
       IN  /\ mw' = [mw EXCEPT ![w] = m]
           /\ last' = [mw |-> w, token |-> t, ran |-> runs, off |-> off, live |-> ctx = "live", there |-> there]
    /\ UNCHANGED <<layers, tokens, now, writes, lastSet>>

----------------------------------------------------------------------------
(* The program and its surroundings *)

\* The program changes the configuration.
Configure(l, name) ==
    /\ writes < MaxWrites
    /\ layers' = l
    /\ lastSet' = name
    /\ writes' = writes + 1
    /\ last' = NoRequest
    /\ UNCHANGED <<mw, tokens, now>>

LoadFile(f)   == Configure([layers EXCEPT !.file = f], "none")
SetKeys(pair) == Configure(SetJWTAsymmetricKeys(layers, pair), pair.name)
Switch(v)     == Configure(Set(layers, "enable", Word(v)), lastSet)

\* A token is made with a service of the configuration as it is now.
MakeToken(claims) ==
    /\ Cardinality(tokens) < MaxTokens
    /\ NewConfiguredService(layers) # Fail
    /\ tokens' = tokens \cup {CreateWithContext(NewConfiguredService(layers).val, claims)}
    /\ last' = NoRequest
    /\ UNCHANGED <<layers, mw, now, writes, lastSet>>

Tick ==
    /\ now < MaxTime
    /\ now' = now + 1
    /\ last' = NoRequest
    /\ UNCHANGED <<layers, mw, tokens, writes, lastSet>>

Init ==
    /\ layers = [override |-> <<>>, file |-> <<>>, default |-> <<>>]
    /\ mw = [w \in Middlewares |-> NotBuilt]
    /\ tokens = {}
    /\ now = 0
    /\ last = NoRequest
    /\ writes = 0
    /\ lastSet = "none"

Next ==
    \/ \E f \in Files : LoadFile(f)
    \/ \E pair \in KeyPairs : SetKeys(pair)
    \/ \E v \in {"true", "false"} : Switch(v)
    \/ \E claims \in Claims : MakeToken(claims)
    \/ \E o \in Options : RequireJWT(o)
    \/ \E o \in Options : WithJWTService(o)
    \/ \E o \in Options, input \in Inputs : RequireJWTCookie(o, input)
    \/ \E o \in Options : newJWTGRPCConfig(o)
    \/ \E w \in Middlewares, t \in tokens, ctx \in {"live", "done"} : Serve(w, t, ctx)
    \/ \E w \in Middlewares : Serve(w, NoToken, "live")
    \/ Tick

Spec == Init /\ [][Next]_vars

----------------------------------------------------------------------------
(* Properties *)

\* The instant is within the token's window, give or take the leeway.
InWindow(claims, leeway) ==
    claims.object =>
        /\ claims.exp \notin {Invalid} /\ claims.nbf \notin {Invalid}
        /\ claims.exp # Absent => now - leeway < claims.exp
        /\ claims.nbf # Absent => now + leeway >= claims.nbf

RoleAccepted(s, claims) == s.role = "any" \/ s.role = claims.role

\* A handler behind a middleware only runs for a request with a token that was
\* signed with the key whose counterpart the middleware checks with, under the
\* same algorithm, between nbf and exp, and with the role the validator asks
\* for, unless JWT was switched off; whatever the configuration became since
\* the middleware or the token was made.
Authentic ==
    last.ran /\ ~last.off =>
        LET s == mw[last.mw].svc
            t == last.token
        IN  /\ last.there /\ last.live
            /\ t.by.alg = s.alg /\ t.by.priv.key = s.pub.key
            /\ InWindow(t.claims, s.leeway)
            /\ RoleAccepted(s, t.claims)

\* A token made from settings with which the middleware's service was built
\* too, whose two halves belong together, passes while it is valid: what the
\* program issues is what it accepts, for each of the four algorithms, for keys
\* set by the program, by a file under the generic or the older names or by the
\* cookie service, and for a service built at once or at the first request.
OwnTokensServe ==
    last.there /\ last.live =>
        LET m == mw[last.mw]
            t == last.token
        IN  /\ m.st = "checking" /\ m.paired
            /\ t.by.alg = m.svc.alg /\ t.by.priv.key = m.svc.priv.key
            /\ InWindow(t.claims, m.svc.leeway) /\ RoleAccepted(m.svc, t.claims)
            /\ t.claims.object \/ m.opt.anyClaims
            => last.ran

\* After SetJWTAsymmetricKeys, and until other code sets keys, a service of the
\* configured algorithm that can be built has both halves of that pair: the
\* defaults it may have used are not hidden by anything.
LastKeysWin ==
    LET r == NewConfiguredService(layers)
    IN  lastSet # "none" /\ r # Fail /\ r.val.alg # "HS256"
        => r.val.priv.key = lastSet /\ r.val.pub.key = lastSet
=============================================================================
