--------------------------- MODULE SecurityProofs ---------------------------
(***************************************************************************)
(* Proofs about Security for any configuration files, pairs of keys,       *)
(* settings of the cookie service, claims and options, and any number of   *)
(* tokens, middlewares and changes of the configuration: what a middleware *)
(* lets through is authentic, what the program issues it accepts, and the  *)
(* keys set last are the ones in use.                                      *)
(***************************************************************************)
EXTENDS Security, TLAPS

\* The store holds values that the program can be configured with.
IsStore(l) ==
    /\ l = [override |-> l.override, file |-> l.file, default |-> l.default]
    /\ IsLayer(l.override) /\ IsLayer(l.file) /\ IsLayer(l.default)

\* A service holds keys that its algorithm can use.
Algs == {"HS256", "RS256", "PS256", "EdDSA"}
Usable(s) ==
    /\ s.alg = "HS256" => s.priv = s.pub
    /\ s.alg \in {"RS256", "PS256"} => ParsePKCS8(s.priv, "rsa") /\ ParsePKIX(s.pub, "rsa")
    /\ s.alg = "EdDSA" => ParsePKCS8(s.priv, "ed25519") /\ ParsePKIX(s.pub, "ed25519")

IsService(s) ==
    /\ s = [alg |-> s.alg, priv |-> s.priv, pub |-> s.pub, leeway |-> s.leeway, role |-> s.role]
    /\ s.alg \in Algs /\ IsText(s.priv) /\ IsText(s.pub) /\ s.leeway \in Nat
    /\ Usable(s)

Kind == [HS256 |-> "hs256", RS256 |-> "pkcs1v15", PS256 |-> "pss", EdDSA |-> "ed25519"]

\* A token is what a service made of claims.
Minted(t) ==
    /\ IsService(t.by)
    /\ t.claims \in Claims
    /\ t.alg = t.by.alg
    /\ t.signature = Sealed(Kind[t.by.alg], t.by.priv, <<t.alg, t.claims>>, <<>>)

\* A middleware that checks has a service, with both halves of one key if the
\* configuration had them when it was built.
IsMiddleware(m) ==
    /\ m = [st |-> m.st, svc |-> m.svc, opt |-> m.opt, paired |-> m.paired]
    /\ m.st \in {"none", "open", "unbuilt", "refusing", "checking"}
    /\ m.st = "checking" => IsService(m.svc) /\ (m.paired => m.svc.priv.key = m.svc.pub.key)

SoundState ==
    /\ IsStore(layers)
    /\ DOMAIN mw = Middlewares /\ mw = [w \in Middlewares |-> mw[w]]
    /\ \A w \in Middlewares : IsMiddleware(mw[w])
    /\ \A t \in tokens : Minted(t)
    /\ now \in Nat

\* The pair that was set last is what the generic settings say.
InForce ==
    lastSet # "none" =>
        /\ IsValue(GetString(layers, "priv")) /\ GetString(layers, "priv").t.key = lastSet
        /\ IsValue(GetString(layers, "pub")) /\ GetString(layers, "pub").t.key = lastSet

IInv == SoundState /\ InForce /\ Authentic /\ OwnTokensServe

-----------------------------------------------------------------------------
(* The store. *)

\* A name that is nowhere set reads as a value.
LEMMA NothingIsValue == IsValue(Nothing)
BY DEF IsValue, IsText, Nothing, Value, NoText, Text

\* Whatever is read is a value.
LEMMA Reads ==
    ASSUME NEW l, IsStore(l), NEW key PROVE IsValue(GetString(l, key))
BY NothingIsValue DEF IsStore, IsLayer, GetString

\* A layer with one more name is a layer.
LEMMA WithLayer ==
    ASSUME NEW f, IsLayer(f), NEW key, NEW v, IsValue(v) PROVE IsLayer(With(f, key, v))
BY DEF IsLayer, With

\* A value that is set is what the store gives back, and no other changes.
LEMMA SetValue ==
    ASSUME NEW l, IsStore(l), NEW key, NEW v, IsValue(v)
    PROVE  /\ IsStore(Set(l, key, v))
           /\ GetString(Set(l, key, v), key) = v
           /\ \A k : k # key => GetString(Set(l, key, v), k) = GetString(l, k)
<1>. DEFINE o == With(l.override, key, v)
<1>1. Set(l, key, v) = [override |-> o, file |-> l.file, default |-> l.default]
  BY DEF Set, IsStore
<1>2. IsLayer(o)
  BY WithLayer DEF IsStore
<1>3. DOMAIN o = DOMAIN l.override \cup {key} /\ o[key] = v /\ \A k \in DOMAIN l.override : k # key => o[k] = l.override[k]
  BY DEF With
<1>. HIDE DEF o
<1>4. IsStore(Set(l, key, v))
  BY <1>1, <1>2 DEF IsStore
<1>5. GetString(Set(l, key, v), key) = v
  BY <1>1, <1>3 DEF GetString
<1>6. ASSUME NEW k, k # key PROVE GetString(Set(l, key, v), k) = GetString(l, k)
  BY <1>1, <1>3, <1>6 DEF GetString
<1>. QED
  BY <1>4, <1>5, <1>6

\* A default is what the store gives back for a name that was not set.
LEMMA SetDefaultValue ==
    ASSUME NEW l, IsStore(l), NEW key, NEW v, IsValue(v), ~IsSet(l, key)
    PROVE  /\ IsStore(SetDefault(l, key, v))
           /\ GetString(SetDefault(l, key, v), key) = v
           /\ \A k : k # key => GetString(SetDefault(l, key, v), k) = GetString(l, k)
<1>. DEFINE o == With(l.default, key, v)
<1>1. SetDefault(l, key, v) = [override |-> l.override, file |-> l.file, default |-> o]
  BY DEF SetDefault, IsStore
<1>2. IsLayer(o)
  BY WithLayer DEF IsStore
<1>3. DOMAIN o = DOMAIN l.default \cup {key} /\ o[key] = v /\ \A k \in DOMAIN l.default : k # key => o[k] = l.default[k]
  BY DEF With
<1>. HIDE DEF o
<1>4. IsStore(SetDefault(l, key, v))
  BY <1>1, <1>2 DEF IsStore
<1>5. GetString(SetDefault(l, key, v), key) = v
  BY <1>1, <1>3 DEF GetString, IsSet
<1>6. ASSUME NEW k, k # key PROVE GetString(SetDefault(l, key, v), k) = GetString(l, k)
  BY <1>1, <1>3, <1>6 DEF GetString
<1>. QED
  BY <1>4, <1>5, <1>6

\* setJWTConfigValue: whichever way it takes, the value is then read.
LEMMA ConfigValueSet ==
    ASSUME NEW l, IsStore(l), NEW key, NEW v, IsValue(v)
    PROVE  /\ IsStore(setJWTConfigValue(l, key, v))
           /\ GetString(setJWTConfigValue(l, key, v), key) = v
           /\ \A k : k # key => GetString(setJWTConfigValue(l, key, v), k) = GetString(l, k)
BY SetValue, SetDefaultValue DEF setJWTConfigValue

\* SetJWTAsymmetricKeys: what is read afterwards is the pair, whether anything
\* was set before or not.
LEMMA PairSet ==
    ASSUME NEW l, IsStore(l), NEW pair \in KeyPairs
    PROVE  /\ IsStore(SetJWTAsymmetricKeys(l, pair))
           /\ GetString(SetJWTAsymmetricKeys(l, pair), "priv") = pair.priv
           /\ GetString(SetJWTAsymmetricKeys(l, pair), "pub") = pair.pub
<1>. DEFINE k == setJWTConfigValue(l, "priv", pair.priv)
<1>1. IsValue(pair.priv) /\ IsValue(pair.pub)
  BY SecurityAssumption
<1>2. IsStore(k) /\ GetString(k, "priv") = pair.priv
  BY <1>1, ConfigValueSet
<1>. HIDE DEF k
<1>3. /\ IsStore(setJWTConfigValue(k, "pub", pair.pub))
      /\ GetString(setJWTConfigValue(k, "pub", pair.pub), "pub") = pair.pub
      /\ GetString(setJWTConfigValue(k, "pub", pair.pub), "priv") = GetString(k, "priv")
  BY <1>1, <1>2, ConfigValueSet
<1>. QED
  BY <1>2, <1>3 DEF k, SetJWTAsymmetricKeys

\* The settings of the cookie service replace what was set, and nothing else.
LEMMA JWTConfigApplied ==
    ASSUME NEW l, IsStore(l), NEW input \in Inputs
    PROVE  /\ IsStore(applyJWTConfig(l, input))
           /\ \A k : k \notin DOMAIN input => GetString(applyJWTConfig(l, input), k) = GetString(l, k)
<1>. DEFINE o == [k \in DOMAIN l.override \cup DOMAIN input |-> IF k \in DOMAIN input THEN input[k] ELSE l.override[k]]
<1>1. applyJWTConfig(l, input) = [override |-> o, file |-> l.file, default |-> l.default]
  BY DEF applyJWTConfig, IsStore
<1>2. IsLayer(o)
  BY SecurityAssumption DEF IsStore, IsLayer
<1>3. /\ DOMAIN o = DOMAIN l.override \cup DOMAIN input
      /\ \A k \in DOMAIN l.override : k \notin DOMAIN input => o[k] = l.override[k]
  OBVIOUS
<1>. HIDE DEF o
<1>4. IsStore(applyJWTConfig(l, input))
  BY <1>1, <1>2 DEF IsStore
<1>5. ASSUME NEW k, k \notin DOMAIN input PROVE GetString(applyJWTConfig(l, input), k) = GetString(l, k)
  BY <1>1, <1>3, <1>5 DEF GetString
<1>. QED
  BY <1>4, <1>5

-----------------------------------------------------------------------------
(* Services. *)

\* The value that a half of a pair is taken from.
LEMMA AsymmetricReads ==
    ASSUME NEW l, IsStore(l), NEW primary, NEW legacy
    PROVE  IsValue(asymmetricConfigValue(l, primary, legacy))
BY Reads DEF asymmetricConfigValue

\* A half that parses is the text that was configured.
LEMMA Parsed ==
    ASSUME NEW v, IsValue(v), NEW half \in {"rsaPriv", "rsaPub", "edPriv", "edPub"}, parseFromConfig(v, half) # NoText
    PROVE  /\ parseFromConfig(v, half) = v.t /\ IsText(v.t)
           /\ half = "rsaPriv" => ParsePKCS8(v.t, "rsa")
           /\ half = "rsaPub" => ParsePKIX(v.t, "rsa")
           /\ half = "edPriv" => ParsePKCS8(v.t, "ed25519")
           /\ half = "edPub" => ParsePKIX(v.t, "ed25519")
BY DEF parseFromConfig, ParseRSAPrivateKeyFromBase64, ParseRSAPublicKeyFromBase64,
       ParseEd25519PrivateKeyFromBase64, ParseEd25519PublicKeyFromBase64, IsValue

\* When the settings of either name hold one pair, so do the halves taken.
LEMMA PairedHalves ==
    ASSUME NEW l, IsStore(l), Paired(l), NEW h \in {<<"rsaPriv", "rsaPub">>, <<"edPriv", "edPub">>}
    PROVE  asymmetricConfigValue(l, "priv", h[1]).t.key = asymmetricConfigValue(l, "pub", h[2]).t.key
<1>1. GetString(l, "priv").t.key = GetString(l, "pub").t.key /\ GetString(l, h[1]).t.key = GetString(l, h[2]).t.key
  BY DEF Paired
<1>2. \A k : GetString(l, k) = Nothing <=> GetString(l, k).t.key = "none"
  BY Reads DEF IsValue, Nothing, Value, NoText, Text
<1>. QED
  BY <1>1, <1>2 DEF asymmetricConfigValue

\* What the constructors of the three asymmetric services have in common.
LEMMA AsymmetricService ==
    ASSUME NEW l, IsStore(l), NEW alg \in {"RS256", "PS256", "EdDSA"},
           NEW h \in {<<"rsaPriv", "rsaPub">>, <<"edPriv", "edPub">>},
           alg = "EdDSA" <=> h = <<"edPriv", "edPub">>,
           NEW r, r = NewService(alg, parseFromConfig(asymmetricConfigValue(l, "priv", h[1]), h[1]),
                                      parseFromConfig(asymmetricConfigValue(l, "pub", h[2]), h[2])),
           r # Fail
    PROVE  /\ r = Give(r.val) /\ IsService(r.val)
           /\ r.val.alg = alg /\ r.val.role = "any" /\ r.val.leeway = 0
           /\ r.val.priv = asymmetricConfigValue(l, "priv", h[1]).t
           /\ r.val.pub = asymmetricConfigValue(l, "pub", h[2]).t
           /\ Paired(l) => r.val.priv.key = r.val.pub.key
<1>. DEFINE v == asymmetricConfigValue(l, "priv", h[1])
            u == asymmetricConfigValue(l, "pub", h[2])
<1>1. IsValue(v) /\ IsValue(u)
  BY AsymmetricReads
<1>2. Paired(l) => v.t.key = u.t.key
  BY PairedHalves
<1>. HIDE DEF v, u
<1>3. /\ parseFromConfig(v, h[1]) # NoText /\ parseFromConfig(u, h[2]) # NoText
      /\ r = Give([alg |-> alg, priv |-> parseFromConfig(v, h[1]), pub |-> parseFromConfig(u, h[2]), leeway |-> 0, role |-> "any"])
  BY DEF NewService, v, u
<1>4. h[1] \in {"rsaPriv", "edPriv"} /\ h[2] \in {"rsaPub", "edPub"}
  OBVIOUS
<1>5. parseFromConfig(v, h[1]) = v.t /\ parseFromConfig(u, h[2]) = u.t /\ IsText(v.t) /\ IsText(u.t)
  BY <1>1, <1>3, <1>4, Parsed
<1>6. r.val = [alg |-> alg, priv |-> v.t, pub |-> u.t, leeway |-> 0, role |-> "any"]
  BY <1>3, <1>5 DEF Give
<1>7. CASE h = <<"rsaPriv", "rsaPub">>
  <2>1. ParsePKCS8(v.t, "rsa") /\ ParsePKIX(u.t, "rsa") /\ alg \in {"RS256", "PS256"}
    BY <1>1, <1>3, <1>7, Parsed
  <2>2. Usable(r.val)
    BY <1>6, <2>1 DEF Usable
  <2>. QED
    BY <1>2, <1>3, <1>5, <1>6, <2>2 DEF IsService, Algs, Give, v, u
<1>8. CASE h = <<"edPriv", "edPub">>
  <2>1. ParsePKCS8(v.t, "ed25519") /\ ParsePKIX(u.t, "ed25519") /\ alg = "EdDSA"
    BY <1>1, <1>3, <1>8, Parsed
  <2>2. Usable(r.val)
    BY <1>6, <2>1 DEF Usable
  <2>. QED
    BY <1>2, <1>3, <1>5, <1>6, <2>2 DEF IsService, Algs, Give, v, u
<1>. QED
  BY <1>7, <1>8

\* The constructor of the symmetric service.
LEMMA HMACService ==
    ASSUME NEW l, IsStore(l), NEW r, r = NewHMACService(l), r # Fail
    PROVE  /\ r = Give(r.val) /\ IsService(r.val) /\ r.val.role = "any" /\ r.val.leeway = 0
           /\ r.val.alg = "HS256" /\ r.val.priv.key = r.val.pub.key
<1>1. IsText(GetString(l, "secret").t)
  BY Reads DEF IsValue
<1>2. /\ r.val = [alg |-> "HS256", priv |-> GetString(l, "secret").t, pub |-> GetString(l, "secret").t, leeway |-> 0, role |-> "any"]
      /\ r = Give(r.val)
  BY DEF NewHMACService, NewService, Give
<1>3. Usable(r.val)
  BY <1>2 DEF Usable
<1>. QED
  BY <1>1, <1>2, <1>3 DEF IsService, Algs

\* NewConfiguredService: a service that can be built is usable, its halves
\* belong together if the settings do, and an asymmetric one has the generic
\* settings' halves when these are there.
LEMMA ConfiguredService ==
    ASSUME NEW l, IsStore(l), NEW r, r = NewConfiguredService(l), r # Fail
    PROVE  /\ r = Give(r.val) /\ IsService(r.val) /\ r.val.role = "any" /\ r.val.leeway = 0
           /\ Paired(l) => r.val.priv.key = r.val.pub.key
           /\ r.val.alg # "HS256" /\ GetString(l, "priv") # Nothing => r.val.priv = GetString(l, "priv").t
           /\ r.val.alg # "HS256" /\ GetString(l, "pub") # Nothing => r.val.pub = GetString(l, "pub").t
<1>. DEFINE P(alg, h) == NewService(alg, parseFromConfig(asymmetricConfigValue(l, "priv", h[1]), h[1]),
                                         parseFromConfig(asymmetricConfigValue(l, "pub", h[2]), h[2]))
<1>1. \/ r = NewHMACService(l)
      \/ r = P("RS256", <<"rsaPriv", "rsaPub">>)
      \/ r = P("PS256", <<"rsaPriv", "rsaPub">>)
      \/ r = P("EdDSA", <<"edPriv", "edPub">>)
  BY DEF NewConfiguredService, NewRSAService, NewRSAPSSService, NewEd25519Service
<1>2. CASE r = NewHMACService(l)
  BY <1>2, HMACService
<1>3. ASSUME NEW alg \in {"RS256", "PS256", "EdDSA"}, NEW h \in {<<"rsaPriv", "rsaPub">>, <<"edPriv", "edPub">>},
             alg = "EdDSA" <=> h = <<"edPriv", "edPub">>, r = P(alg, h)
      PROVE  /\ r = Give(r.val) /\ IsService(r.val) /\ r.val.role = "any" /\ r.val.leeway = 0
             /\ Paired(l) => r.val.priv.key = r.val.pub.key
             /\ r.val.alg # "HS256" /\ GetString(l, "priv") # Nothing => r.val.priv = GetString(l, "priv").t
             /\ r.val.alg # "HS256" /\ GetString(l, "pub") # Nothing => r.val.pub = GetString(l, "pub").t
  BY <1>3, AsymmetricService DEF asymmetricConfigValue
<1>. HIDE DEF P
<1>4. <<"rsaPriv", "rsaPub">> # <<"edPriv", "edPub">>
  OBVIOUS
<1>. QED
  BY <1>1, <1>2, <1>3, <1>4

-----------------------------------------------------------------------------
(* Tokens. *)

\* Each of the four strategies signs with the private half.
LEMMA Signing ==
    ASSUME NEW s, IsService(s), NEW m
    PROVE  signStrategy(s, m) = Give(Sealed(Kind[s.alg], s.priv, m, <<>>))
<1>. USE DEF IsService, Usable, Algs, signStrategy, Kind, Give, Sealed
<1>1. CASE s.alg = "HS256"
  BY <1>1 DEF hmacSHA256
<1>2. CASE s.alg = "RS256"
  BY <1>2 DEF rsaSHA256Sign, Local!Sign_RSA_PKCS1v15_SHA256, Local!SignWith, Local!Give, Local!Sealed,
              Local!ParseRSAPrivateKeyFromBase64, Local!ParsePKCS8, ParsePKCS8
<1>3. CASE s.alg = "PS256"
  BY <1>3 DEF rsaPSSSHA256Sign, Local!SignRSAPSS, Local!SignWith, Local!Give, Local!Sealed,
              Local!ParseRSAPrivateKeyFromBase64, Local!ParsePKCS8, ParsePKCS8
<1>4. CASE s.alg = "EdDSA"
  BY <1>4 DEF ed25519Sign, Local!SignEd25519, Local!SignWith, Local!Give, Local!Sealed,
              Local!ParseEd25519PrivateKeyFromBase64, Local!ParsePKCS8, ParsePKCS8
<1>. QED
  BY <1>1, <1>2, <1>3, <1>4

\* ... and takes exactly what the counterpart of its public half signed, of the
\* same message and with the same algorithm.
LEMMA Verifying ==
    ASSUME NEW s, IsService(s), NEW m, NEW alg \in Algs, NEW priv, IsText(priv), NEW signed
    PROVE  verifyStrategy(s, m, Sealed(Kind[alg], priv, signed, <<>>))
             <=> alg = s.alg /\ s.pub.key = priv.key /\ m = signed
<1>. DEFINE art == Sealed(Kind[alg], priv, signed, <<>>)
<1>1. art.kind = Kind[alg] /\ art.key = priv.key /\ art.ver = 0 /\ art.msg = signed
  BY DEF Sealed, IsText, Text
<1>2. art = [kind |-> Kind[alg], key |-> priv.key, ver |-> 0, size |-> 0, msg |-> signed, bind |-> <<>>]
  BY DEF Sealed, IsText, Text
<1>3. s.pub.ver = 0 /\ s.pub.size = 0
  BY DEF IsService, IsText, Text
<1>4. \A a, b \in Algs : Kind[a] = Kind[b] <=> a = b
  BY DEF Kind, Algs
<1>. HIDE DEF art
<1>5. CASE s.alg = "HS256"
  <2>1. verifyStrategy(s, m, art) <=> Give(Sealed("hs256", s.pub, m, <<>>)) = Give(art)
    BY <1>5 DEF verifyStrategy, hmacSHA256Verify, hmacSHA256
  <2>2. Sealed("hs256", s.pub, m, <<>>) = [kind |-> "hs256", key |-> s.pub.key, ver |-> 0, size |-> 0, msg |-> m, bind |-> <<>>]
    BY <1>3 DEF Sealed
  <2>3. verifyStrategy(s, m, art) <=> Sealed("hs256", s.pub, m, <<>>) = art
    BY <2>1 DEF Give
  <2>4. Kind[alg] = "hs256" <=> alg = s.alg
    BY <1>5 DEF Kind, Algs
  <2>. QED
    BY <1>2, <2>2, <2>3, <2>4 DEF art
<1>6. ASSUME s.alg # "HS256"
      PROVE  verifyStrategy(s, m, art) <=> art.kind = Kind[s.alg] /\ art.key = s.pub.key /\ art.ver = s.pub.ver /\ art.msg = m
  <2>1. s.alg \in {"RS256", "PS256", "EdDSA"}
    BY <1>6 DEF IsService, Algs
  <2>. USE DEF IsService, Usable, verifyStrategy, Kind, Local!VerifyWith, Local!Give, Local!Fail, Local!Opens,
               Local!Verified, ParsePKIX, Local!ParsePKIX, Fail
  <2>2. CASE s.alg = "RS256"
    BY <2>2 DEF rsaSHA256Verify, Local!Verify_RSA_PKCS1v15_SHA256, Local!ParseRSAPublicKeyFromBase64
  <2>3. CASE s.alg = "PS256"
    BY <2>3 DEF rsaPSSSHA256Verify, Local!VerifyRSAPSS, Local!ParseRSAPublicKeyFromBase64
  <2>4. CASE s.alg = "EdDSA"
    BY <2>4 DEF ed25519Verify, Local!VerifyEd25519, Local!ParseEd25519PublicKeyFromBase64
  <2>. QED
    BY <2>1, <2>2, <2>3, <2>4
<1>7. CASE s.alg # "HS256"
  BY <1>1, <1>3, <1>4, <1>6, <1>7 DEF IsService, art
<1>. QED
  BY <1>5, <1>7 DEF art

\* The time claims: nothing but the arithmetic of the window.
LEMMA Window ==
    ASSUME now \in Nat, NEW s, IsService(s), NEW claims \in Claims
    PROVE  validateRegisteredTimeClaims(s, claims) <=> InWindow(claims, s.leeway)
BY SecurityAssumption DEF validateRegisteredTimeClaims, InWindow, numericDateClaim, Absent, Invalid, IsService

\* What Decode accepts of a token that a service made.
LEMMA Decoding ==
    ASSUME now \in Nat, NEW s, IsService(s), NEW t, Minted(t), NEW ctx, NEW any
    PROVE  Decode(s, t, ctx, any) <=>
             /\ ctx = "live"
             /\ t.by.alg = s.alg /\ t.by.priv.key = s.pub.key
             /\ InWindow(t.claims, s.leeway)
             /\ t.claims.object \/ any
             /\ RoleAccepted(s, t.claims)
<1>1. t.by.alg \in Algs /\ IsText(t.by.priv) /\ t.claims \in Claims /\ t.alg = t.by.alg
  BY DEF Minted, IsService
<1>2. t.signature = Sealed(Kind[t.by.alg], t.by.priv, <<t.alg, t.claims>>, <<>>)
  BY DEF Minted
<1>3. verifyStrategy(s, <<t.alg, t.claims>>, t.signature) <=> t.by.alg = s.alg /\ s.pub.key = t.by.priv.key
  <2>. DEFINE m == <<t.alg, t.claims>>
  <2>. HIDE DEF m
  <2>1. verifyStrategy(s, m, Sealed(Kind[t.by.alg], t.by.priv, m, <<>>)) <=> t.by.alg = s.alg /\ s.pub.key = t.by.priv.key
    <3>. DEFINE a == t.by.alg
                k == t.by.priv
    <3>1. a \in Algs /\ IsText(k)
      BY <1>1
    <3>. HIDE DEF a, k
    <3>2. verifyStrategy(s, m, Sealed(Kind[a], k, m, <<>>)) <=> a = s.alg /\ s.pub.key = k.key /\ m = m
      BY <3>1, Verifying, Zenon
    <3>. QED
      BY <3>2 DEF a, k
  <2>. QED
    BY <1>2, <2>1 DEF m
<1>4. validateRegisteredTimeClaims(s, t.claims) <=> InWindow(t.claims, s.leeway)
  BY <1>1, Window
<1>5. parseAndValidate(s, t) <=> t.by.alg = s.alg /\ t.by.priv.key = s.pub.key /\ InWindow(t.claims, s.leeway)
  BY <1>1, <1>3, <1>4 DEF parseAndValidate
<1>. QED
  BY <1>5 DEF Decode, RoleAccepted

\* A token that is made is minted.
LEMMA Minting ==
    ASSUME NEW s, IsService(s), NEW claims \in Claims PROVE Minted(CreateWithContext(s, claims))
<1>1. signStrategy(s, <<s.alg, claims>>).val = Sealed(Kind[s.alg], s.priv, <<s.alg, claims>>, <<>>)
  BY Signing DEF Give
<1>. DEFINE t == CreateWithContext(s, claims)
<1>2. /\ t.by = s /\ t.alg = s.alg /\ t.claims = claims
      /\ t.signature = Sealed(Kind[s.alg], s.priv, <<s.alg, claims>>, <<>>)
  BY <1>1 DEF CreateWithContext
<1>. HIDE DEF t
<1>3. Minted(t)
  BY <1>2 DEF Minted
<1>. QED
  BY <1>3 DEF t

-----------------------------------------------------------------------------
(* Middlewares and requests. *)

\* The options change nothing of a service but its role and leeway.
LEMMA Optioned ==
    ASSUME NEW s, IsService(s), NEW role, NEW leeway
    PROVE  [s EXCEPT !.role = role, !.leeway = leeway] =
             [alg |-> s.alg, priv |-> s.priv, pub |-> s.pub, leeway |-> leeway, role |-> role]
<1>1. PICK a, p, q, x, y : s = [alg |-> a, priv |-> p, pub |-> q, leeway |-> x, role |-> y]
  BY DEF IsService
<1>2. [s EXCEPT !.role = role, !.leeway = leeway] = [s EXCEPT !["role"] = role, !["leeway"] = leeway]
  OBVIOUS
<1>3. [s EXCEPT !["role"] = role, !["leeway"] = leeway] = [alg |-> a, priv |-> p, pub |-> q, leeway |-> leeway, role |-> role]
  BY <1>1
<1>. QED
  BY <1>1, <1>2, <1>3

\* A middleware that is built to check has a sound service or refuses.
LEMMA CheckingSound ==
    ASSUME NEW l, IsStore(l), NEW r, r = Fail \/ r = NewConfiguredService(l), NEW o
    PROVE  /\ IsMiddleware(Checking(r, o, l))
           /\ Checking(r, o, l).opt = o
<1>1. CASE r = Fail
  BY <1>1 DEF Checking, Middleware, IsMiddleware
<1>2. CASE r # Fail
  <2>1. r = Give(r.val) /\ IsService(r.val) /\ (Paired(l) => r.val.priv.key = r.val.pub.key)
    BY <1>2, ConfiguredService
  <2>. DEFINE s == [r.val EXCEPT !.role = o.role, !.leeway = r.val.leeway]
  <2>2. s = [alg |-> r.val.alg, priv |-> r.val.priv, pub |-> r.val.pub, leeway |-> r.val.leeway, role |-> o.role]
    BY <2>1, Optioned
  <2>3. IsService(s) /\ (Paired(l) => s.priv.key = s.pub.key)
    BY <2>1, <2>2 DEF IsService, Usable
  <2>4. Checking(r, o, l) = [st |-> "checking", svc |-> s, opt |-> o, paired |-> Paired(l)]
    BY <1>2 DEF Checking, WithOptions, Give, Middleware
  <2>. HIDE DEF s
  <2>. QED
    BY <2>3, <2>4 DEF IsMiddleware
<1>. QED
  BY <1>1, <1>2

\* ... also when it is the caller's own, with a leeway.
LEMMA OwnServiceSound ==
    ASSUME NEW l, IsStore(l), NewConfiguredService(l) # Fail, NEW o
    PROVE  IsMiddleware(Checking(WithOptions(NewConfiguredService(l), "any", 1), o, l))
<1>. DEFINE r == NewConfiguredService(l)
<1>1. r = Give(r.val) /\ IsService(r.val) /\ (Paired(l) => r.val.priv.key = r.val.pub.key) /\ r # Fail
  BY ConfiguredService
<1>. HIDE DEF r
<1>. DEFINE s == [r.val EXCEPT !.role = "any", !.leeway = 1]
            u == [s EXCEPT !.role = o.role, !.leeway = s.leeway]
<1>2. s = [alg |-> r.val.alg, priv |-> r.val.priv, pub |-> r.val.pub, leeway |-> 1, role |-> "any"]
  BY <1>1, Optioned
<1>3. u = [alg |-> r.val.alg, priv |-> r.val.priv, pub |-> r.val.pub, leeway |-> 1, role |-> o.role]
  <2>. HIDE DEF s
  <2>1. IsService(s)
    BY <1>1, <1>2 DEF IsService, Usable
  <2>2. u = [alg |-> s.alg, priv |-> s.priv, pub |-> s.pub, leeway |-> s.leeway, role |-> o.role]
    BY <2>1, Optioned
  <2>. QED
    BY <1>2, <2>2
<1>4. IsService(u) /\ (Paired(l) => u.priv.key = u.pub.key)
  BY <1>1, <1>3 DEF IsService, Usable
<1>5. WithOptions(r, "any", 1) = Give(s) /\ Give(s) # Fail /\ Give(s).val = s
  BY <1>1 DEF WithOptions, Give, Fail
<1>6. Checking(Give(s), o, l) = [st |-> "checking", svc |-> u, opt |-> o, paired |-> Paired(l)]
  BY <1>5 DEF Checking, WithOptions, Give, Middleware
<1>. HIDE DEF u
<1>7. IsMiddleware(Checking(Give(s), o, l))
  BY <1>4, <1>6 DEF IsMiddleware
<1>. QED
  BY <1>5, <1>7 DEF r

\* The invariant's parts that no request can disturb.
LEMMA NoRequestHarmless ==
    ASSUME last' = NoRequest PROVE Authentic' /\ OwnTokensServe'
BY DEF NoRequest, Authentic, OwnTokensServe

\* The settings of the two generic keys decide what lastSet says.
LEMMA InForceKept ==
    ASSUME InForce, lastSet' = lastSet,
           GetString(layers', "priv") = GetString(layers, "priv"), GetString(layers', "pub") = GetString(layers, "pub")
    PROVE  InForce'
BY DEF InForce

\* One more middleware.
LEMMA BuiltSound ==
    ASSUME SoundState, NEW w \in Middlewares, NEW m, IsMiddleware(m), mw' = [mw EXCEPT ![w] = m],
           IsStore(layers'), tokens' = tokens, now' = now
    PROVE  SoundState'
BY DEF SoundState

\* A request: the service that checks it decides as Decoding says.
LEMMA ServeSound ==
    ASSUME SoundState, NEW w \in Middlewares, NEW t, t = NoToken \/ Minted(t), NEW ctx \in {"live", "done"},
           Serve(w, t, ctx)
    PROVE  SoundState' /\ Authentic' /\ OwnTokensServe'
<1>. DEFINE off == IF w = "grpc" THEN ~Enabled(layers) ELSE mw[w].st = "open"
            m == IF w = "grpc" /\ ~off THEN resolveService(mw[w]) ELSE mw[w]
            there == IF w = "cookie" THEN TokenFromRequest(t) ELSE extractBearerToken(t)
            runs == off \/ authenticate(m, there, t, ctx)
<1>1. /\ mw' = [mw EXCEPT ![w] = m]
      /\ last' = [mw |-> w, token |-> t, ran |-> runs, off |-> off, live |-> ctx = "live", there |-> there]
      /\ UNCHANGED <<layers, tokens, now, writes, lastSet>>
  BY DEF Serve
<1>2. IsMiddleware(m)
  <2>1. IsMiddleware(mw[w]) /\ IsStore(layers)
    BY DEF SoundState
  <2>2. IsMiddleware(resolveService(mw[w]))
    BY <2>1, CheckingSound DEF resolveService
  <2>. QED
    BY <2>1, <2>2
<1>3. there <=> t # NoToken
  BY DEF TokenFromRequest, extractBearerToken
<1>. HIDE DEF off, m, there
<1>4. SoundState'
  BY <1>1, <1>2, BuiltSound DEF SoundState
<1>5. mw'[w] = m /\ now' = now
  BY <1>1 DEF SoundState
<1>6. /\ last'.mw = w /\ last'.token = t /\ last'.ran = runs /\ last'.off = off
      /\ last'.live = (ctx = "live") /\ last'.there = there
  BY <1>1
<1>7. ASSUME there, m.st = "checking"
      PROVE  authenticate(m, there, t, ctx) <=>
               /\ ctx = "live"
               /\ t.by.alg = m.svc.alg /\ t.by.priv.key = m.svc.pub.key
               /\ InWindow(t.claims, m.svc.leeway)
               /\ t.claims.object \/ m.opt.anyClaims
               /\ RoleAccepted(m.svc, t.claims)
  <2>1. IsService(m.svc) /\ Minted(t) /\ now \in Nat
    BY <1>2, <1>3, <1>7 DEF IsMiddleware, SoundState
  <2>. QED
    BY <1>7, <2>1, Decoding DEF authenticate
<1>8. authenticate(m, there, t, ctx) => there /\ m.st = "checking"
  BY DEF authenticate
<1>9. \A claims, leeway : InWindow(claims, leeway)' <=> InWindow(claims, leeway)
  BY <1>5 DEF InWindow
<1>10. Authentic'
  BY <1>5, <1>6, <1>7, <1>8, <1>9 DEF Authentic, RoleAccepted
<1>11. OwnTokensServe'
  <2>1. m.st = "checking" /\ m.paired => m.svc.priv.key = m.svc.pub.key
    BY <1>2 DEF IsMiddleware
  <2>. QED
    BY <1>5, <1>6, <1>7, <1>9, <2>1 DEF OwnTokensServe, RoleAccepted
<1>. QED
  BY <1>4, <1>10, <1>11

\* The inductive invariant holds at first.
LEMMA InitIInv == Init => IInv
<1>. SUFFICES ASSUME Init PROVE IInv
  OBVIOUS
<1>1. IsStore(layers)
  BY DEF Init, IsStore, IsLayer
<1>2. IsMiddleware(NotBuilt)
  BY DEF NotBuilt, Middleware, IsMiddleware
<1>3. SoundState
  BY <1>1, <1>2 DEF Init, SoundState
<1>4. InForce /\ Authentic /\ OwnTokensServe
  BY DEF Init, InForce, Authentic, OwnTokensServe, NoRequest
<1>. QED
  BY <1>3, <1>4 DEF IInv

\* Every step keeps the inductive invariant.
LEMMA StepIInv == IInv /\ [Next]_vars => IInv'
<1>. SUFFICES ASSUME IInv, [Next]_vars PROVE IInv'
  OBVIOUS
<1>0. SoundState /\ InForce /\ IsStore(layers)
  BY DEF IInv, SoundState
<1>1. ASSUME NEW f \in Files, LoadFile(f) PROVE IInv'
  <2>1. layers' = [override |-> layers.override, file |-> f, default |-> layers.default]
    BY <1>0, <1>1 DEF LoadFile, Configure, IsStore
  <2>2. IsStore(layers')
    BY <1>0, <2>1, SecurityAssumption DEF IsStore
  <2>3. SoundState' /\ InForce' /\ last' = NoRequest
    BY <1>0, <1>1, <2>2 DEF LoadFile, Configure, SoundState, InForce
  <2>. QED
    BY <2>3, NoRequestHarmless DEF IInv
<1>2. ASSUME NEW pair \in KeyPairs, SetKeys(pair) PROVE IInv'
  <2>1. layers' = SetJWTAsymmetricKeys(layers, pair) /\ lastSet' = pair.name /\ last' = NoRequest
    BY <1>2 DEF SetKeys, Configure
  <2>2. IsStore(layers') /\ GetString(layers', "priv") = pair.priv /\ GetString(layers', "pub") = pair.pub
    BY <1>0, <2>1, PairSet
  <2>3. InForce'
    BY <2>1, <2>2, SecurityAssumption DEF InForce
  <2>4. SoundState'
    BY <1>0, <1>2, <2>2 DEF SetKeys, Configure, SoundState
  <2>. QED
    BY <2>1, <2>3, <2>4, NoRequestHarmless DEF IInv
<1>3. ASSUME NEW v \in {"true", "false"}, Switch(v) PROVE IInv'
  <2>1. layers' = Set(layers, "enable", Word(v)) /\ lastSet' = lastSet /\ last' = NoRequest
    BY <1>3 DEF Switch, Configure
  <2>2. IsValue(Word(v))
    BY DEF Word, Value, Text, IsValue, IsText
  <2>3. /\ IsStore(layers')
        /\ GetString(layers', "priv") = GetString(layers, "priv") /\ GetString(layers', "pub") = GetString(layers, "pub")
    BY <1>0, <2>1, <2>2, SetValue
  <2>4. InForce'
    BY <1>0, <2>1, <2>3, InForceKept
  <2>5. SoundState'
    BY <1>0, <1>3, <2>3 DEF Switch, Configure, SoundState
  <2>. QED
    BY <2>1, <2>4, <2>5, NoRequestHarmless DEF IInv
<1>4. ASSUME NEW claims \in Claims, MakeToken(claims) PROVE IInv'
  <2>1. IsService(NewConfiguredService(layers).val)
    BY <1>0, <1>4, ConfiguredService DEF MakeToken
  <2>2. Minted(CreateWithContext(NewConfiguredService(layers).val, claims))
    BY <2>1, Minting
  <2>3. SoundState'
    BY <1>0, <1>4, <2>2 DEF MakeToken, SoundState
  <2>4. InForce' /\ last' = NoRequest
    BY <1>0, <1>4 DEF MakeToken, InForce
  <2>. QED
    BY <2>3, <2>4, NoRequestHarmless DEF IInv
<1>5. ASSUME NEW o \in Options, RequireJWT(o) \/ WithJWTService(o) \/ newJWTGRPCConfig(o) PROVE IInv'
  <2>1. \E w \in Middlewares : \E m : IsMiddleware(m) /\ mw' = [mw EXCEPT ![w] = m]
    <3>1. CASE RequireJWT(o)
      <4>1. IsMiddleware(Checking(NewConfiguredService(layers), o, layers))
        BY <1>0, CheckingSound
      <4>2. IsMiddleware(Middleware("open", NoService, o))
        BY DEF Middleware, IsMiddleware
      <4>. QED
        BY <3>1, <4>1, <4>2 DEF RequireJWT, Middlewares
    <3>2. CASE WithJWTService(o)
      BY <1>0, <3>2, OwnServiceSound DEF WithJWTService, Middlewares
    <3>3. CASE newJWTGRPCConfig(o)
      <4>1. IsMiddleware(Middleware("unbuilt", NoService, o))
        BY DEF Middleware, IsMiddleware
      <4>. QED
        BY <3>3, <4>1 DEF newJWTGRPCConfig, Middlewares
    <3>. QED
      BY <1>5, <3>1, <3>2, <3>3
  <2>2. UNCHANGED <<layers, tokens, now, writes, lastSet>> /\ last' = NoRequest
    BY <1>5 DEF RequireJWT, WithJWTService, newJWTGRPCConfig
  <2>3. SoundState'
    BY <1>0, <2>1, <2>2, BuiltSound
  <2>4. InForce'
    BY <1>0, <2>2 DEF InForce
  <2>. QED
    BY <2>2, <2>3, <2>4, NoRequestHarmless DEF IInv
<1>6. ASSUME NEW o \in Options, NEW input \in Inputs, RequireJWTCookie(o, input) PROVE IInv'
  <2>. DEFINE l == applyJWTConfig(layers, input)
  <2>1. IsStore(l) /\ \A k : k \notin DOMAIN input => GetString(l, k) = GetString(layers, k)
    BY <1>0, JWTConfigApplied
  <2>2. last' = NoRequest /\ UNCHANGED <<tokens, now, writes>>
    BY <1>6 DEF RequireJWTCookie
  <2>3. CASE Enabled(layers)
    <3>1. layers' = l /\ mw' = [mw EXCEPT !["cookie"] = Checking(NewCookieService(layers, input), o, l)]
      BY <1>6, <2>3 DEF RequireJWTCookie
    <3>2. IsMiddleware(Checking(NewCookieService(layers, input), o, l))
      BY <2>1, CheckingSound DEF NewCookieService
    <3>3. SoundState'
      BY <1>0, <2>1, <2>2, <3>1, <3>2, BuiltSound DEF Middlewares
    <3>4. InForce'
      <4>1. CASE DOMAIN input \cap {"priv", "pub"} = {}
        <5>1. lastSet' = lastSet
          BY <1>6, <2>3, <4>1 DEF RequireJWTCookie
        <5>2. GetString(layers', "priv") = GetString(layers, "priv") /\ GetString(layers', "pub") = GetString(layers, "pub")
          BY <2>1, <3>1, <4>1
        <5>. QED
          BY <1>0, <5>1, <5>2, InForceKept
      <4>2. CASE DOMAIN input \cap {"priv", "pub"} # {}
        BY <1>6, <2>3, <4>2 DEF RequireJWTCookie, InForce
      <4>. QED
        BY <4>1, <4>2
    <3>. QED
      BY <2>2, <3>3, <3>4, NoRequestHarmless DEF IInv
  <2>4. CASE ~Enabled(layers)
    <3>1. mw' = [mw EXCEPT !["cookie"] = Middleware("open", NoService, o)] /\ UNCHANGED <<layers, lastSet>>
      BY <1>6, <2>4 DEF RequireJWTCookie
    <3>2. IsMiddleware(Middleware("open", NoService, o))
      BY DEF Middleware, IsMiddleware
    <3>3. SoundState'
      BY <1>0, <2>2, <3>1, <3>2, BuiltSound DEF Middlewares
    <3>4. InForce'
      BY <1>0, <3>1 DEF InForce
    <3>. QED
      BY <2>2, <3>3, <3>4, NoRequestHarmless DEF IInv
  <2>. QED
    BY <2>3, <2>4
<1>7. ASSUME NEW w \in Middlewares, NEW t \in tokens \cup {NoToken}, NEW ctx \in {"live", "done"}, Serve(w, t, ctx) PROVE IInv'
  <2>1. t = NoToken \/ Minted(t)
    BY <1>0 DEF SoundState
  <2>2. SoundState' /\ Authentic' /\ OwnTokensServe'
    BY <1>0, <1>7, <2>1, ServeSound
  <2>3. InForce'
    BY <1>0, <1>7 DEF Serve, InForce
  <2>. QED
    BY <2>2, <2>3 DEF IInv
<1>8. ASSUME Tick PROVE IInv'
  BY <1>0, <1>8, NoRequestHarmless DEF Tick, SoundState, InForce, IInv
<1>9. ASSUME UNCHANGED vars PROVE IInv'
  BY <1>9 DEF vars, IInv, SoundState, InForce, Authentic, OwnTokensServe, InWindow, RoleAccepted
<1>. QED
  BY <1>1, <1>2, <1>3, <1>4, <1>5, <1>6, <1>7, <1>8, <1>9 DEF Next

\* The inductive invariant always holds.
LEMMA Invariance == Spec => []IInv
BY InitIInv, StepIInv, PTL DEF Spec

-----------------------------------------------------------------------------
(* authenticate and parseAndValidate: whatever became of the configuration, a
   handler only runs behind a middleware for a token signed with the key that
   the middleware checks with, of the same algorithm, in its window and with the
   role that the validator asks for. *)
THEOREM OnlyAuthenticRequestsRun == Spec => []Authentic
BY Invariance, PTL DEF IInv

(* NewConfiguredService with the four strategies: a token of the program's own
   keys is accepted by every middleware built from a configuration whose halves
   belong together. *)
THEOREM IssuedTokensAreAccepted == Spec => []OwnTokensServe
BY Invariance, PTL DEF IInv

(* SetJWTAsymmetricKeys: its pair is in force at once, whatever was set by the
   program, a file or the cookie service before, until other code sets keys. *)
THEOREM PairSetLastIsUsed == Spec => []LastKeysWin
<1>1. ASSUME IInv PROVE LastKeysWin
  <2>. DEFINE r == NewConfiguredService(layers)
  <2>. SUFFICES ASSUME lastSet # "none", r # Fail, r.val.alg # "HS256"
                PROVE  r.val.priv.key = lastSet /\ r.val.pub.key = lastSet
    BY DEF LastKeysWin
  <2>1. /\ GetString(layers, "priv").t.key = lastSet /\ GetString(layers, "pub").t.key = lastSet
        /\ IsStore(layers)
    BY <1>1 DEF IInv, InForce, SoundState
  <2>2. GetString(layers, "priv") # Nothing /\ GetString(layers, "pub") # Nothing
    BY <2>1 DEF Nothing, Value, NoText, Text
  <2>3. r.val.priv = GetString(layers, "priv").t /\ r.val.pub = GetString(layers, "pub").t
    BY <2>1, <2>2, ConfiguredService
  <2>. QED
    BY <2>1, <2>3
<1>. QED
  BY <1>1, Invariance, PTL
=============================================================================
