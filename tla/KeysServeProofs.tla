--------------------------- MODULE KeysServeProofs ---------------------------
(***************************************************************************)
(* What the keys of Keys are good for, for every set of clients and names, *)
(* every number of calls and every backend and family of keys: what was    *)
(* sealed with a key opens with it, a key that was made serves, and it is  *)
(* managed by what the caller was given.                                   *)
(*                                                                         *)
(* To the invariants of KeysProofs a third is added.  It ties every text   *)
(* that the service gives to the key it is of, every artefact to the key   *)
(* data it was made with, and every call under way to the plan that its    *)
(* arguments call for.                                                     *)
(***************************************************************************)
EXTENDS KeysProofs

Blameless == {"fault", "off", "use"}
Fair(j)   == j.ok \/ j.why \in Blameless

\* The methods that work with a key: what kind of artefact each makes or takes,
\* and the family of keys it is for.
Sealer   == [EncryptAES |-> "aes", RSA_OAEP_Encode |-> "oaep", ECDH_Encode |-> "ecdh", SignEd25519 |-> "ed25519",
             SignRSAPSS |-> "pss", Sign_RSA_PKCS1v15_SHA256 |-> "pkcs1v15"]
Sealers  == DOMAIN Sealer
Openers  == DOMAIN KindOf
Workers  == Sealers \cup Openers \cup {"HMAC"}
KindFor(op) == IF op = "HMAC" THEN "mac" ELSE IF op \in Sealers THEN Sealer[op] ELSE KindOf[op]
FamilyFor(op) ==
    CASE KindFor(op) \in {"oaep", "pss", "pkcs1v15"} -> "rsa"
      [] OTHER -> KindFor(op)

\* The keys of the service are of the family explored, with a size that its
\* methods know; what AWS does not rotate has one version.
SizeFits(s) == Family = "ecdh" => s \in (IF Backend = "gcp" THEN {768, 1024} ELSE Curves)
KeysFit(st) ==
    \A k \in AllNames : st[k] # NoKey =>
        /\ st[k].alg = Family /\ SizeFits(st[k].size)
        /\ Backend = "aws" /\ Family # "aes" => Len(st[k].on) = 1

\* A description that the service gives, and the key data that is made of one.
Describes(st, t) ==
    /\ t.key \in AllNames /\ st[t.key] # NoKey /\ t.ver \in DOMAIN st[t.key].on
    /\ t = Text("ref", Family, t.key, t.ver, st[t.key].size)
DataFits(st, d) ==
    \E t : Describes(st, t) /\ d \in {DataOf(t), DataOf([t EXCEPT !.form = "bare"])}

\* A reference to a key; some of them name a version.
NamesVersion == Backend \in {"azure", "pkcs11"} \/ (Backend = "gcp" /\ Family \in Asymmetric)
Refers(st, t) ==
    /\ t.form = "ref" /\ t.key \in AllNames /\ st[t.key] # NoKey
    /\ NamesVersion => t.ver \in DOMAIN st[t.key].on

\* The reference that goes with key data, or with none, and the version that it
\* stands for where keys keep to one.
Source(with) == IF with = NoData THEN env.configured ELSE with.ref
Fixed(s)     == IF NamesVersion THEN s.ver ELSE 1

\* Made with key data that lacks the public half, which its method needs.
Halved(kind, with) == kind \in {"oaep", "ecdh"} /\ with # NoData /\ with.pub = NoText
ArtFits(st, art, with) ==
    art.kind # "mac" /\ ~Halved(art.kind, with) =>
        /\ Refers(st, Source(with)) /\ art.key = Source(with).key /\ art.size = st[art.key].size
        /\ ~Versioned => art.ver = Fixed(Source(with))
        /\ art.kind = "oaep" => art.bind = <<>>
        /\ Backend = "azure" => art.kind # "ed25519"

\* What a call was made with.
Had(st, j) ==
    /\ j.with = NoData \/ DataFits(st, j.with)
    /\ j.a.key \in KeyTexts(j.op, j.with)
    /\ j.from = NoArt \/ ArtFits(st, j.from.art, j.from.with)
    /\ j.from # NoArt => j.a.msg = j.from.art.msg
    /\ j.op \in Workers => FamilyFor(j.op) = Family

\* The plan that a method makes of a reference.
Bare(s) == IF Backend = "gcp" THEN [s EXCEPT !.ver = 0] ELSE s
Served  == Backend \in {"aws", "azure"}
Plan(op, a) ==
    LET s == Raw(a)
    IN  CASE op = "EncryptAES" -> Ask(Bare(s), <<Call("Encrypt", "aes", Bind(a.uid, a.add))>>, "value")
          [] op = "DecryptAES" -> Ask(Bare(s), <<Call("Decrypt", "aes", Bind(a.uid, a.add))>>, "value")
          [] op = "RSA_OAEP_Encode" ->
               IF Served THEN Ask(s, <<Plain("Encrypt", "oaep")>>, "value") ELSE Ask(s, <<PublicKey>>, "local")
          [] op = "RSA_OAEP_Decode" -> Ask(s, <<Plain("Decrypt", "oaep")>>, "value")
          [] op = "ECDH_Encode" ->
               Ask(s, <<IF Backend = "azure" THEN Needs(Lookup("GetKey"), {"ecdh"})
                        ELSE IF Backend = "gcp" THEN Needs(PublicKey, {"ecdh"}) ELSE PublicKey>>, "local")
          [] op = "ECDH_Decode" ->
               Ask(s, IF Backend = "pkcs11" THEN Token!ecdhCalls(a.opts) ELSE <<Plain("Derive", "ecdh")>>, "open")
          [] op = "HMAC" -> Ask(s, <<Plain("Mac", "mac")>>, "digest")
          [] op \in {"SignEd25519", "SignRSAPSS", "Sign_RSA_PKCS1v15_SHA256"} ->
               Ask(s, <<Plain("Sign", KindFor(op))>>, "value")
          [] op \in {"VerifyEd25519", "VerifyRSAPSS", "Verify_RSA_PKCS1v15_SHA256"} ->
               IF Served THEN Ask(s, <<Plain("Verify", KindFor(op))>>, "value") ELSE Ask(s, <<PublicKey>>, "local")
\* Which arguments a method takes to the service.
Able(op, a) ==
    /\ Backend = "azure" =>
          op \notin {"SignEd25519", "VerifyEd25519"} /\ (op = "DecryptAES" => a.art.kind = "aes")
    /\ Backend = "gcp" /\ op \notin {"EncryptAES", "DecryptAES"} => Raw(a).ver # 0
    /\ op = "ECDH_Decode" =>
          /\ a.art.kind = "ecdh"
          /\ Backend \in {"azure", "pkcs11"} => a.art.size \in Curves
          /\ Backend = "pkcs11" => Token!ecdhCalls(a.opts) # <<>>
ByReference(a) == Raw(a).form = "ref" /\ (a.key = NoText \/ a.key.form = "ref")
Asks(j) ==
    /\ ByReference(j.a) /\ Able(j.op, j.a) /\ j.plan = Plan(j.op, j.a) /\ Nil(j.reg)
    /\ \/ j.todo = j.plan.calls
       \/ j.op = "ECDH_Decode" /\ j.todo = <<Plain("Derive", "ecdh")>>

\* What a call under way knows of its key, and still asks.
Under(st, j) ==
    /\ Nil(j.reg) \/ Describes(st, j.reg)
    /\ j.op \in {"GetKey", "DeactivateKey"} =>
          /\ j.plan.ref.form \in {"ref", "id"}
          /\ Nil(j.reg) \/ j.reg.alg \in Head(j.todo).for
    /\ Head(j.todo).do = "CreateKey" => SizeFits(Head(j.todo).size)
    /\ Backend = "aws" /\ Head(j.todo).do = "RotateKey" => Family = "aes"
    /\ j.op \notin {"Sha256Hex", "Blake3"}
    /\ j.op \in Workers => Asks(j)

\* What a call has returned: ManagementSucceeds, GeneratedKeyServes and RoundTrip, of one call.
Manageable(j) ==
    /\ Remote /\ j.op \in {"GetKey", "DeactivateKey"} /\ j.a.key # NoText
    /\ Backend = "pkcs11" => j.a.key.form # "id"
Sealable(j) == j.op \in Sealers \cup {"HMAC"} /\ j.a.key # NoText /\ <<Backend, Family>> \notin NotServed
Openable(j) ==
    /\ j.op \in Openers /\ j.from.art.kind = KindOf[j.op]
    /\ j.from.with = j.with
    /\ j.a.key = NoText => j.with = NoData
    /\ j.from.uid = j.a.uid /\ j.from.add = j.a.add
    /\ ~EmptyInHardware(j) /\ ~NoWayToDerive(j) /\ ~NoPublicHalf(j)
Watched(j)  == Manageable(j) \/ Sealable(j) \/ Openable(j)
Recovers(j) == IF j.ok THEN j.val \in {Message(j.from.art.msg), Verified} ELSE j.why \in Blameless
Serves(j) ==
    /\ Manageable(j) \/ Sealable(j) => Fair(j)
    /\ Openable(j) => Recovers(j)
Done(st, j) ==
    /\ j.ok /\ DOMAIN j.val = DOMAIN NoData => DataFits(st, j.val)
    /\ j.ok /\ DOMAIN j.val = DOMAIN NoArt.art => ArtFits(st, j.val, j.with)
    /\ Serves(j)

JobServes(st, j) ==
    /\ j.st # "idle" => Had(st, j)
    /\ j.st = "calling" => Under(st, j)
    /\ j.st = "returned" => Done(st, j)

ServiceServes ==
    /\ env.vault
    /\ Backend = "gcp" => ~Nil(env.configured)
    /\ Nil(env.configured) \/ Refers(store, env.configured)
    /\ KeysFit(store)
    /\ \A d \in held : DataFits(store, d)
    /\ \A e \in arts : ArtFits(store, e.art, e.with)
    /\ \A c \in Clients : JobServes(store, job[c])

\* The service's keys from one state to a later one, their sizes with them.
Wider(s, t) == Grows(s, t) /\ \A k \in AllNames : s[k] # NoKey => t[k].size = s[k].size

\* What is said of descriptions, key data and artefacts stays true.
LEMMA WiderKeeps ==
  ASSUME NEW s, NEW t, Wider(s, t)
  PROVE  /\ \A x : Describes(s, x) => Describes(t, x)
         /\ \A d : DataFits(s, d) => DataFits(t, d)
         /\ \A x : Refers(s, x) => Refers(t, x)
         /\ \A art, with : ArtFits(s, art, with) => ArtFits(t, art, with)
<1>1. \A x : Describes(s, x) => Describes(t, x)
  BY DEF Wider, Grows, Describes
<1>2. \A d : DataFits(s, d) => DataFits(t, d)
  BY Zenon, <1>1 DEF DataFits
<1>3. \A x : Refers(s, x) => Refers(t, x)
  BY DEF Wider, Grows, Refers
<1>4. \A x : Refers(s, x) => t[x.key].size = s[x.key].size
  BY DEF Wider, Refers
<1>5. \A art, with : ArtFits(s, art, with) => ArtFits(t, art, with)
  BY Zenon, <1>3, <1>4 DEF ArtFits
<1>. QED
  BY Zenon, <1>1, <1>2, <1>3, <1>5

\* A call stays as it must be, whatever the service does for the others.
LEMMA WiderJob ==
  ASSUME NEW s, NEW t, Wider(s, t), NEW j, JobServes(s, j)
  PROVE  JobServes(t, j)
<1>1. Had(s, j) => Had(t, j)
  <2>1. j.with = NoData \/ DataFits(s, j.with) => j.with = NoData \/ DataFits(t, j.with)
    BY Zenon, WiderKeeps
  <2>2. j.from = NoArt \/ ArtFits(s, j.from.art, j.from.with) => j.from = NoArt \/ ArtFits(t, j.from.art, j.from.with)
    BY WiderKeeps
  <2>. QED
    BY Zenon, <2>1, <2>2 DEF Had
<1>2. Under(s, j) => Under(t, j)
  BY Zenon, WiderKeeps DEF Under
<1>3. Done(s, j) => Done(t, j)
  BY Zenon, WiderKeeps DEF Done
<1>. QED
  BY Zenon, <1>1, <1>2, <1>3 DEF JobServes

\* The names of texts that are public halves of the key that s refers to.
HalfForm == IF Backend = "gcp" /\ Family = "ecdh" THEN "kem" ELSE "pkix"
HalfOf(st, s, t) ==
    t.form = HalfForm /\ t.alg = Family /\ t.key = s.key /\ t.size = st[s.key].size /\ t.ver = Fixed(s)

\* A key in full.
LEMMA KeyFits ==
  ASSUME NEW st, KeysOK(st), KeysFit(st), NEW k \in AllNames, st[k] # NoKey
  PROVE  /\ DOMAIN st[k].on = 1..Len(st[k].on) /\ Len(st[k].on) \in Nat \ {0} /\ st[k].prim \in 0..Len(st[k].on)
         /\ Backend # "gcp" => st[k].prim # 0
         /\ st[k].alg = Family /\ SizeFits(st[k].size)
         /\ Backend = "pkcs11" \/ (Backend = "aws" /\ Family # "aes") => Len(st[k].on) = 1
<1>1. /\ DOMAIN st[k].on = 1..Len(st[k].on) /\ Len(st[k].on) \in Nat \ {0} /\ st[k].prim \in 0..Len(st[k].on)
      /\ Backend # "gcp" => st[k].prim # 0
      /\ Backend = "pkcs11" => Len(st[k].on) = 1
  BY Zenon, KeyThere
<1>. QED
  BY Zenon, <1>1 DEF KeysFit

\* The version that the reference of a description stands for.
LEMMA FixedVersion ==
  ASSUME NEW st, KeysOK(st), KeysFit(st), Remote, Backend \in Backends, Family \in Families, ~Versioned, Family # "mac",
         NEW v, NEW k \in AllNames, st[k] # NoKey, v \in DOMAIN st[k].on
  PROVE  v = IF NamesVersion THEN v ELSE 1
<1>1. NamesVersion \/ Len(st[k].on) = 1
  <2>1. Backend = "aws" \/ NamesVersion
    BY DEF NamesVersion, Versioned, Backends, Families, Asymmetric, Remote
  <2>2. Backend = "aws" => Len(st[k].on) = 1
    BY KeyFits DEF Versioned
  <2>. QED
    BY <2>1, <2>2
<1>2. DOMAIN st[k].on = 1..Len(st[k].on)
  BY Zenon, KeyFits
<1>3. CASE Len(st[k].on) = 1
  <2>1. v \in 1..1
    BY <1>2, <1>3
  <2>. QED
    BY <2>1
<1>. QED
  BY <1>1, <1>3

\* The texts of key data.
LEMMA DataTexts ==
  ASSUME NEW st, KeysOK(st), KeysFit(st), Remote, Backend \in Backends, Family \in Families,
         NEW t, Describes(st, t), NEW f \in {"ref", "bare"}, NEW d, d = DataOf([t EXCEPT !.form = f])
  PROVE  /\ d.id.form = "id" /\ d.ref.key = t.key /\ d # NoData
         /\ Refers(st, d.ref) /\ (NamesVersion => d.ref.ver = t.ver)
         /\ Nil(d.pub) \/ (~Versioned /\ Family # "mac" /\ HalfOf(st, d.ref, d.pub))
         /\ f = "ref" /\ Family \in Asymmetric /\ (Backend = "azure" => Family # "ed25519") => ~Nil(d.pub)
<1>. DEFINE u == Text(f, Family, t.key, t.ver, st[t.key].size)
<1>1. [t EXCEPT !.form = f] = u
  BY DEF Describes, Text
<1>2. /\ u.form = f /\ u.alg = Family /\ u.key = t.key /\ u.ver = t.ver /\ u.size = st[t.key].size
      /\ u = [form |-> u.form, alg |-> u.alg, key |-> u.key, ver |-> u.ver, size |-> u.size]
  BY DEF Text
<1>3. t.key \in AllNames /\ st[t.key] # NoKey /\ t.ver \in DOMAIN st[t.key].on
  BY DEF Describes
<1>4. d = DataOf(u)
  BY <1>1
<1>5. ASSUME ~Versioned, Family # "mac" PROVE t.ver = IF NamesVersion THEN t.ver ELSE 1
  BY Zenon, <1>3, <1>5, FixedVersion
<1>. HIDE DEF u
<1>6. CASE Backend = "aws"
  <2>1. d = Aws!awsKeyDataFromMetadata(u)
    BY <1>4, <1>6 DEF DataOf
  <2>2. /\ d.id = [u EXCEPT !.form = "id", !.ver = 0] /\ d.ref = [u EXCEPT !.form = "ref", !.ver = 0]
        /\ d.pub = IF Family \in Asymmetric THEN [u EXCEPT !.form = "pkix"] ELSE NoText
    BY <1>2, <2>1 DEF Aws!awsKeyDataFromMetadata, Aws!KeyData, Aws!NoText, Aws!Text, NoText, Text,
                      Aws!awsKeySpecHasPublicKey, Aws!Asymmetric, Asymmetric
  <2>3. d.id.form = "id" /\ d.ref.key = t.key /\ d.ref.form = "ref"
    BY <1>2, <2>2
  <2>4. Refers(st, d.ref)
    BY <1>3, <1>6, <2>3 DEF Refers, NamesVersion
  <2>5. Family \in Asymmetric => d.pub.form = "pkix" /\ HalfOf(st, d.ref, d.pub) /\ ~Versioned /\ Family # "mac"
    BY <1>2, <1>5, <1>6, <2>2, <2>3 DEF HalfOf, HalfForm, Fixed, Versioned, Asymmetric, NamesVersion
  <2>6. ~NamesVersion
    BY <1>6 DEF NamesVersion
  <2>. QED
    BY <2>2, <2>3, <2>4, <2>5, <2>6 DEF NoData, NoText, Nil, KeyData, Text
<1>7. CASE Backend = "azure"
  <2>1. d = Azure!azureKeyDataFromBundle(u)
    BY <1>4, <1>7 DEF DataOf
  <2>2. /\ d.id = [u EXCEPT !.form = "id", !.ver = 0] /\ d.ref = [u EXCEPT !.form = "ref"]
        /\ d.pub = IF Family \in {"rsa", "ecdh"} THEN [u EXCEPT !.form = "pkix"] ELSE NoText
    BY <1>2, <2>1 DEF Azure!azureKeyDataFromBundle, Azure!KeyData, Azure!NoText, Azure!Text, NoText, Text,
                      Azure!azureBundleHasRSAKey, Azure!azureBundleHasECKey
  <2>3. d.id.form = "id" /\ d.ref.key = t.key /\ d.ref.form = "ref" /\ d.ref.ver = t.ver
    BY <1>2, <2>2
  <2>4. Refers(st, d.ref)
    BY <1>3, <1>7, <2>3 DEF Refers, NamesVersion
  <2>5. Family \in {"rsa", "ecdh"} => d.pub.form = "pkix" /\ HalfOf(st, d.ref, d.pub) /\ ~Versioned /\ Family # "mac"
    BY <1>2, <1>7, <2>2, <2>3 DEF HalfOf, HalfForm, Fixed, Versioned, NamesVersion
  <2>. QED
    BY <1>7, <2>2, <2>3, <2>4, <2>5 DEF NoData, NoText, Nil, KeyData, Text, Asymmetric
<1>8. CASE Backend = "gcp"
  <2>1. d = Gcp!gcpKeyDataFromCryptoKey(u)
    BY <1>4, <1>8 DEF DataOf
  <2>2. /\ d.id = [u EXCEPT !.form = "id", !.ver = 0]
        /\ d.ref = IF Family \in Asymmetric THEN [u EXCEPT !.form = "ref"] ELSE [u EXCEPT !.form = "ref", !.ver = 0]
        /\ d.pub = IF Family \in Asymmetric THEN [u EXCEPT !.form = HalfForm] ELSE NoText
    <3>1. /\ d.id = [u EXCEPT !.form = "id", !.ver = 0]
          /\ d.ref = IF u.alg \in Asymmetric THEN [u EXCEPT !.form = "ref"] ELSE [u EXCEPT !.form = "ref", !.ver = 0]
          /\ d.pub = CASE u.alg = "ecdh" -> [u EXCEPT !.form = "kem"]
                       [] u.alg \in {"rsa", "ed25519"} -> [u EXCEPT !.form = "pkix"]
                       [] OTHER -> NoText
      BY <2>1 DEF Gcp!gcpKeyDataFromCryptoKey, Gcp!KeyData, Gcp!NoText, Gcp!Text, NoText, Text, Gcp!Asymmetric, Asymmetric
    <3>. QED
      BY <1>2, <1>8, <3>1 DEF HalfForm, Asymmetric
  <2>3. d.id.form = "id" /\ d.ref.key = t.key /\ d.ref.form = "ref" /\ (Family \in Asymmetric => d.ref.ver = t.ver)
    BY <1>2, <2>2
  <2>4. Refers(st, d.ref)
    BY <1>3, <1>8, <2>3 DEF Refers, NamesVersion
  <2>5. Family \in Asymmetric => d.pub.form = HalfForm /\ HalfOf(st, d.ref, d.pub) /\ ~Versioned /\ Family # "mac"
    BY <1>2, <1>8, <2>2, <2>3 DEF HalfOf, Fixed, Versioned, NamesVersion, Asymmetric
  <2>6. NamesVersion => Family \in Asymmetric
    BY <1>8 DEF NamesVersion
  <2>. QED
    BY <2>2, <2>3, <2>4, <2>5, <2>6 DEF NoData, NoText, Nil, KeyData, Text, HalfForm
<1>9. CASE Backend = "pkcs11"
  <2>1. d = Token!keyDataFor(u)
    BY <1>4, <1>9 DEF DataOf
  <2>2. /\ d.id = [u EXCEPT !.form = "id"] /\ d.ref = [u EXCEPT !.form = "ref"]
        /\ d.pub = IF Family \in Asymmetric /\ f # "bare" THEN [u EXCEPT !.form = "pkix"] ELSE NoText
    BY <1>2, <2>1 DEF Token!keyDataFor, Token!KeyData, Token!NoText, Token!Text, NoText, Text,
                      Token!Asymmetric, Asymmetric
  <2>3. d.id.form = "id" /\ d.ref.key = t.key /\ d.ref.form = "ref" /\ d.ref.ver = t.ver
    BY <1>2, <2>2
  <2>4. Refers(st, d.ref)
    BY <1>3, <1>9, <2>3 DEF Refers, NamesVersion
  <2>5. Family \in Asymmetric /\ f # "bare"
          => d.pub.form = "pkix" /\ HalfOf(st, d.ref, d.pub) /\ ~Versioned /\ Family # "mac"
    BY <1>2, <1>9, <2>2, <2>3 DEF HalfOf, HalfForm, Fixed, Versioned, Asymmetric, NamesVersion
  <2>. QED
    BY <2>2, <2>3, <2>4, <2>5 DEF NoData, NoText, Nil, KeyData, Text
<1>. QED
  BY <1>6, <1>7, <1>8, <1>9 DEF Backends, Remote

----------------------------------------------------------------------------
(* What the service tells of its keys.                                     *)

\* A description is a text that names a version.
LEMMA Described ==
  ASSUME NEW st, KeysFit(st), NEW t, Describes(st, t)
  PROVE  /\ IsText(t) /\ t.form = "ref" /\ t.alg = Family /\ t.size = st[t.key].size
         /\ t.key \in AllNames /\ st[t.key] # NoKey /\ t.ver \in DOMAIN st[t.key].on
         /\ Points(st, t) /\ Within(st, t) /\ ~Nil(t) /\ Refers(st, t)
<1>1. /\ t.key \in AllNames /\ st[t.key] # NoKey /\ t.ver \in DOMAIN st[t.key].on
      /\ t = Text("ref", Family, t.key, t.ver, st[t.key].size)
  BY DEF Describes
<1>2. t.form = "ref" /\ t.alg = Family /\ t.size = st[t.key].size /\ IsText(t)
  BY <1>1 DEF Text, IsText
<1>3. st[t.key].alg = Family
  BY <1>1 DEF KeysFit
<1>4. ~Nil(t)
  BY <1>2 DEF Nil, NoText, Text
<1>. QED
  BY Zenon, <1>1, <1>2, <1>3, <1>4 DEF Points, Exists, Within, Refers

\* A description of a key by the service.
LEMMA ToldText ==
  ASSUME NEW k, NEW v
  PROVE  /\ Told(k, v) = [form |-> "ref", alg |-> store[k].alg, key |-> k, ver |-> v, size |-> store[k].size]
         /\ \A n, t : t = [Told(k, v) EXCEPT !.ver = n] => t = Told(k, n)
<1>1. \A u : Told(k, u) = [form |-> "ref", alg |-> store[k].alg, key |-> k, ver |-> u, size |-> store[k].size]
  BY DEF Told, Text
<1>2. ASSUME NEW n, NEW t, t = [Told(k, v) EXCEPT !.ver = n] PROVE t = Told(k, n)
  <2>1. PICK s : s = Told(k, v)
    OBVIOUS
  <2>2. s = [form |-> "ref", alg |-> store[k].alg, key |-> k, ver |-> v, size |-> store[k].size]
    BY Zenon, <1>1, <2>1
  <2>3. t = [s EXCEPT !.ver = n]
    BY Zenon, <1>2, <2>1
  <2>. QED
    BY <1>1, <2>2, <2>3
<1>. QED
  BY Zenon, <1>1, <1>2

\* The keys before and after an answer.
Widened(st) == Wider(store, st) /\ KeysFit(st)

\* What an answer that is granted makes of one key, and tells of it.
Shape(ans, x) ==
    \E v : /\ ans.reg = Told(x, v)
           /\ \/ ans.st = store /\ v \in DOMAIN store[x].on
              \/ \E on, p : /\ ans.st = [store EXCEPT ![x] = Edited(x, on, p)] /\ v \in DOMAIN on
                            /\ Backend = "aws" /\ Family # "aes" => Len(on) = 1

\* ... with the key's versions edited.
LEMMA EditShape ==
  ASSUME NEW ans, NEW x, NEW v, NEW on, NEW p, ans.reg = Told(x, v), v \in DOMAIN on,
         ans.st = [store EXCEPT ![x] = Edited(x, on, p)], Backend = "aws" /\ Family # "aes" => Len(on) = 1
  PROVE  Shape(ans, x)
BY Zenon DEF Shape

\* Such an answer describes the key, and leaves its size.
LEMMA ShapeFits ==
  ASSUME Keeping, KeysFit(store), NEW x \in AllNames, store[x] # NoKey, NEW ans, Shape(ans, x),
         NEW new, Effected(ans.st, new)
  PROVE  Widened(ans.st) /\ Describes(ans.st, ans.reg)
<1>1. store = [k \in AllNames |-> store[k]] /\ store[x].alg = Family /\ SizeFits(store[x].size)
  BY Zenon, KeyFits DEF Keeping, KeysOK
<1>2. Grows(store, ans.st)
  BY DEF Effected
<1>3. PICK v : /\ ans.reg = Told(x, v)
               /\ \/ ans.st = store /\ v \in DOMAIN store[x].on
                  \/ \E on, p : /\ ans.st = [store EXCEPT ![x] = Edited(x, on, p)] /\ v \in DOMAIN on
                                /\ Backend = "aws" /\ Family # "aes" => Len(on) = 1
  BY Zenon DEF Shape
<1>4. ans.reg = Text("ref", Family, x, v, store[x].size) /\ ans.reg.key = x /\ ans.reg.ver = v
  BY <1>1, <1>3, ToldText DEF Text
<1>5. CASE ans.st = store /\ v \in DOMAIN store[x].on
  BY <1>2, <1>4, <1>5 DEF Widened, Wider, Describes
<1>6. ASSUME NEW on, NEW p, ans.st = [store EXCEPT ![x] = Edited(x, on, p)], v \in DOMAIN on,
             Backend = "aws" /\ Family # "aes" => Len(on) = 1
      PROVE  Widened(ans.st) /\ Describes(ans.st, ans.reg)
  <2>1. PICK n : n = Edited(x, on, p)
    OBVIOUS
  <2>2. n.alg = store[x].alg /\ n.size = store[x].size /\ n.on = on
    <3>1. n = [alg |-> store[x].alg, size |-> store[x].size, uses |-> store[x].uses, on |-> on, prim |-> p,
               after |-> store[x].after]
      BY Zenon, <2>1, EditedKey
    <3>. QED
      BY <3>1
  <2>3. ans.st[x] = n /\ \A k \in AllNames : k # x => ans.st[k] = store[k]
    BY <1>1, <1>6, <2>1
  <2>4. Wider(store, ans.st)
    BY <1>2, <2>2, <2>3 DEF Wider
  <2>5. KeysFit(ans.st)
    BY <1>1, <1>6, <2>2, <2>3 DEF KeysFit
  <2>6. ans.st[x] # NoKey
    BY <1>2 DEF Grows
  <2>7. Describes(ans.st, ans.reg)
    BY <1>4, <1>6, <2>2, <2>3, <2>6 DEF Describes
  <2>. QED
    BY <2>4, <2>5, <2>7 DEF Widened
<1>. QED
  BY Zenon, <1>3, <1>5, <1>6

\* The versions of a key with one more.
LEMMA LongerVersions ==
  ASSUME Keeping, NEW x \in AllNames, store[x] # NoKey, NEW on, on = Longer(store[x].on)
  PROVE  Len(store[x].on) + 1 \in DOMAIN on
<1>1. store[x].on \in Seq(BOOLEAN) /\ Len(store[x].on) \in Nat
  BY KeyThere DEF Keeping
<1>2. LongerOf(store[x].on, on)
  BY Zenon, <1>1, Appended
<1>. QED
  BY <1>1, <1>2 DEF LongerOf

\* The versions of a key with one turned off.
LEMMA FewerVersions ==
  ASSUME Keeping, KeysFit(store), NEW t, Within(store, t), NEW on, on = TurnedOff(t)
  PROVE  Version(t) \in DOMAIN on /\ (Backend = "aws" /\ Family # "aes" => Len(on) = 1)
<1>1. DOMAIN on = DOMAIN store[t.key].on /\ DOMAIN store[t.key].on = 1..Len(store[t.key].on)
      /\ Len(store[t.key].on) \in Nat
  BY KeyThere DEF TurnedOff, Keeping, Within
<1>2. Len(on) = Len(store[t.key].on)
  BY <1>1
<1>3. Version(t) \in DOMAIN store[t.key].on
  BY Zenon, VersionReal
<1>4. Backend = "aws" /\ Family # "aes" => Len(store[t.key].on) = 1
  BY DEF KeysFit, Within
<1>. QED
  BY <1>1, <1>2, <1>3, <1>4

\* The calls that look at a key or change it have such answers.
LEMMA AdministerShape ==
  ASSUME Keeping, KeysFit(store), NEW call, call.do \in Dos \ (Computing \cup {"CreateKey", "CreateReplacement"}),
         NEW t, Within(store, t), NEW ans \in Administer(call, t), ans.ok,
         call.do = "UpdatePrimary" => Describes(store, t),
         Backend = "aws" /\ call.do \in {"RotateKey", "CreateCryptoKeyVersion"} => Family = "aes"
  PROVE  Shape(ans, t.key)
<1>. DEFINE x == t.key
           l == Len(store[x].on) + 1
           on == Longer(store[x].on)
           off == TurnedOff(t)
           next == [Told(x, Version(t)) EXCEPT !.ver = l]
<1>1. x \in AllNames /\ store[x] # NoKey /\ Version(t) \in DOMAIN store[x].on
  BY Zenon, VersionReal DEF Within
<1>2. \A why : ans # Refused(why)
  BY RefusedFields
<1>3. ASSUME ans = Granted(Told(x, Version(t)), NoDigest, store) PROVE Shape(ans, x)
  <2>1. ans.reg = Told(x, Version(t)) /\ ans.st = store
    BY <1>3, GrantedFields
  <2>. QED
    BY Zenon, <1>1, <2>1 DEF Shape
<1>4. CASE call.do \in Looking
  <2>1. ans = Granted(Told(x, Version(t)), NoDigest, store) \/ \E why : ans = Refused(why)
    <3>1. CASE call.do \in {"DescribeKey", "GetAttributes", "GetCryptoKey"}
      BY Zenon, <3>1 DEF Administer
    <3>2. CASE call.do = "GetKey"
      <4>1. ans \in {Granted(Told(x, Version(t)), NoDigest, store)}
                    \cup (IF On(t, Version(t)) THEN {} ELSE {Refused("off")})
        BY Zenon, <3>2 DEF Administer
      <4>. QED
        BY Zenon, <4>1
    <3>3. CASE call.do = "GetPublicKey"
      <4>1. ans \in {Granted(Told(x, Version(t)), NoDigest, store)} \cup {Refused("off"), Refused("mismatch")}
        <5>1. ans \in IF store[x].alg \in Asymmetric
                      THEN {Granted(Told(x, Version(t)), NoDigest, store)}
                           \cup (IF On(t, Version(t)) THEN {} ELSE {Refused("off")})
                      ELSE {Refused("mismatch")}
          BY Zenon, <3>3 DEF Administer
        <5>. QED
          BY Zenon, <5>1
      <4>. QED
        BY Zenon, <4>1
    <3>. QED
      BY Zenon, <1>4, <3>1, <3>2, <3>3 DEF Looking
  <2>. QED
    BY Zenon, <1>2, <1>3, <2>1
<1>5. on = Longer(store[x].on)
  OBVIOUS
<1>6. l \in DOMAIN on
  BY Zenon, <1>1, <1>5, LongerVersions
<1>7. next = Told(x, l)
  <2>1. \A n, s : s = [Told(x, Version(t)) EXCEPT !.ver = n] => s = Told(x, n)
    BY Zenon, ToldText
  <2>2. next = [Told(x, Version(t)) EXCEPT !.ver = l]
    OBVIOUS
  <2>. HIDE DEF next, l, x
  <2>. QED
    BY Zenon, <2>1, <2>2
<1>8. CASE call.do = "RotateKey"
  <2>1. ans = Granted(next, NoDigest, [[store EXCEPT ![x].on = on] EXCEPT ![x].prim = l]) \/ ans = Refused("off")
    <3>1. call.do \notin {"DescribeKey", "GetAttributes", "GetCryptoKey"} /\ call.do # "GetKey" /\ call.do # "GetPublicKey"
      BY <1>8
    <3>2. \/ ans = Granted(next, NoDigest, [WithVersion(t) EXCEPT ![x].prim = l])
          \/ ans = Refused("off")
      BY Zenon, <1>8, <3>1 DEF Administer
    <3>. QED
      BY Zenon, <3>2 DEF WithVersion, Longer
  <2>2. Backend = "aws" /\ Family # "aes" => Len(on) = 1
    BY <1>8
  <2>3. \A s, p : [[store EXCEPT ![x].on = s] EXCEPT ![x].prim = p] = [store EXCEPT ![x] = Edited(x, s, p)]
    BY Zenon, <1>1, Edits
  <2>. HIDE DEF x, l, on, next
  <2>4. [[store EXCEPT ![x].on = on] EXCEPT ![x].prim = l] = [store EXCEPT ![x] = Edited(x, on, l)]
    BY Zenon, <2>3
  <2>5. ans = Granted(Told(x, l), NoDigest, [store EXCEPT ![x] = Edited(x, on, l)])
    BY Zenon, <1>2, <1>7, <2>1, <2>4
  <2>6. ans.reg = Told(x, l) /\ ans.st = [store EXCEPT ![x] = Edited(x, on, l)]
    BY <2>5, GrantedFields
  <2>. QED
    BY Zenon, <1>6, <2>2, <2>6, EditShape DEF x
<1>9. CASE call.do = "CreateCryptoKeyVersion"
  <2>1. ans = Granted(next, NoDigest, [store EXCEPT ![x].on = on])
    <3>1. /\ call.do \notin {"DescribeKey", "GetAttributes", "GetCryptoKey"} /\ call.do # "GetKey"
          /\ call.do # "GetPublicKey" /\ call.do # "RotateKey"
      BY <1>9
    <3>2. ans = Granted(next, NoDigest, WithVersion(t))
      BY Zenon, <1>9, <3>1 DEF Administer
    <3>. QED
      BY Zenon, <3>2 DEF WithVersion, Longer
  <2>2. Backend = "aws" /\ Family # "aes" => Len(on) = 1
    BY <1>9
  <2>3. \A s : [store EXCEPT ![x].on = s] = [store EXCEPT ![x] = Edited(x, s, store[x].prim)]
    BY Zenon, <1>1, Edits
  <2>. HIDE DEF x, l, on, next
  <2>4. [store EXCEPT ![x].on = on] = [store EXCEPT ![x] = Edited(x, on, store[x].prim)]
    BY Zenon, <2>3
  <2>5. ans = Granted(Told(x, l), NoDigest, [store EXCEPT ![x] = Edited(x, on, store[x].prim)])
    BY Zenon, <1>7, <2>1, <2>4
  <2>6. ans.reg = Told(x, l) /\ ans.st = [store EXCEPT ![x] = Edited(x, on, store[x].prim)]
    BY <2>5, GrantedFields
  <2>. QED
    BY Zenon, <1>6, <2>2, <2>6, EditShape DEF x
<1>10. CASE call.do = "UpdatePrimary"
  <2>1. ans = Granted(t, NoDigest, [store EXCEPT ![x].prim = t.ver])
    <3>1. /\ call.do \notin {"DescribeKey", "GetAttributes", "GetCryptoKey"} /\ call.do # "GetKey"
          /\ call.do # "GetPublicKey" /\ call.do # "RotateKey" /\ call.do # "CreateCryptoKeyVersion"
      BY <1>10
    <3>. QED
      BY Zenon, <1>10, <3>1 DEF Administer
  <2>2. t = Told(x, t.ver) /\ t.ver \in DOMAIN store[x].on
    <3>1. t.ver \in DOMAIN store[x].on /\ t = Text("ref", Family, x, t.ver, store[x].size)
      BY Zenon, <1>10 DEF Describes
    <3>2. store[x].alg = Family
      BY <1>1 DEF KeysFit
    <3>. QED
      BY Zenon, <3>1, <3>2 DEF Told
  <2>3. Backend = "aws" /\ Family # "aes" => Len(store[x].on) = 1
    BY <1>1 DEF KeysFit
  <2>4. \A p : [store EXCEPT ![x].prim = p] = [store EXCEPT ![x] = Edited(x, store[x].on, p)]
    BY Zenon, <1>1, Edits
  <2>. HIDE DEF x
  <2>5. ans = Granted(Told(x, t.ver), NoDigest, [store EXCEPT ![x] = Edited(x, store[x].on, t.ver)])
    BY Zenon, <2>1, <2>2, <2>4
  <2>6. ans.reg = Told(x, t.ver) /\ ans.st = [store EXCEPT ![x] = Edited(x, store[x].on, t.ver)]
    BY <2>5, GrantedFields
  <2>. QED
    BY Zenon, <2>2, <2>3, <2>6, EditShape DEF x
<1>11. CASE call.do \in Disabling
  <2>1. ans = Granted(Told(x, Version(t)), NoDigest, [store EXCEPT ![x].on = off]) \/ ans = Refused("use")
    <3>1. /\ call.do \notin {"DescribeKey", "GetAttributes", "GetCryptoKey"} /\ call.do # "GetKey"
          /\ call.do # "GetPublicKey" /\ call.do # "RotateKey" /\ call.do # "CreateCryptoKeyVersion"
          /\ call.do # "UpdatePrimary"
          /\ call.do \in {"DisableKey", "DisablePrevious", "DestroyObject"}
      BY <1>11 DEF Disabling
    <3>2. ans \in {Granted(Told(x, Version(t)), NoDigest, TurnOff(t))}
                  \cup (IF Backend = "pkcs11" /\ call.do # "DestroyObject" THEN {Refused("use")} ELSE {})
      BY Zenon, <3>1 DEF Administer
    <3>3. TurnOff(t) = [store EXCEPT ![x].on = off]
      BY DEF TurnOff, TurnedOff
    <3>. QED
      BY Zenon, <3>2, <3>3
  <2>. HIDE DEF x
  <2>2. Version(t) \in DOMAIN off /\ (Backend = "aws" /\ Family # "aes" => Len(off) = 1)
    BY Zenon, FewerVersions
  <2>3. \A s : [store EXCEPT ![x].on = s] = [store EXCEPT ![x] = Edited(x, s, store[x].prim)]
    BY Zenon, <1>1, Edits
  <2>. HIDE DEF off
  <2>4. [store EXCEPT ![x].on = off] = [store EXCEPT ![x] = Edited(x, off, store[x].prim)]
    BY Zenon, <2>3
  <2>5. ans = Granted(Told(x, Version(t)), NoDigest, [store EXCEPT ![x] = Edited(x, off, store[x].prim)])
    BY Zenon, <1>2, <2>1, <2>4
  <2>6. ans.reg = Told(x, Version(t)) /\ ans.st = [store EXCEPT ![x] = Edited(x, off, store[x].prim)]
    BY <2>5, GrantedFields
  <2>. QED
    BY Zenon, <2>2, <2>6, EditShape DEF x
<1>12. \/ call.do \in Looking \cup Disabling
       \/ call.do \in {"RotateKey", "CreateCryptoKeyVersion", "UpdatePrimary"}
  BY DEF Dos, Looking, Disabling
<1>. HIDE DEF x
<1>13. Shape(ans, x)
  BY Zenon, <1>4, <1>8, <1>9, <1>10, <1>11, <1>12 DEF x
<1>. QED
  BY Zenon, <1>13 DEF x

\* A key that is made, and what the service tells of it.
LEMMA MadeFits ==
  ASSUME Keeping, KeysFit(store), NEW x \in AllNames, store[x] = NoKey, NEW size, SizeFits(size), NEW uses, NEW after,
         NEW ans, ans.st = [store EXCEPT ![x] = NewKey(Family, size, uses, after)],
         ans.reg = Text("ref", Family, x, 1, size), NEW new, Effected(ans.st, new)
  PROVE  Widened(ans.st) /\ Describes(ans.st, ans.reg)
<1>1. store = [k \in AllNames |-> store[k]] /\ Grows(store, ans.st) /\ Family \in Families
  BY DEF Keeping, KeysOK, Effected
<1>2. PICK n : n = NewKey(Family, size, uses, after)
  OBVIOUS
<1>3. n.alg = Family /\ n.size = size /\ n.on = <<TRUE>>
  BY <1>2 DEF NewKey
<1>4. ans.st[x] = n /\ \A k \in AllNames : k # x => ans.st[k] = store[k]
  BY <1>1, <1>2
<1>5. n # NoKey
  BY <1>1, <1>3 DEF NoKey, Families
<1>6. Len(n.on) = 1 /\ 1 \in DOMAIN n.on
  BY <1>3
<1>7. Wider(store, ans.st)
  BY <1>1, <1>4 DEF Wider
<1>8. KeysFit(ans.st)
  BY <1>3, <1>4, <1>6 DEF KeysFit
<1>9. Describes(ans.st, ans.reg)
  <2>1. ans.reg.key = x /\ ans.reg.ver = 1
    BY DEF Text
  <2>2. ans.reg = Text("ref", Family, ans.reg.key, ans.reg.ver, ans.st[ans.reg.key].size)
    BY <1>3, <1>4, <2>1
  <2>. QED
    BY <1>4, <1>5, <1>6, <2>1, <2>2 DEF Describes
<1>. QED
  BY <1>7, <1>8, <1>9 DEF Widened

\* Whatever the service grants about a key that it has or makes, it describes
\* that key, and leaves the sizes of the others.
LEMMA AnswerFits ==
  ASSUME Keeping, KeysFit(store), NEW call, call.do \in Dos \ Computing, NEW j,
         Nil(Aim(call, j)) \/ Within(store, Aim(call, j)), NEW ans \in Answers(call, j), ans.ok,
         Effected(ans.st, j.a.new),
         call.do = "CreateKey" =>
            call.kind = Family /\ SizeFits(call.size) /\ j.a.new \in Names /\ store[j.a.new] = NoKey,
         call.do = "CreateReplacement" =>
            Describes(store, Aim(call, j)) /\ j.a.new \in Names /\ store[j.a.new] = NoKey,
         call.do = "UpdatePrimary" => Describes(store, Aim(call, j)),
         Backend = "aws" /\ call.do \in {"RotateKey", "CreateCryptoKeyVersion"} => Family = "aes"
  PROVE  Widened(ans.st) /\ Describes(ans.st, ans.reg)
<1>. DEFINE t == Aim(call, j)
           new == j.a.new
<1>1. Names \subseteq AllNames
  BY NoneIsNoName
<1>2. CASE call.do = "CreateKey"
  <2>1. ans = Granted(Text("ref", Family, new, 1, call.size), NoDigest,
                      [store EXCEPT ![new] = NewKey(Family, call.size, call.bind, "none")])
    <3>1. ans = Granted(Text("ref", call.kind, new, 1, call.size), NoDigest,
                        [store EXCEPT ![new] = NewKey(call.kind, call.size, call.bind, "none")])
      BY Zenon, <1>2 DEF Answers
    <3>. QED
      BY Zenon, <1>2, <3>1
  <2>2. /\ ans.reg = Text("ref", Family, new, 1, call.size)
        /\ ans.st = [store EXCEPT ![new] = NewKey(Family, call.size, call.bind, "none")]
    BY <2>1, GrantedFields
  <2>3. new \in AllNames /\ store[new] = NoKey /\ SizeFits(call.size)
    BY Zenon, <1>1, <1>2
  <2>. HIDE DEF new
  <2>4. Effected(ans.st, new)
    BY DEF new
  <2>. QED
    BY Zenon, <2>2, <2>3, <2>4, MadeFits
<1>3. CASE call.do = "CreateReplacement"
  <2>1. call.do # "CreateKey"
    BY <1>3
  <2>2. PICK size \in Token!generateReplacement(t) :
          ans = Granted(Text("ref", t.alg, new, 1, size), NoDigest,
                        [store EXCEPT ![new] = NewKey(t.alg, size, Token!replacementUses(t.alg), t.key)])
    <3>1. ans \in {Granted(Text("ref", t.alg, new, 1, size), NoDigest,
                           [store EXCEPT ![new] = NewKey(t.alg, size, Token!replacementUses(t.alg), t.key)])
                     : size \in Token!generateReplacement(t)}
      BY Zenon, <1>3, <2>1 DEF Answers, Aim
    <3>. QED
      BY Zenon, <3>1
  <2>3. Describes(store, t)
    BY <1>3
  <2>. HIDE DEF t
  <2>4. t.alg = Family /\ t.size = store[t.key].size /\ t.key \in AllNames /\ store[t.key] # NoKey
    BY Zenon, <2>3, Described
  <2>5. SizeFits(size)
    <3>1. Family = "ecdh" => size = t.size
      BY <2>4 DEF Token!generateReplacement
    <3>2. SizeFits(store[t.key].size)
      BY <2>4 DEF KeysFit
    <3>. QED
      BY <2>4, <3>1, <3>2 DEF SizeFits
  <2>6. /\ ans.reg = Text("ref", Family, new, 1, size)
        /\ ans.st = [store EXCEPT ![new] = NewKey(Family, size, Token!replacementUses(t.alg), t.key)]
    <3>1. /\ ans.reg = Text("ref", t.alg, new, 1, size)
          /\ ans.st = [store EXCEPT ![new] = NewKey(t.alg, size, Token!replacementUses(t.alg), t.key)]
      BY <2>2, GrantedFields
    <3>2. PICK uses : uses = Token!replacementUses(t.alg)
      OBVIOUS
    <3>. QED
      BY Zenon, <2>4, <3>1, <3>2
  <2>7. new \in AllNames /\ store[new] = NoKey
    BY Zenon, <1>1, <1>3
  <2>. HIDE DEF new
  <2>8. Effected(ans.st, new)
    BY DEF new
  <2>. QED
    BY Zenon, <2>5, <2>6, <2>7, <2>8, MadeFits
<1>4. CASE call.do \notin {"CreateKey", "CreateReplacement"}
  <2>1. call.do \notin Computing \cup {"CreateKey", "CreateReplacement"}
        /\ call.do \in Dos \ (Computing \cup {"CreateKey", "CreateReplacement"})
    BY <1>4
  <2>2. Within(store, t) /\ ans \in Administer(call, t)
    BY Zenon, <2>1, Administers
  <2>3. call.do = "UpdatePrimary" => Describes(store, t)
    OBVIOUS
  <2>. HIDE DEF t
  <2>4. Shape(ans, t.key)
    BY Zenon, <2>1, <2>2, <2>3, AdministerShape
  <2>. QED
    BY Zenon, <2>2, <2>4, ShapeFits DEF Within
<1>. QED
  BY Zenon, <1>2, <1>3, <1>4

\* A call to the service about a key that it knows is refused for a version that
\* is off or a use that the key does not have; or it asks for the public half of
\* a key without one.
LEMMA RefusedFairly ==
  ASSUME NEW call, call.do \in Looking \cup Disabling, NEW j, Within(store, Aim(call, j)),
         Aim(call, j).form \in {"ref", "id"}, NEW ans \in Answers(call, j), ~ans.ok
  PROVE  ans.why \in Blameless \/ (call.do = "GetPublicKey" /\ store[Aim(call, j).key].alg \notin Asymmetric)
<1>. DEFINE t == Aim(call, j)
<1>1. Known(t)
  BY DEF Known, Within
<1>2. ans \in Administer(call, t)
  <2>1. call.do # "CreateKey" /\ call.do # "CreateReplacement" /\ call.do \notin Computing
    BY DEF Looking, Disabling, Computing
  <2>. QED
    BY Zenon, <1>1, <2>1 DEF Answers, Aim
<1>. DEFINE given == Granted(Told(t.key, Version(t)), NoDigest, store)
           off == Granted(Told(t.key, Version(t)), NoDigest, TurnOff(t))
<1>3. /\ given.ok /\ off.ok /\ Refused("off").why \in Blameless /\ Refused("use").why \in Blameless
  BY GrantedFields, RefusedFields DEF Blameless
<1>. HIDE DEF t, given, off
<1>4. CASE call.do \in {"DescribeKey", "GetAttributes", "GetCryptoKey"}
  <2>1. ans = given
    BY Zenon, <1>2, <1>4 DEF Administer, given
  <2>. QED
    BY <1>3, <2>1
<1>5. CASE call.do = "GetKey"
  <2>1. call.do \notin {"DescribeKey", "GetAttributes", "GetCryptoKey"}
    BY <1>5
  <2>2. ans \in {given} \cup (IF On(t, Version(t)) THEN {} ELSE {Refused("off")})
    BY Zenon, <1>2, <1>5, <2>1 DEF Administer, given
  <2>3. ans = given \/ ans = Refused("off")
    BY Zenon, <2>2
  <2>. QED
    BY <1>3, <2>3
<1>6. CASE call.do = "GetPublicKey"
  <2>1. call.do \notin {"DescribeKey", "GetAttributes", "GetCryptoKey"} /\ call.do # "GetKey"
    BY <1>6
  <2>2. ans \in IF store[t.key].alg \in Asymmetric
                THEN {given} \cup (IF On(t, Version(t)) THEN {} ELSE {Refused("off")})
                ELSE {Refused("mismatch")}
    BY Zenon, <1>2, <1>6, <2>1 DEF Administer, given
  <2>3. ans = given \/ ans = Refused("off") \/ store[t.key].alg \notin Asymmetric
    BY Zenon, <2>2
  <2>. QED
    BY <1>3, <1>6, <2>3 DEF t
<1>7. CASE call.do \in Disabling
  <2>1. /\ call.do \notin {"DescribeKey", "GetAttributes", "GetCryptoKey"} /\ call.do # "GetKey"
        /\ call.do # "GetPublicKey" /\ call.do # "RotateKey" /\ call.do # "CreateCryptoKeyVersion"
        /\ call.do # "UpdatePrimary"
        /\ call.do \in {"DisableKey", "DisablePrevious", "DestroyObject"}
    BY <1>7 DEF Disabling
  <2>2. ans \in {off} \cup (IF Backend = "pkcs11" /\ call.do # "DestroyObject" THEN {Refused("use")} ELSE {})
    BY Zenon, <1>2, <2>1 DEF Administer, off
  <2>3. ans = off \/ ans = Refused("use")
    BY Zenon, <2>2
  <2>. QED
    BY <1>3, <2>3
<1>. QED
  BY <1>4, <1>5, <1>6, <1>7 DEF Looking

\* The version that the service takes for a reference, where keys keep to one.
LEMMA VersionFixed ==
  ASSUME Keeping, KeysFit(store), NEW s, Refers(store, s), ~Versioned, Family # "mac"
  PROVE  Version(s) = Fixed(s)
<1>. DEFINE k == store[s.key]
<1>1. s.key \in AllNames /\ k # NoKey /\ (NamesVersion => s.ver \in DOMAIN k.on)
  BY DEF Refers
<1>2. /\ DOMAIN k.on = 1..Len(k.on) /\ Len(k.on) \in Nat \ {0} /\ k.prim \in 0..Len(k.on)
      /\ Backend # "gcp" => k.prim # 0
      /\ Backend = "pkcs11" \/ (Backend = "aws" /\ Family # "aes") => Len(k.on) = 1
  BY Zenon, <1>1, KeyFits DEF Keeping
<1>. HIDE DEF k
<1>3. CASE Backend \in {"azure", "gcp"}
  <2>1. NamesVersion
    BY <1>3 DEF NamesVersion, Versioned, Keeping, Families, Asymmetric
  <2>2. s.ver # 0
    BY <1>1, <1>2, <2>1
  <2>3. CASE Backend = "azure"
    BY <2>1, <2>2, <2>3 DEF Version, Fixed
  <2>4. CASE Backend = "gcp"
    <3>1. Version(s) = Gcp!gcpPublicVersionName(s.ver, Current(s.key))
      BY <2>4 DEF Version
    <3>. QED
      BY <2>1, <2>2, <3>1 DEF Gcp!gcpPublicVersionName, Fixed
  <2>. QED
    BY <1>3, <2>3, <2>4
<1>4. CASE Backend \in {"aws", "pkcs11"}
  <2>1. Len(k.on) = 1
    BY <1>2, <1>4 DEF Versioned
  <2>2. k.prim = 1
    BY <1>2, <1>4, <2>1
  <2>3. Version(s) = k.prim
    BY <1>4 DEF Version, Current, k
  <2>4. NamesVersion => s.ver = 1
    <3>1. NamesVersion => s.ver \in 1..1
      BY <1>1, <1>2, <2>1
    <3>. QED
      BY <3>1
  <2>. QED
    BY <2>2, <2>3, <2>4 DEF Fixed
<1>. QED
  BY <1>3, <1>4 DEF Keeping, Backends, Remote

----------------------------------------------------------------------------
(* What the methods make of a reference, and of a public half.             *)

\* The artefact, or the empty string, that HMAC may make by itself.
HashValue(v) == v = NoDigest \/ \E t, m : v = Sealed("mac", t, m, <<>>)
Hashed(op, r) == op = "HMAC" /\ \E v : r = Give(v) /\ HashValue(v)

Works(op, a, r) ==
    /\ ByReference(a) => IF Able(op, a) THEN r = Plan(op, a) \/ Hashed(op, r) ELSE r = Fail \/ Hashed(op, r)
    /\ Nil(Raw(a)) => r = Fail \/ Hashed(op, r)

\* The public half of a key, and what a method makes of it.
IsHalf(t) == t.form = HalfForm /\ t.alg = Family /\ SizeFits(t.size)
OfHalf(op, a) ==
    CASE op = "RSA_OAEP_Encode" -> Give(Sealed("oaep", a.key, a.msg, <<>>))
      [] op = "ECDH_Encode" -> Give(Sealed("ecdh", a.key, a.msg, <<a.key.size>>))
      [] OTHER ->
           IF a.art.kind = KindFor(op) /\ a.art.key = a.key.key /\ a.art.ver = a.key.ver /\ a.art.msg = a.msg
           THEN Give(Verified) ELSE Fail
OnHalf(op, a, r) == IsHalf(a.key) /\ FamilyFor(op) = Family => r = OfHalf(op, a)

\* A text that names a key, in arguments that can be made a reference of it.
Nameable(a) ==
    /\ a.key # NoText /\ a.key.form \in {"ref", "id"}
    /\ Backend = "azure" => a.vault
    /\ Backend = "gcp" => a.configured.form = "ref"
    /\ Backend = "pkcs11" => a.key.form = "ref"
Begun(op, a, r) ==
    /\ op \in {"Sha256Hex", "Blake3"} => r = Give(Digest(a.msg))
    /\ op \in {"GetKey", "DeactivateKey"} /\ Nameable(a) => r # Fail
    /\ op = "GenerateECDHCurveKeys" /\ Family = "ecdh" /\ r.step = "ask" => SizeFits(Head(r.calls).size)

\* The forms of references.
LEMMA ReferenceForms ==
  ASSUME NEW a, Foreign(a)
  PROVE  /\ ByReference(a) => /\ a.key.form \notin {"pkix", "pkcs8", "aes", "kem"} /\ Raw(a) # NoText
                              /\ a.key # NoText => a.key.form = "ref"
                              /\ a.key = NoText => a.configured # NoText /\ a.configured.form = "ref"
         /\ Nil(Raw(a)) => a.key = NoText /\ a.configured = NoText
         /\ NoText.form = "none"
BY DEF ByReference, Raw, Nil, NoText, Text

\* The kinds of artefacts, and the families of keys, by method.
LEMMA KindsOf ==
  /\ KindFor("EncryptAES") = "aes" /\ KindFor("RSA_OAEP_Encode") = "oaep" /\ KindFor("ECDH_Encode") = "ecdh"
  /\ KindFor("SignEd25519") = "ed25519" /\ KindFor("SignRSAPSS") = "pss" /\ KindFor("Sign_RSA_PKCS1v15_SHA256") = "pkcs1v15"
  /\ KindFor("DecryptAES") = "aes" /\ KindFor("RSA_OAEP_Decode") = "oaep" /\ KindFor("ECDH_Decode") = "ecdh"
  /\ KindFor("VerifyEd25519") = "ed25519" /\ KindFor("VerifyRSAPSS") = "pss"
  /\ KindFor("Verify_RSA_PKCS1v15_SHA256") = "pkcs1v15" /\ KindFor("HMAC") = "mac"
BY DEF KindFor, Sealers, Sealer, KindOf

\* AWS KMS: what the methods that work with a key make of a reference.
LEMMA AwsWorks ==
  ASSUME NEW a, Foreign(a), Backend = "aws"
  PROVE  \A op \in Workers : Works(op, a, Aws!Method(op, a))
<1>1. /\ ByReference(a) => \A calls_, then : Aws!AskKey(a, calls_, then) = Ask(Raw(a), calls_, then)
      /\ Nil(Raw(a)) => \A calls_, then : Aws!AskKey(a, calls_, then) = Fail
  BY AwsVocabulary, ReferenceForms DEF ByReference, Raw, Nil,
      Aws!AskKey, Aws!resolveAWSKMSKeyID
<1>2. Bare(Raw(a)) = Raw(a)
  BY DEF Bare
<1>3. Aws!awsKMSEncryptionContext(a.uid, a.add) = Bind(a.uid, a.add)
  BY DEF Bind
<1>4. HashValue(NoDigest) /\ HashValue(Sealed("mac", a.key, a.msg, <<>>)) /\ Aws!Curves = Curves
  BY Zenon DEF HashValue, Curves, Aws!Curves
<1>5a. /\ ByReference(a) => /\ a.key.form \notin {"pkix", "pkcs8", "aes", "kem"} /\ Raw(a) # NoText
                            /\ a.key # NoText => a.key.form = "ref"
                            /\ a.key = NoText => a.configured # NoText /\ a.configured.form = "ref"
       /\ Nil(Raw(a)) => a.key = NoText /\ a.configured = NoText
       /\ NoText.form = "none"
  BY Zenon, ReferenceForms
<1>. USE Zenon, KindsOf, AwsVocabulary, <1>1, <1>2, <1>3, <1>4, <1>5a
<1>5. Works("EncryptAES", a, Aws!EncryptAES(a))
  BY DEF
      Works, Plan, Able, Hashed, Served, Raw, Nil, ByReference, Aws!EncryptAES, Aws!IsLocalAESKey
<1>6. Works("DecryptAES", a, Aws!DecryptAES(a))
  BY DEF
      Works, Plan, Able, Hashed, Served, Raw, Nil, ByReference, Aws!DecryptAES, Aws!IsLocalAESKey
<1>7. Works("HMAC", a, Aws!HMAC(a))
  BY DEF
      Works, Plan, Able, Hashed, Served, Raw, Nil, ByReference, Aws!HMAC,
      Aws!looksLikeAWSKMSKeyReference, Aws!Local!HMAC
<1>8. Works("ECDH_Encode", a, Aws!ECDH_Encode(a))
  BY DEF
      Works, Plan, Able, Hashed, Served, Raw, Nil, ByReference, PublicKey, Aws!ECDH_Encode,
      Aws!parseECDHPublicKey, Aws!ParsePKIX
<1>9. Works("ECDH_Decode", a, Aws!ECDH_Decode(a))
  BY DEF
      Works, Plan, Able, Hashed, Served, Raw, Nil, ByReference, Aws!ECDH_Decode,
      Aws!parseECDHPrivateKey, Aws!ParsePKCS8, Aws!DecodeECCCipherPayload
<1>10. Works("RSA_OAEP_Encode", a, Aws!RSA_OAEP_Encode(a))
  BY DEF
      Works, Plan, Able, Hashed, Served, Raw, Nil, ByReference, PublicKey, Aws!RSA_OAEP_Encode,
      Aws!ParseRSAPublicKeyFromBase64, Aws!ParsePKIX
<1>11. Works("RSA_OAEP_Decode", a, Aws!RSA_OAEP_Decode(a))
  BY DEF
      Works, Plan, Able, Hashed, Served, Raw, Nil, ByReference, Aws!RSA_OAEP_Decode,
      Aws!ParseRSAPrivateKeyFromBase64, Aws!ParsePKCS8
<1>12. Works("SignEd25519", a, Aws!SignEd25519(a))
  BY DEF
      Works, Plan, Able, Hashed, Served, Raw, Nil, ByReference, Aws!SignEd25519,
      Aws!ParseEd25519PrivateKeyFromBase64, Aws!ParsePKCS8
<1>13. Works("VerifyEd25519", a, Aws!VerifyEd25519(a))
  BY DEF
      Works, Plan, Able, Hashed, Served, Raw, Nil, ByReference, PublicKey, Aws!VerifyEd25519,
      Aws!ParseEd25519PublicKeyFromBase64, Aws!ParsePKIX
<1>14. Works("SignRSAPSS", a, Aws!SignRSAPSS(a))
  BY DEF
      Works, Plan, Able, Hashed, Served, Raw, Nil, ByReference, Aws!SignRSAPSS,
      Aws!ParseRSAPrivateKeyFromBase64, Aws!ParsePKCS8
<1>15. Works("VerifyRSAPSS", a, Aws!VerifyRSAPSS(a))
  BY DEF
      Works, Plan, Able, Hashed, Served, Raw, Nil, ByReference, PublicKey, Aws!VerifyRSAPSS,
      Aws!ParseRSAPublicKeyFromBase64, Aws!ParsePKIX
<1>16. Works("Sign_RSA_PKCS1v15_SHA256", a, Aws!Sign_RSA_PKCS1v15_SHA256(a))
  <2>1. ByReference(a) \/ Nil(Raw(a)) =>
          Aws!Sign_RSA_PKCS1v15_SHA256(a) = Aws!AskKey(a, <<Plain("Sign", "pkcs1v15")>>, "value")
    BY DEF ByReference, Nil, Raw, Aws!Sign_RSA_PKCS1v15_SHA256, Aws!looksLikeAWSKMSKeyReference
  <2>2. Plan("Sign_RSA_PKCS1v15_SHA256", a) = Ask(Raw(a), <<Plain("Sign", "pkcs1v15")>>, "value")
    BY DEF Plan, Served
  <2>3. Able("Sign_RSA_PKCS1v15_SHA256", a)
    BY DEF Able
  <2>. QED
    BY <2>1, <2>2, <2>3 DEF Works
<1>17. Works("Verify_RSA_PKCS1v15_SHA256", a, Aws!Verify_RSA_PKCS1v15_SHA256(a))
  <2>1. ByReference(a) \/ Nil(Raw(a)) =>
          Aws!Verify_RSA_PKCS1v15_SHA256(a) = Aws!AskKey(a, <<Plain("Verify", "pkcs1v15")>>, "value")
    BY DEF ByReference, Nil, Raw, Aws!Verify_RSA_PKCS1v15_SHA256, Aws!looksLikeAWSKMSKeyReference
  <2>2. Plan("Verify_RSA_PKCS1v15_SHA256", a) = Ask(Raw(a), <<Plain("Verify", "pkcs1v15")>>, "value")
    BY DEF Plan, Served
  <2>3. Able("Verify_RSA_PKCS1v15_SHA256", a)
    BY DEF Able
  <2>. QED
    BY <2>1, <2>2, <2>3 DEF Works
<1>. QED
  BY SMT, <1>5, <1>6, <1>7, <1>8, <1>9, <1>10, <1>11, <1>12, <1>13, <1>14, <1>15, <1>16, <1>17 DEF Workers, Sealers, Openers, Sealer, KindOf, Aws!Method

\* AWS KMS: what they make of the public half of a key.
LEMMA AwsHalves ==
  ASSUME NEW a, Foreign(a), Backend = "aws"
  PROVE  \A op \in TakesPublic : OnHalf(op, a, Aws!Method(op, a))
<1>1. \A v : Give(v) # Fail
  BY DEF Give, Fail
<1>2. OnHalf("RSA_OAEP_Encode", a, Aws!RSA_OAEP_Encode(a))
  BY <1>1, KindsOf, AwsVocabulary DEF
      OnHalf, IsHalf, OfHalf, FamilyFor, HalfForm, SizeFits, NoText, Text, Curves, Aws!RSA_OAEP_Encode,
      Aws!ParseRSAPublicKeyFromBase64, Aws!ParsePKIX, Aws!Local!RSA_OAEP_Encode,
      Aws!Local!ParseRSAPublicKeyFromBase64, Aws!Local!ParsePKIX
<1>3. OnHalf("ECDH_Encode", a, Aws!ECDH_Encode(a))
  BY <1>1, KindsOf, AwsVocabulary DEF
      OnHalf, IsHalf, OfHalf, FamilyFor, HalfForm, SizeFits, NoText, Text, Curves, Aws!ECDH_Encode,
      Aws!parseECDHPublicKey, Aws!ParsePKIX, Aws!Local!ECDH_Encode, Aws!Local!parseECDHPublicKey,
      Aws!Local!ParsePKIX, Aws!Local!CurveNameFromECDH, Aws!Local!Curves
<1>4. OnHalf("VerifyEd25519", a, Aws!VerifyEd25519(a))
  BY <1>1, KindsOf, AwsVocabulary DEF
      OnHalf, IsHalf, OfHalf, FamilyFor, HalfForm, SizeFits, NoText, Text, Curves, Aws!VerifyEd25519,
      Aws!ParseEd25519PublicKeyFromBase64, Aws!ParsePKIX, Aws!Local!VerifyEd25519,
      Aws!Local!ParseEd25519PublicKeyFromBase64, Aws!Local!ParsePKIX, Aws!Local!VerifyWith,
      Aws!Local!Opens
<1>5. OnHalf("VerifyRSAPSS", a, Aws!VerifyRSAPSS(a))
  BY <1>1, KindsOf, AwsVocabulary DEF
      OnHalf, IsHalf, OfHalf, FamilyFor, HalfForm, SizeFits, NoText, Text, Curves, Aws!VerifyRSAPSS,
      Aws!ParseRSAPublicKeyFromBase64, Aws!ParsePKIX, Aws!Local!VerifyRSAPSS,
      Aws!Local!ParseRSAPublicKeyFromBase64, Aws!Local!ParsePKIX, Aws!Local!VerifyWith, Aws!Local!Opens
<1>6. OnHalf("Verify_RSA_PKCS1v15_SHA256", a, Aws!Verify_RSA_PKCS1v15_SHA256(a))
  BY <1>1, KindsOf, AwsVocabulary DEF
      OnHalf, IsHalf, OfHalf, FamilyFor, HalfForm, SizeFits, NoText, Text, Curves,
      Aws!Verify_RSA_PKCS1v15_SHA256, Aws!ParseRSAPublicKeyFromBase64, Aws!ParsePKIX,
      Aws!looksLikeAWSKMSKeyReference, Aws!Local!Verify_RSA_PKCS1v15_SHA256,
      Aws!Local!ParseRSAPublicKeyFromBase64, Aws!Local!ParsePKIX, Aws!Local!VerifyWith, Aws!Local!Opens
<1>. QED
  BY <1>2, <1>3, <1>4, <1>5, <1>6 DEF TakesPublic, Aws!Method

\* AWS KMS: the methods that ask nothing, those that manage a key, and the size of a pair.
LEMMA AwsOthers ==
  ASSUME NEW a, Foreign(a), Backend = "aws"
  PROVE  \A op : Begun(op, a, Aws!Method(op, a))
<1>1. Aws!Sha256Hex(a) = Give(Digest(a.msg)) /\ Aws!Blake3(a) = Give(Digest(a.msg))
  BY AwsVocabulary DEF Aws!Sha256Hex, Aws!Blake3, Aws!Local!Sha256Hex, Aws!Local!Blake3
<1>2. Nameable(a) => \A calls_, then : Aws!AskKey(a, calls_, then) # Fail
  BY AwsVocabulary DEF Nameable, Raw, NoText, Text, Fail, Ask,
      Aws!AskKey, Aws!resolveAWSKMSKeyID
<1>3. Nameable(a) => Aws!GetKey(a) # Fail /\ Aws!DeactivateKey(a) # Fail
  BY Zenon, <1>2, AwsVocabulary DEF Aws!GetKey, Aws!DeactivateKey
<1>4. /\ Fail.step # "ask" /\ \A r, c, t : Ask(r, c, t).calls = c
      /\ \A alg, s, u : Create(alg, s, u).size = s
  BY DEF Fail, Ask, Create, Call
<1>5. Family = "ecdh" => \A s : s \in Aws!Curves => SizeFits(s)
  BY DEF SizeFits, Curves, Aws!Curves
<1>6. Family = "ecdh" /\ Aws!GenerateECDHCurveKeys(a).step = "ask" => SizeFits(Head(Aws!GenerateECDHCurveKeys(a).calls).size)
  BY Heads, AwsVocabulary, <1>4, <1>5 DEF
      Aws!GenerateECDHCurveKeys, Aws!GeneratePair, Aws!toAWSECCKeySpec
<1>. QED
  BY <1>1, <1>3, <1>6 DEF Begun, Aws!Method

\* Azure Key Vault: what the methods that work with a key make of a reference.
LEMMA AzureWorks ==
  ASSUME NEW a, Foreign(a), Backend = "azure"
  PROVE  \A op \in Workers : Works(op, a, Azure!Method(op, a))
<1>1. /\ ByReference(a) => \A calls_, then : Azure!AskKey(a, calls_, then) = Ask(Raw(a), calls_, then)
      /\ Nil(Raw(a)) => \A calls_, then : Azure!AskKey(a, calls_, then) = Fail
  BY AzureVocabulary, ReferenceForms DEF ByReference, Raw, Nil,
      Azure!AskKey, Azure!AskAbout, Azure!resolveAzureKeyReference
<1>2. Bare(Raw(a)) = Raw(a)
  BY DEF Bare
<1>3. Azure!azureAuthenticatedData(a.uid, a.add) = Bind(a.uid, a.add)
  BY DEF Bind
<1>4. HashValue(NoDigest) /\ HashValue(Sealed("mac", a.key, a.msg, <<>>)) /\ Azure!Curves = Curves
  BY Zenon DEF HashValue, Curves, Azure!Curves
<1>5a. /\ ByReference(a) => /\ a.key.form \notin {"pkix", "pkcs8", "aes", "kem"} /\ Raw(a) # NoText
                            /\ a.key # NoText => a.key.form = "ref"
                            /\ a.key = NoText => a.configured # NoText /\ a.configured.form = "ref"
       /\ Nil(Raw(a)) => a.key = NoText /\ a.configured = NoText
       /\ NoText.form = "none"
  BY Zenon, ReferenceForms
<1>. USE Zenon, KindsOf, AzureVocabulary, <1>1, <1>2, <1>3, <1>4, <1>5a
<1>5. Works("EncryptAES", a, Azure!EncryptAES(a))
  BY DEF
      Works, Plan, Able, Hashed, Served, Raw, Nil, ByReference, Azure!EncryptAES, Azure!IsLocalAESKey
<1>6. Works("DecryptAES", a, Azure!DecryptAES(a))
  BY DEF
      Works, Plan, Able, Hashed, Served, Raw, Nil, ByReference, Azure!DecryptAES, Azure!IsLocalAESKey
<1>7. Works("HMAC", a, Azure!HMAC(a))
  BY DEF
      Works, Plan, Able, Hashed, Served, Raw, Nil, ByReference, Azure!HMAC,
      Azure!looksLikeAzureKeyReference, Azure!Local!HMAC
<1>8. Works("ECDH_Encode", a, Azure!ECDH_Encode(a))
  BY DEF
      Works, Plan, Able, Hashed, Served, Raw, Nil, ByReference, PublicKey, Azure!ECDH_Encode,
      Azure!parseECDHPublicKey, Azure!ParsePKIX
<1>9. Works("ECDH_Decode", a, Azure!ECDH_Decode(a))
  BY DEF
      Works, Plan, Able, Hashed, Served, Raw, Nil, ByReference, Azure!ECDH_Decode,
      Azure!parseECDHPrivateKey, Azure!ParsePKCS8, Azure!DecodeECCCipherPayload,
      Azure!azureECJWKFromPublicKeyDER
<1>10. Works("RSA_OAEP_Encode", a, Azure!RSA_OAEP_Encode(a))
  BY DEF
      Works, Plan, Able, Hashed, Served, Raw, Nil, ByReference, PublicKey, Azure!RSA_OAEP_Encode,
      Azure!ParseRSAPublicKeyFromBase64, Azure!ParsePKIX
<1>11. Works("RSA_OAEP_Decode", a, Azure!RSA_OAEP_Decode(a))
  BY DEF
      Works, Plan, Able, Hashed, Served, Raw, Nil, ByReference, Azure!RSA_OAEP_Decode,
      Azure!ParseRSAPrivateKeyFromBase64, Azure!ParsePKCS8
<1>12. Works("SignEd25519", a, Azure!SignEd25519(a))
  BY DEF
      Works, Plan, Able, Hashed, Served, Raw, Nil, ByReference, Azure!SignEd25519,
      Azure!ParseEd25519PrivateKeyFromBase64, Azure!ParsePKCS8
<1>13. Works("VerifyEd25519", a, Azure!VerifyEd25519(a))
  BY DEF
      Works, Plan, Able, Hashed, Served, Raw, Nil, ByReference, PublicKey, Azure!VerifyEd25519,
      Azure!ParseEd25519PublicKeyFromBase64, Azure!ParsePKIX
<1>14. Works("SignRSAPSS", a, Azure!SignRSAPSS(a))
  BY DEF
      Works, Plan, Able, Hashed, Served, Raw, Nil, ByReference, Azure!SignRSAPSS,
      Azure!ParseRSAPrivateKeyFromBase64, Azure!ParsePKCS8
<1>15. Works("VerifyRSAPSS", a, Azure!VerifyRSAPSS(a))
  BY DEF
      Works, Plan, Able, Hashed, Served, Raw, Nil, ByReference, PublicKey, Azure!VerifyRSAPSS,
      Azure!ParseRSAPublicKeyFromBase64, Azure!ParsePKIX
<1>16. Works("Sign_RSA_PKCS1v15_SHA256", a, Azure!Sign_RSA_PKCS1v15_SHA256(a))
  BY DEF
      Works, Plan, Able, Hashed, Served, Raw, Nil, ByReference, Azure!Sign_RSA_PKCS1v15_SHA256,
      Azure!ParseRSAPrivateKeyFromBase64, Azure!ParsePKCS8, Azure!looksLikeAzureKeyReference
<1>17. Works("Verify_RSA_PKCS1v15_SHA256", a, Azure!Verify_RSA_PKCS1v15_SHA256(a))
  BY DEF
      Works, Plan, Able, Hashed, Served, Raw, Nil, ByReference, PublicKey,
      Azure!Verify_RSA_PKCS1v15_SHA256, Azure!ParseRSAPublicKeyFromBase64, Azure!ParsePKIX,
      Azure!looksLikeAzureKeyReference
<1>. QED
  BY SMT, <1>5, <1>6, <1>7, <1>8, <1>9, <1>10, <1>11, <1>12, <1>13, <1>14, <1>15, <1>16, <1>17 DEF Workers, Sealers, Openers, Sealer, KindOf, Azure!Method

\* Azure Key Vault: what they make of the public half of a key.
LEMMA AzureHalves ==
  ASSUME NEW a, Foreign(a), Backend = "azure"
  PROVE  \A op \in TakesPublic : OnHalf(op, a, Azure!Method(op, a))
<1>1. \A v : Give(v) # Fail
  BY DEF Give, Fail
<1>2. OnHalf("RSA_OAEP_Encode", a, Azure!RSA_OAEP_Encode(a))
  BY <1>1, KindsOf, AzureVocabulary DEF
      OnHalf, IsHalf, OfHalf, FamilyFor, HalfForm, SizeFits, NoText, Text, Curves,
      Azure!RSA_OAEP_Encode, Azure!ParseRSAPublicKeyFromBase64, Azure!ParsePKIX,
      Azure!Local!RSA_OAEP_Encode, Azure!Local!ParseRSAPublicKeyFromBase64, Azure!Local!ParsePKIX
<1>3. OnHalf("ECDH_Encode", a, Azure!ECDH_Encode(a))
  BY <1>1, KindsOf, AzureVocabulary DEF
      OnHalf, IsHalf, OfHalf, FamilyFor, HalfForm, SizeFits, NoText, Text, Curves, Azure!ECDH_Encode,
      Azure!parseECDHPublicKey, Azure!ParsePKIX, Azure!Local!ECDH_Encode,
      Azure!Local!parseECDHPublicKey, Azure!Local!ParsePKIX, Azure!Local!CurveNameFromECDH,
      Azure!Local!Curves
<1>4. OnHalf("VerifyEd25519", a, Azure!VerifyEd25519(a))
  BY <1>1, KindsOf, AzureVocabulary DEF
      OnHalf, IsHalf, OfHalf, FamilyFor, HalfForm, SizeFits, NoText, Text, Curves, Azure!VerifyEd25519,
      Azure!ParseEd25519PublicKeyFromBase64, Azure!ParsePKIX, Azure!Local!VerifyEd25519,
      Azure!Local!ParseEd25519PublicKeyFromBase64, Azure!Local!ParsePKIX, Azure!Local!VerifyWith,
      Azure!Local!Opens
<1>5. OnHalf("VerifyRSAPSS", a, Azure!VerifyRSAPSS(a))
  BY <1>1, KindsOf, AzureVocabulary DEF
      OnHalf, IsHalf, OfHalf, FamilyFor, HalfForm, SizeFits, NoText, Text, Curves, Azure!VerifyRSAPSS,
      Azure!ParseRSAPublicKeyFromBase64, Azure!ParsePKIX, Azure!Local!VerifyRSAPSS,
      Azure!Local!ParseRSAPublicKeyFromBase64, Azure!Local!ParsePKIX, Azure!Local!VerifyWith,
      Azure!Local!Opens
<1>6. OnHalf("Verify_RSA_PKCS1v15_SHA256", a, Azure!Verify_RSA_PKCS1v15_SHA256(a))
  BY <1>1, KindsOf, AzureVocabulary DEF
      OnHalf, IsHalf, OfHalf, FamilyFor, HalfForm, SizeFits, NoText, Text, Curves,
      Azure!Verify_RSA_PKCS1v15_SHA256, Azure!ParseRSAPublicKeyFromBase64, Azure!ParsePKIX,
      Azure!looksLikeAzureKeyReference, Azure!Local!Verify_RSA_PKCS1v15_SHA256,
      Azure!Local!ParseRSAPublicKeyFromBase64, Azure!Local!ParsePKIX, Azure!Local!VerifyWith,
      Azure!Local!Opens
<1>. QED
  BY <1>2, <1>3, <1>4, <1>5, <1>6 DEF TakesPublic, Azure!Method

\* Azure Key Vault: the methods that ask nothing, those that manage a key, and the size of a pair.
LEMMA AzureOthers ==
  ASSUME NEW a, Foreign(a), Backend = "azure"
  PROVE  \A op : Begun(op, a, Azure!Method(op, a))
<1>1. Azure!Sha256Hex(a) = Give(Digest(a.msg)) /\ Azure!Blake3(a) = Give(Digest(a.msg))
  BY AzureVocabulary DEF Azure!Sha256Hex, Azure!Blake3, Azure!Local!Sha256Hex, Azure!Local!Blake3
<1>2. Nameable(a) => \A calls_, then : Azure!AskLookup(a, calls_, then) # Fail
  BY AzureVocabulary DEF Nameable, Raw, NoText, Text, Fail, Ask,
      Azure!AskLookup, Azure!AskAbout, Azure!resolveAzureKeyLookupReference,
      Azure!resolveAzureKeyReference, Azure!resolveAzureVaultURL
<1>3. Nameable(a) => Azure!GetKey(a) # Fail /\ Azure!DeactivateKey(a) # Fail
  BY Zenon, <1>2, AzureVocabulary DEF Azure!GetKey, Azure!DeactivateKey
<1>4. /\ Fail.step # "ask" /\ \A r, c, t : Ask(r, c, t).calls = c
      /\ \A alg, s, u : Create(alg, s, u).size = s
  BY DEF Fail, Ask, Create, Call
<1>5. Family = "ecdh" => \A s : s \in Azure!Curves => SizeFits(s)
  BY DEF SizeFits, Curves, Azure!Curves
<1>6. Family = "ecdh" /\ Azure!GenerateECDHCurveKeys(a).step = "ask" => SizeFits(Head(Azure!GenerateECDHCurveKeys(a).calls).size)
  BY Heads, AzureVocabulary, <1>4, <1>5 DEF
      Azure!GenerateECDHCurveKeys, Azure!CreateIn, Azure!azureECDHCurveName
<1>. QED
  BY <1>1, <1>3, <1>6 DEF Begun, Azure!Method

\* GCP KMS: what the methods that work with a key make of a reference.
LEMMA GcpWorks ==
  ASSUME NEW a, Foreign(a), Backend = "gcp"
  PROVE  \A op \in Workers : Works(op, a, Gcp!Method(op, a))
<1>1. /\ ByReference(a) /\ Raw(a).ver # 0 => \A calls_, then : Gcp!AskVersion(a, calls_, then) = Ask(Raw(a), calls_, then)
      /\ Nil(Raw(a)) => \A calls_, then : Gcp!AskVersion(a, calls_, then) = Fail
      /\ ByReference(a) /\ Raw(a).ver = 0 => \A calls_, then : Gcp!AskVersion(a, calls_, then) = Fail
  BY GcpVocabulary, ReferenceForms DEF ByReference, Raw, Nil,
      Gcp!AskVersion, Gcp!AskAbout, Gcp!resolveGCPCryptoKeyVersionName, Gcp!rawKey
<1>2. /\ ByReference(a) => \A calls_, then : Gcp!AskKey(a, calls_, then) = Ask(Bare(Raw(a)), calls_, then)
      /\ Nil(Raw(a)) => \A calls_, then : Gcp!AskKey(a, calls_, then) = Fail
  BY GcpVocabulary, ReferenceForms DEF ByReference, Raw, Nil, Bare, Foreign, IsText, NoText, Text,
      Gcp!AskKey, Gcp!AskAbout, Gcp!resolveGCPCryptoKeyName, Gcp!rawKey
<1>3. Gcp!gcpAuthenticatedData(a.uid, a.add) = Bind(a.uid, a.add)
  BY DEF Bind
<1>4. HashValue(NoDigest) /\ HashValue(Sealed("mac", a.key, a.msg, <<>>)) /\ Gcp!Curves = Curves
  BY Zenon DEF HashValue, Curves, Gcp!Curves
<1>5a. /\ ByReference(a) => /\ a.key.form \notin {"pkix", "pkcs8", "aes", "kem"} /\ Raw(a) # NoText
                            /\ a.key # NoText => a.key.form = "ref"
                            /\ a.key = NoText => a.configured # NoText /\ a.configured.form = "ref"
       /\ Nil(Raw(a)) => a.key = NoText /\ a.configured = NoText
       /\ NoText.form = "none"
  BY Zenon, ReferenceForms
<1>. USE Zenon, KindsOf, GcpVocabulary, <1>1, <1>2, <1>3, <1>4, <1>5a
<1>5. Works("EncryptAES", a, Gcp!EncryptAES(a))
  BY DEF
      Works, Plan, Able, Hashed, Served, Raw, Nil, ByReference, Gcp!EncryptAES, Gcp!IsLocalAESKey
<1>6. Works("DecryptAES", a, Gcp!DecryptAES(a))
  BY DEF
      Works, Plan, Able, Hashed, Served, Raw, Nil, ByReference, Gcp!DecryptAES, Gcp!IsLocalAESKey
<1>7. Works("HMAC", a, Gcp!HMAC(a))
  BY DEF
      Works, Plan, Able, Hashed, Served, Raw, Nil, ByReference, Gcp!HMAC,
      Gcp!looksLikeGCPKMSKeyReference, Gcp!Local!HMAC
<1>8. Works("ECDH_Encode", a, Gcp!ECDH_Encode(a))
  BY DEF
      Works, Plan, Able, Hashed, Served, Raw, Nil, ByReference, PublicKey, Gcp!ECDH_Encode,
      Gcp!parseECDHPublicKey, Gcp!ParsePKIX, Gcp!encodeGCPKEMPayload, Gcp!fetchGCPKEMPublicKey
<1>9. Works("ECDH_Decode", a, Gcp!ECDH_Decode(a))
  BY DEF
      Works, Plan, Able, Hashed, Served, Raw, Nil, ByReference, Gcp!ECDH_Decode,
      Gcp!parseECDHPrivateKey, Gcp!ParsePKCS8, Gcp!DecodeECCCipherPayload
<1>10. Works("RSA_OAEP_Encode", a, Gcp!RSA_OAEP_Encode(a))
  BY DEF
      Works, Plan, Able, Hashed, Served, Raw, Nil, ByReference, PublicKey, Gcp!RSA_OAEP_Encode,
      Gcp!ParseRSAPublicKeyFromBase64, Gcp!ParsePKIX, Gcp!fetchGCPPublicKey
<1>11. Works("RSA_OAEP_Decode", a, Gcp!RSA_OAEP_Decode(a))
  BY DEF
      Works, Plan, Able, Hashed, Served, Raw, Nil, ByReference, Gcp!RSA_OAEP_Decode,
      Gcp!ParseRSAPrivateKeyFromBase64, Gcp!ParsePKCS8
<1>12. Works("SignEd25519", a, Gcp!SignEd25519(a))
  BY DEF
      Works, Plan, Able, Hashed, Served, Raw, Nil, ByReference, Gcp!SignEd25519,
      Gcp!ParseEd25519PrivateKeyFromBase64, Gcp!ParsePKCS8
<1>13. Works("VerifyEd25519", a, Gcp!VerifyEd25519(a))
  BY DEF
      Works, Plan, Able, Hashed, Served, Raw, Nil, ByReference, PublicKey, Gcp!VerifyEd25519,
      Gcp!ParseEd25519PublicKeyFromBase64, Gcp!ParsePKIX, Gcp!fetchGCPPublicKey
<1>14. Works("SignRSAPSS", a, Gcp!SignRSAPSS(a))
  BY DEF
      Works, Plan, Able, Hashed, Served, Raw, Nil, ByReference, Gcp!SignRSAPSS,
      Gcp!ParseRSAPrivateKeyFromBase64, Gcp!ParsePKCS8
<1>15. Works("VerifyRSAPSS", a, Gcp!VerifyRSAPSS(a))
  BY DEF
      Works, Plan, Able, Hashed, Served, Raw, Nil, ByReference, PublicKey, Gcp!VerifyRSAPSS,
      Gcp!ParseRSAPublicKeyFromBase64, Gcp!ParsePKIX, Gcp!fetchGCPPublicKey
<1>16. Works("Sign_RSA_PKCS1v15_SHA256", a, Gcp!Sign_RSA_PKCS1v15_SHA256(a))
  BY DEF
      Works, Plan, Able, Hashed, Served, Raw, Nil, ByReference, Gcp!Sign_RSA_PKCS1v15_SHA256,
      Gcp!ParseRSAPrivateKeyFromBase64, Gcp!ParsePKCS8, Gcp!looksLikeGCPKMSKeyReference
<1>17. Works("Verify_RSA_PKCS1v15_SHA256", a, Gcp!Verify_RSA_PKCS1v15_SHA256(a))
  BY DEF
      Works, Plan, Able, Hashed, Served, Raw, Nil, ByReference, PublicKey,
      Gcp!Verify_RSA_PKCS1v15_SHA256, Gcp!ParseRSAPublicKeyFromBase64, Gcp!ParsePKIX,
      Gcp!looksLikeGCPKMSKeyReference, Gcp!fetchGCPPublicKey
<1>. QED
  BY SMT, <1>5, <1>6, <1>7, <1>8, <1>9, <1>10, <1>11, <1>12, <1>13, <1>14, <1>15, <1>16, <1>17 DEF Workers, Sealers, Openers, Sealer, KindOf, Gcp!Method

\* GCP KMS: what they make of the public half of a key.
LEMMA GcpHalves ==
  ASSUME NEW a, Foreign(a), Backend = "gcp"
  PROVE  \A op \in TakesPublic : OnHalf(op, a, Gcp!Method(op, a))
<1>1. \A v : Give(v) # Fail
  BY DEF Give, Fail
<1>2. OnHalf("RSA_OAEP_Encode", a, Gcp!RSA_OAEP_Encode(a))
  BY <1>1, KindsOf, GcpVocabulary DEF
      OnHalf, IsHalf, OfHalf, FamilyFor, HalfForm, SizeFits, NoText, Text, Curves, Gcp!RSA_OAEP_Encode,
      Gcp!ParseRSAPublicKeyFromBase64, Gcp!ParsePKIX, Gcp!fetchGCPPublicKey, Gcp!Local!RSA_OAEP_Encode,
      Gcp!Local!ParseRSAPublicKeyFromBase64, Gcp!Local!ParsePKIX
<1>3. OnHalf("ECDH_Encode", a, Gcp!ECDH_Encode(a))
  BY <1>1, KindsOf, GcpVocabulary DEF
      OnHalf, IsHalf, OfHalf, FamilyFor, HalfForm, SizeFits, NoText, Text, Curves, Gcp!ECDH_Encode,
      Gcp!parseECDHPublicKey, Gcp!ParsePKIX, Gcp!encodeGCPKEMPayload, Gcp!fetchGCPKEMPublicKey,
      Gcp!Local!ECDH_Encode, Gcp!Local!parseECDHPublicKey, Gcp!Local!ParsePKIX,
      Gcp!Local!CurveNameFromECDH, Gcp!Local!Curves, Gcp!gcpKEMAlgorithmName
<1>4. OnHalf("VerifyEd25519", a, Gcp!VerifyEd25519(a))
  BY <1>1, KindsOf, GcpVocabulary DEF
      OnHalf, IsHalf, OfHalf, FamilyFor, HalfForm, SizeFits, NoText, Text, Curves, Gcp!VerifyEd25519,
      Gcp!ParseEd25519PublicKeyFromBase64, Gcp!ParsePKIX, Gcp!fetchGCPPublicKey,
      Gcp!Local!VerifyEd25519, Gcp!Local!ParseEd25519PublicKeyFromBase64, Gcp!Local!ParsePKIX,
      Gcp!Local!VerifyWith, Gcp!Local!Opens
<1>5. OnHalf("VerifyRSAPSS", a, Gcp!VerifyRSAPSS(a))
  BY <1>1, KindsOf, GcpVocabulary DEF
      OnHalf, IsHalf, OfHalf, FamilyFor, HalfForm, SizeFits, NoText, Text, Curves, Gcp!VerifyRSAPSS,
      Gcp!ParseRSAPublicKeyFromBase64, Gcp!ParsePKIX, Gcp!fetchGCPPublicKey, Gcp!Local!VerifyRSAPSS,
      Gcp!Local!ParseRSAPublicKeyFromBase64, Gcp!Local!ParsePKIX, Gcp!Local!VerifyWith, Gcp!Local!Opens
<1>6. OnHalf("Verify_RSA_PKCS1v15_SHA256", a, Gcp!Verify_RSA_PKCS1v15_SHA256(a))
  BY <1>1, KindsOf, GcpVocabulary DEF
      OnHalf, IsHalf, OfHalf, FamilyFor, HalfForm, SizeFits, NoText, Text, Curves,
      Gcp!Verify_RSA_PKCS1v15_SHA256, Gcp!ParseRSAPublicKeyFromBase64, Gcp!ParsePKIX,
      Gcp!looksLikeGCPKMSKeyReference, Gcp!fetchGCPPublicKey, Gcp!Local!Verify_RSA_PKCS1v15_SHA256,
      Gcp!Local!ParseRSAPublicKeyFromBase64, Gcp!Local!ParsePKIX, Gcp!Local!VerifyWith, Gcp!Local!Opens
<1>. QED
  BY <1>2, <1>3, <1>4, <1>5, <1>6 DEF TakesPublic, Gcp!Method

\* GCP KMS: the methods that ask nothing, those that manage a key, and the size of a pair.
LEMMA GcpOthers ==
  ASSUME NEW a, Foreign(a), Backend = "gcp"
  PROVE  \A op : Begun(op, a, Gcp!Method(op, a))
<1>1. Gcp!Sha256Hex(a) = Give(Digest(a.msg)) /\ Gcp!Blake3(a) = Give(Digest(a.msg))
  BY GcpVocabulary DEF Gcp!Sha256Hex, Gcp!Blake3, Gcp!Local!Sha256Hex, Gcp!Local!Blake3
<1>2. Nameable(a) => \A calls_, then : Gcp!AskLookup(a, calls_, then) # Fail
  BY GcpVocabulary DEF Nameable, Raw, NoText, Text, Fail, Ask,
      Gcp!AskLookup, Gcp!AskAbout, Gcp!resolveGCPKeyLookupNames, Gcp!resolveGCPKeyRingName, Gcp!rawKey
<1>3. Nameable(a) => Gcp!GetKey(a) # Fail /\ Gcp!DeactivateKey(a) # Fail
  BY Zenon, <1>2, GcpVocabulary DEF Gcp!GetKey, Gcp!DeactivateKey
<1>4. /\ Fail.step # "ask" /\ \A r, c, t : Ask(r, c, t).calls = c
      /\ \A alg, s, u : Create(alg, s, u).size = s
  BY DEF Fail, Ask, Create, Call
<1>5. Family = "ecdh" => \A s : Gcp!gcpKEMAlgorithm(s) # 0 => SizeFits(Gcp!gcpKEMAlgorithm(s))
  BY DEF SizeFits, Curves, Gcp!gcpKEMAlgorithm
<1>6. Family = "ecdh" /\ Gcp!GenerateECDHCurveKeys(a).step = "ask" => SizeFits(Head(Gcp!GenerateECDHCurveKeys(a).calls).size)
  BY Heads, GcpVocabulary, <1>4, <1>5 DEF
      Gcp!GenerateECDHCurveKeys, Gcp!GeneratePair
<1>. QED
  BY <1>1, <1>3, <1>6 DEF Begun, Gcp!Method

\* PKCS#11: what the methods that work with a key make of a reference.
LEMMA TokenWorks ==
  ASSUME NEW a, Foreign(a), Backend = "pkcs11"
  PROVE  \A op \in Workers : Works(op, a, Token!Method(op, a))
<1>1. /\ ByReference(a) => \A calls_, then : Token!AskKey(a, calls_, then) = Ask(Raw(a), calls_, then)
      /\ Nil(Raw(a)) => \A calls_, then : Token!AskKey(a, calls_, then) = Fail
  BY TokenVocabulary, ReferenceForms DEF ByReference, Raw, Nil,
      Token!AskKey, Token!resolveKeyURI, Token!parseKeyURI, Token!isKeyURI
<1>2. Bare(Raw(a)) = Raw(a)
  BY DEF Bare
<1>3. Token!BytesFromOptionalString(a.add) = Bind(a.uid, a.add)
  BY DEF Bind, Token!BytesFromOptionalString, BytesFromOptionalString
<1>4. HashValue(NoDigest) /\ HashValue(Sealed("mac", a.key, a.msg, <<>>)) /\ Token!Curves = Curves
  BY Zenon DEF HashValue, Curves, Token!Curves
<1>5a. /\ ByReference(a) => /\ a.key.form \notin {"pkix", "pkcs8", "aes", "kem"} /\ Raw(a) # NoText
                            /\ a.key # NoText => a.key.form = "ref"
                            /\ a.key = NoText => a.configured # NoText /\ a.configured.form = "ref"
       /\ Nil(Raw(a)) => a.key = NoText /\ a.configured = NoText
       /\ NoText.form = "none"
  BY Zenon, ReferenceForms
<1>. USE Zenon, KindsOf, TokenVocabulary, <1>1, <1>2, <1>3, <1>4, <1>5a
<1>5. Works("EncryptAES", a, Token!EncryptAES(a))
  BY DEF
      Works, Plan, Able, Hashed, Served, Raw, Nil, ByReference, Token!EncryptAES, Token!IsLocalAESKey
<1>6. Works("DecryptAES", a, Token!DecryptAES(a))
  BY DEF
      Works, Plan, Able, Hashed, Served, Raw, Nil, ByReference, Token!DecryptAES, Token!IsLocalAESKey
<1>7. Works("HMAC", a, Token!HMAC(a))
  BY DEF
      Works, Plan, Able, Hashed, Served, Raw, Nil, ByReference, Token!HMAC, Token!isKeyURI,
      Token!Local!HMAC
<1>8. Works("ECDH_Encode", a, Token!ECDH_Encode(a))
  BY DEF
      Works, Plan, Able, Hashed, Served, Raw, Nil, ByReference, PublicKey, Token!ECDH_Encode,
      Token!parseECDHPublicKey, Token!ParsePKIX, Token!fetchPublicKey
<1>9. Works("ECDH_Decode", a, Token!ECDH_Decode(a))
  BY DEF
      Works, Plan, Able, Hashed, Served, Raw, Nil, ByReference, Token!ECDH_Decode,
      Token!parseECDHPrivateKey, Token!ParsePKCS8, Token!DecodeECCCipherPayload, Token!ecdhPeerPoint
<1>10. Works("RSA_OAEP_Encode", a, Token!RSA_OAEP_Encode(a))
  BY DEF
      Works, Plan, Able, Hashed, Served, Raw, Nil, ByReference, PublicKey, Token!RSA_OAEP_Encode,
      Token!ParseRSAPublicKeyFromBase64, Token!ParsePKIX, Token!fetchPublicKey
<1>11. Works("RSA_OAEP_Decode", a, Token!RSA_OAEP_Decode(a))
  BY DEF
      Works, Plan, Able, Hashed, Served, Raw, Nil, ByReference, Token!RSA_OAEP_Decode,
      Token!ParseRSAPrivateKeyFromBase64, Token!ParsePKCS8
<1>12. Works("SignEd25519", a, Token!SignEd25519(a))
  BY DEF
      Works, Plan, Able, Hashed, Served, Raw, Nil, ByReference, Token!SignEd25519,
      Token!ParseEd25519PrivateKeyFromBase64, Token!ParsePKCS8, Token!signWithToken
<1>13. Works("VerifyEd25519", a, Token!VerifyEd25519(a))
  BY DEF
      Works, Plan, Able, Hashed, Served, Raw, Nil, ByReference, PublicKey, Token!VerifyEd25519,
      Token!ParseEd25519PublicKeyFromBase64, Token!ParsePKIX, Token!fetchVerificationKey,
      Token!fetchPublicKey
<1>14. Works("SignRSAPSS", a, Token!SignRSAPSS(a))
  BY DEF
      Works, Plan, Able, Hashed, Served, Raw, Nil, ByReference, Token!SignRSAPSS,
      Token!ParseRSAPrivateKeyFromBase64, Token!ParsePKCS8, Token!signWithToken
<1>15. Works("VerifyRSAPSS", a, Token!VerifyRSAPSS(a))
  BY DEF
      Works, Plan, Able, Hashed, Served, Raw, Nil, ByReference, PublicKey, Token!VerifyRSAPSS,
      Token!ParseRSAPublicKeyFromBase64, Token!ParsePKIX, Token!fetchVerificationKey,
      Token!fetchPublicKey
<1>16. Works("Sign_RSA_PKCS1v15_SHA256", a, Token!Sign_RSA_PKCS1v15_SHA256(a))
  BY DEF
      Works, Plan, Able, Hashed, Served, Raw, Nil, ByReference, Token!Sign_RSA_PKCS1v15_SHA256,
      Token!ParseRSAPrivateKeyFromBase64, Token!ParsePKCS8, Token!isKeyURI, Token!signWithToken
<1>17. Works("Verify_RSA_PKCS1v15_SHA256", a, Token!Verify_RSA_PKCS1v15_SHA256(a))
  BY DEF
      Works, Plan, Able, Hashed, Served, Raw, Nil, ByReference, PublicKey,
      Token!Verify_RSA_PKCS1v15_SHA256, Token!ParseRSAPublicKeyFromBase64, Token!ParsePKIX,
      Token!isKeyURI, Token!fetchVerificationKey, Token!fetchPublicKey
<1>. QED
  BY SMT, <1>5, <1>6, <1>7, <1>8, <1>9, <1>10, <1>11, <1>12, <1>13, <1>14, <1>15, <1>16, <1>17 DEF Workers, Sealers, Openers, Sealer, KindOf, Token!Method

\* PKCS#11: what they make of the public half of a key.
LEMMA TokenHalves ==
  ASSUME NEW a, Foreign(a), Backend = "pkcs11"
  PROVE  \A op \in TakesPublic : OnHalf(op, a, Token!Method(op, a))
<1>1. \A v : Give(v) # Fail
  BY DEF Give, Fail
<1>2. OnHalf("RSA_OAEP_Encode", a, Token!RSA_OAEP_Encode(a))
  BY <1>1, KindsOf, TokenVocabulary DEF
      OnHalf, IsHalf, OfHalf, FamilyFor, HalfForm, SizeFits, NoText, Text, Curves,
      Token!RSA_OAEP_Encode, Token!ParseRSAPublicKeyFromBase64, Token!ParsePKIX, Token!fetchPublicKey,
      Token!Local!RSA_OAEP_Encode, Token!Local!ParseRSAPublicKeyFromBase64, Token!Local!ParsePKIX
<1>3. OnHalf("ECDH_Encode", a, Token!ECDH_Encode(a))
  BY <1>1, KindsOf, TokenVocabulary DEF
      OnHalf, IsHalf, OfHalf, FamilyFor, HalfForm, SizeFits, NoText, Text, Curves, Token!ECDH_Encode,
      Token!parseECDHPublicKey, Token!ParsePKIX, Token!fetchPublicKey, Token!Local!ECDH_Encode,
      Token!Local!parseECDHPublicKey, Token!Local!ParsePKIX, Token!Local!CurveNameFromECDH,
      Token!Local!Curves
<1>4. OnHalf("VerifyEd25519", a, Token!VerifyEd25519(a))
  BY <1>1, KindsOf, TokenVocabulary DEF
      OnHalf, IsHalf, OfHalf, FamilyFor, HalfForm, SizeFits, NoText, Text, Curves, Token!VerifyEd25519,
      Token!ParseEd25519PublicKeyFromBase64, Token!ParsePKIX, Token!fetchVerificationKey,
      Token!fetchPublicKey, Token!Local!VerifyEd25519, Token!Local!ParseEd25519PublicKeyFromBase64,
      Token!Local!ParsePKIX, Token!Local!VerifyWith, Token!Local!Opens
<1>5. OnHalf("VerifyRSAPSS", a, Token!VerifyRSAPSS(a))
  BY <1>1, KindsOf, TokenVocabulary DEF
      OnHalf, IsHalf, OfHalf, FamilyFor, HalfForm, SizeFits, NoText, Text, Curves, Token!VerifyRSAPSS,
      Token!ParseRSAPublicKeyFromBase64, Token!ParsePKIX, Token!fetchVerificationKey,
      Token!fetchPublicKey, Token!Local!VerifyRSAPSS, Token!Local!ParseRSAPublicKeyFromBase64,
      Token!Local!ParsePKIX, Token!Local!VerifyWith, Token!Local!Opens
<1>6. OnHalf("Verify_RSA_PKCS1v15_SHA256", a, Token!Verify_RSA_PKCS1v15_SHA256(a))
  BY <1>1, KindsOf, TokenVocabulary DEF
      OnHalf, IsHalf, OfHalf, FamilyFor, HalfForm, SizeFits, NoText, Text, Curves,
      Token!Verify_RSA_PKCS1v15_SHA256, Token!ParseRSAPublicKeyFromBase64, Token!ParsePKIX,
      Token!isKeyURI, Token!fetchVerificationKey, Token!fetchPublicKey,
      Token!Local!Verify_RSA_PKCS1v15_SHA256, Token!Local!ParseRSAPublicKeyFromBase64,
      Token!Local!ParsePKIX, Token!Local!VerifyWith, Token!Local!Opens
<1>. QED
  BY <1>2, <1>3, <1>4, <1>5, <1>6 DEF TakesPublic, Token!Method

\* PKCS#11: the methods that ask nothing, those that manage a key, and the size of a pair.
LEMMA TokenOthers ==
  ASSUME NEW a, Foreign(a), Backend = "pkcs11"
  PROVE  \A op : Begun(op, a, Token!Method(op, a))
<1>1. Token!Sha256Hex(a) = Give(Digest(a.msg)) /\ Token!Blake3(a) = Give(Digest(a.msg))
  BY TokenVocabulary DEF Token!Sha256Hex, Token!Blake3, Token!Local!Sha256Hex, Token!Local!Blake3
<1>2. Nameable(a) => \A calls_, then : Token!AskKey(a, calls_, then) # Fail
  BY TokenVocabulary DEF Nameable, Raw, NoText, Text, Fail, Ask,
      Token!AskKey, Token!resolveKeyURI, Token!parseKeyURI, Token!isKeyURI
<1>3. Nameable(a) => Token!GetKey(a) # Fail /\ Token!DeactivateKey(a) # Fail
  BY Zenon, <1>2, TokenVocabulary DEF Token!GetKey, Token!DeactivateKey
<1>4. /\ Fail.step # "ask" /\ \A r, c, t : Ask(r, c, t).calls = c
      /\ \A alg, s, u : Create(alg, s, u).size = s
  BY DEF Fail, Ask, Create, Call
<1>5. Family = "ecdh" => \A s : s \in Token!Curves => SizeFits(s)
  BY DEF SizeFits, Curves, Token!Curves
<1>6. Family = "ecdh" /\ Token!GenerateECDHCurveKeys(a).step = "ask" => SizeFits(Head(Token!GenerateECDHCurveKeys(a).calls).size)
  BY Heads, TokenVocabulary, <1>4, <1>5 DEF
      Token!GenerateECDHCurveKeys, Token!GeneratePair, Token!ecParamsForCurve
<1>. QED
  BY <1>1, <1>3, <1>6 DEF Begun, Token!Method

----------------------------------------------------------------------------
(* How a method ends, with what was promised of it.                        *)

\* The methods of the services, and what they do with references and halves.
LEMMA ServiceMethods ==
  ASSUME NEW a, Foreign(a), Backend \in Backends, Remote
  PROVE  /\ \A op \in Workers : Works(op, a, Method(op, a))
         /\ \A op \in TakesPublic : OnHalf(op, a, Method(op, a))
         /\ \A op : Begun(op, a, Method(op, a))
<1>1. CASE Backend = "aws"
  BY Zenon, <1>1, AwsWorks, AwsHalves, AwsOthers DEF Method
<1>2. CASE Backend = "azure"
  <2>1. \A op : Method(op, a) = Azure!Method(op, a)
    BY <1>2 DEF Method
  <2>. QED
    BY Zenon, <1>2, <2>1, AzureWorks, AzureHalves, AzureOthers
<1>3. CASE Backend = "gcp"
  <2>1. \A op : Method(op, a) = Gcp!Method(op, a)
    BY <1>3 DEF Method
  <2>. QED
    BY Zenon, <1>3, <2>1, GcpWorks, GcpHalves, GcpOthers
<1>4. CASE Backend = "pkcs11"
  <2>1. \A op : Method(op, a) = Token!Method(op, a)
    BY <1>4 DEF Method
  <2>. QED
    BY Zenon, <1>4, <2>1, TokenWorks, TokenHalves, TokenOthers
<1>. QED
  BY <1>1, <1>2, <1>3, <1>4 DEF Backends, Remote

\* The same call, with the same arguments.
Alike(j, n) == n.op = j.op /\ n.a = j.a /\ n.with = j.with /\ n.from = j.from

\* Such a call was given the same, and as much is promised of it.
LEMMA AlikeHad ==
  ASSUME NEW j, NEW n, Alike(j, n)
  PROVE  /\ \A st : Had(st, j) => Had(st, n)
         /\ (Manageable(n) <=> Manageable(j)) /\ (Sealable(n) <=> Sealable(j)) /\ (Openable(n) <=> Openable(j))
         /\ Watched(n) <=> Watched(j)
<1>1. \A st : Had(st, j) => Had(st, n)
  BY DEF Alike, Had
<1>2. (Manageable(n) <=> Manageable(j)) /\ (Sealable(n) <=> Sealable(j))
  BY DEF Alike, Manageable, Sealable
<1>3. Openable(n) <=> Openable(j)
  BY DEF Alike, Openable, EmptyInHardware, NoWayToDerive, NoPublicHalf
<1>. QED
  BY Zenon, <1>1, <1>2, <1>3 DEF Watched

\* The shapes of what methods return.
LEMMA Domains ==
  /\ DOMAIN NoDigest # DOMAIN NoData /\ DOMAIN NoDigest # DOMAIN NoArt.art
  /\ DOMAIN Verified # DOMAIN NoData /\ DOMAIN Verified # DOMAIN NoArt.art
  /\ \A m : /\ DOMAIN Message(m) # DOMAIN NoData /\ DOMAIN Message(m) # DOMAIN NoArt.art
            /\ DOMAIN Digest(m) # DOMAIN NoData /\ DOMAIN Digest(m) # DOMAIN NoArt.art
  /\ \A x, y, z : DOMAIN KeyData(x, y, z) # DOMAIN NoArt.art
  /\ \A k, t, m, b : DOMAIN Sealed(k, t, m, b) # DOMAIN NoData
<1>1. /\ DOMAIN NoData = {"id", "ref", "pub"} /\ DOMAIN NoArt.art = {"kind", "key", "ver", "size", "msg", "bind"}
      /\ \A x, y, z : DOMAIN KeyData(x, y, z) = {"id", "ref", "pub"}
      /\ \A k, t, m, b : DOMAIN Sealed(k, t, m, b) = {"kind", "key", "ver", "size", "msg", "bind"}
  BY DEF NoData, NoArt, KeyData, Sealed
<1>2. /\ DOMAIN NoDigest = {"digest"} /\ DOMAIN Verified = {"verified"}
      /\ \A m : DOMAIN Message(m) = {"msg"} /\ DOMAIN Digest(m) = {"digest"}
  BY DEF NoDigest, Verified, Message, Digest
<1>3. /\ {"digest"} # {"id", "ref", "pub"} /\ {"digest"} # {"kind", "key", "ver", "size", "msg", "bind"}
      /\ {"verified"} # {"id", "ref", "pub"} /\ {"verified"} # {"kind", "key", "ver", "size", "msg", "bind"}
      /\ {"msg"} # {"id", "ref", "pub"} /\ {"msg"} # {"kind", "key", "ver", "size", "msg", "bind"}
      /\ {"id", "ref", "pub"} # {"kind", "key", "ver", "size", "msg", "bind"}
  OBVIOUS
<1>. QED
  BY <1>1, <1>2, <1>3

\* What a method may give without breaking a promise.
Promised(st, j, v) ==
    /\ DOMAIN v = DOMAIN NoData => DataFits(st, v)
    /\ DOMAIN v = DOMAIN NoArt.art => ArtFits(st, v, j.with)
    /\ Openable(j) => v \in {Message(j.from.art.msg), Verified}

\* A method that ends with a promised result,
LEMMA GivenServes ==
  ASSUME NEW st, NEW j, Had(st, j), NEW v, Promised(st, j, v), NEW k, IsJob(k), Alike(j, k), NEW r, r = Give(v), NEW why
  PROVE  JobServes(st, Returned(k, r, why))
<1>. DEFINE n == Returned(k, r, why)
<1>1. n.st = "returned" /\ Alike(j, n) /\ n.ok /\ n.val = v
  BY ReturnedJob DEF Alike, Give
<1>. HIDE DEF n
<1>2. Had(st, n)
  BY Zenon, <1>1, AlikeHad
<1>3. n.with = j.with /\ n.from = j.from
  BY Zenon, <1>1 DEF Alike
<1>4. Openable(n) => Openable(j)
  BY Zenon, <1>1, AlikeHad
<1>5. Serves(n)
  BY <1>1, <1>3, <1>4 DEF Serves, Promised, Fair, Recovers
<1>6. Done(st, n)
  BY Zenon, <1>1, <1>3, <1>5 DEF Done, Promised
<1>. QED
  BY <1>1, <1>2, <1>6 DEF JobServes, n

\* ... and one that ends with an error that its caller may see.
LEMMA FailServes ==
  ASSUME NEW st, NEW j, Had(st, j), NEW k, IsJob(k), Alike(j, k), NEW why,
         why \in Blameless \/ ~Watched(j) \/ j.op \in Hashes
  PROVE  JobServes(st, Returned(k, Fail, why))
<1>. DEFINE n == Returned(k, Fail, why)
<1>0. Fail.step # "give"
  BY DEF Fail
<1>1. /\ n.st = "returned" /\ Alike(j, n) /\ n.why = why /\ (n.ok <=> j.op \in Hashes)
      /\ j.op \in Hashes => n.val = NoDigest
  BY <1>0, ReturnedJob DEF Alike
<1>. HIDE DEF n
<1>2. Had(st, n)
  BY Zenon, <1>1, AlikeHad
<1>3. (Manageable(n) \/ Sealable(n) \/ Openable(n)) => Watched(j)
  BY Zenon, <1>1, AlikeHad DEF Watched
<1>4. j.op \in Hashes => ~Openable(n)
  BY <1>1 DEF Openable, Openers, Hashes, KindOf, Alike
<1>5. Serves(n)
  BY Zenon, <1>1, <1>3, <1>4 DEF Serves, Fair, Recovers
<1>6. Done(st, n)
  BY Zenon, <1>1, <1>5, Domains DEF Done
<1>. QED
  BY <1>1, <1>2, <1>6 DEF JobServes, n

----------------------------------------------------------------------------
(* Where an answer leaves a call, and what was promised of it.             *)

\* A call under way: the call goes on, knowing reg of its key; what it ends with.
Goes(j, n, reg, todo)    == n.st = "calling" /\ Alike(j, n) /\ n.plan = j.plan /\ n.reg = reg /\ n.todo = todo
Knowing(j, reg)          == [j EXCEPT !.reg = reg]
Last(j, val)             == Step(Conclude(j, val))
Ends(j, n, val)          == n = Returned(j, Last(j, val), IF Last(j, val) = Fail THEN "mismatch" ELSE "none")
Needed(call, reg)        == Nil(reg) \/ reg.alg \in call.need
Serving(j)               ==
    /\ Due(j) /\ KeysFit(store) /\ Had(store, j) /\ Under(store, j)
    /\ Nil(env.configured) \/ Refers(store, env.configured)

\* A call that knows more of its key is the same call.
LEMMA KnowingJob ==
  ASSUME NEW j, IsJob(j), j.st = "calling", NEW reg, NEW k, k = Knowing(j, reg)
  PROVE  IsJob(k) /\ Alike(j, k) /\ k.plan = j.plan /\ k.reg = reg /\ k.st = "calling" /\ k.a = j.a /\ k.op = j.op
<1>. QED
  BY DEF IsJob, Alike, Knowing

\* After an answer that is granted.
LEMMA AfterGranted ==
  ASSUME NEW j, IsJob(j), j.st = "calling", NEW ans, ans.ok, Head(j.todo).do # "DisablePrevious",
         NEW rest, rest = Remaining(Tail(j.todo), ans.reg), NEW n, n = After(j, ans)
  PROVE  \/ ~Needed(Head(j.todo), ans.reg) /\ n = Returned(j, Fail, "mismatch")
         \/ Needed(Head(j.todo), ans.reg) /\ rest # << >> /\ Goes(j, n, ans.reg, rest)
         \/ Needed(Head(j.todo), ans.reg) /\ rest = << >> /\ Ends(Knowing(j, ans.reg), n, ans.val)
<1>. DEFINE k == Knowing(j, ans.reg)
<1>1. /\ [j EXCEPT !.reg = ans.reg] = k
      /\ k.reg = ans.reg
  BY KnowingJob DEF Knowing
<1>. HIDE DEF k
<1>2. \/ ~Needed(Head(j.todo), ans.reg) /\ n = Returned(j, Fail, "mismatch")
      \/ Needed(Head(j.todo), ans.reg) /\ rest # << >> /\ n = [k EXCEPT !.todo = rest]
      \/ Needed(Head(j.todo), ans.reg) /\ rest = << >> /\ Ends(k, n, ans.val)
  BY <1>1 DEF After, Needed, Nil, Ends, Last
<1>3. ASSUME n = [k EXCEPT !.todo = rest] PROVE Goes(j, n, ans.reg, rest)
  <2>1. IsJob(k) /\ Alike(j, k) /\ k.plan = j.plan /\ k.reg = ans.reg /\ k.st = "calling"
    BY KnowingJob DEF k
  <2>. QED
    BY <1>3, <2>1 DEF Goes, IsJob, Alike
<1>. QED
  BY Zenon, <1>2, <1>3 DEF k

\* After a refusal: the method ends, goes on without the answer, or takes the other way.
LEMMA AfterRefused ==
  ASSUME NEW j, IsJob(j), j.st = "calling", NEW why, NEW n, n = After(j, Refused(why))
  PROVE  /\ Head(j.todo).else = "fail" => n = Returned(j, Fail, why)
         /\ Head(j.todo).else \notin {"fail", "skip"}
               => Goes(j, n, j.reg, <<Plain(Head(j.todo).else, Head(j.todo).kind)>>)
         /\ Head(j.todo).else = "skip" /\ Head(j.todo).do # "DisablePrevious" /\ Tail(j.todo) = << >>
               => Ends(Knowing(j, [j.reg EXCEPT !.form = "bare"]), n, NoDigest)
<1>1. ~Refused(why).ok /\ Refused(why).why = why /\ Refused(why).val = NoDigest
  BY RefusedFields
<1>2. ASSUME Head(j.todo).else = "fail" PROVE n = Returned(j, Fail, why)
  BY <1>1, <1>2 DEF After
<1>3. ASSUME Head(j.todo).else \notin {"fail", "skip"}
      PROVE  Goes(j, n, j.reg, <<Plain(Head(j.todo).else, Head(j.todo).kind)>>)
  <2>. DEFINE p == <<Plain(Head(j.todo).else, Head(j.todo).kind)>>
  <2>1. n = [j EXCEPT !.todo = p]
    BY <1>1, <1>3 DEF After
  <2>. HIDE DEF p
  <2>2. Goes(j, n, j.reg, p)
    BY <2>1 DEF Goes, IsJob, Alike
  <2>. QED
    BY Zenon, <2>2 DEF p
<1>4. ASSUME Head(j.todo).else = "skip", Head(j.todo).do # "DisablePrevious", Tail(j.todo) = << >>
      PROVE  Ends(Knowing(j, [j.reg EXCEPT !.form = "bare"]), n, NoDigest)
  <2>. DEFINE bare == [j.reg EXCEPT !.form = "bare"]
              k == Knowing(j, bare)
  <2>1. \A x : Remaining(<< >>, x) = << >>
    BY DEF Remaining, Skip
  <2>2. k = [j EXCEPT !.reg = [@ EXCEPT !.form = "bare"]]
    BY DEF Knowing
  <2>. HIDE DEF k
  <2>3. Ends(k, n, NoDigest)
    BY <1>1, <1>4, <2>1, <2>2 DEF After, Ends, Last
  <2>. QED
    BY Zenon, <2>3 DEF k
<1>. QED
  BY Zenon, <1>2, <1>3, <1>4

\* A call that goes on is the same call.
LEMMA GoesServes ==
  ASSUME NEW st, NEW j, Had(st, j), NEW n, NEW reg, NEW todo, Goes(j, n, reg, todo), Under(st, n)
  PROVE  JobServes(st, n)
<1>1. Had(st, n)
  BY Zenon, AlikeHad DEF Goes
<1>. QED
  BY <1>1 DEF JobServes, Goes

\* What a method ends with that gives key data, the answer itself, or nothing.
LEMMA Lasts ==
  ASSUME NEW k, NEW val
  PROVE  /\ k.plan.then = "data" => Last(k, val) = Give(DataOf(k.reg))
         /\ k.plan.then \in {"value", "digest"} => Last(k, val) = Give(val)
         /\ k.plan.then = "none" => Last(k, val) = Give(NoDigest)
         /\ k.plan.then = "local" => Last(k, val) = Step(Method(k.op, [k.a EXCEPT !.key = DataOf(k.reg).pub]))
         /\ k.plan.then = "open" =>
               Last(k, val) = Step(IF k.reg.form = "plain" THEN Give(Message(k.a.art.msg))
                                   ELSE Mem!OpenWithSecret(k.reg, k.a.art))
<1>1. \A v : Step(Give(v)) = Give(v)
  BY DEF Step, Give
<1>2. ASSUME k.plan.then = "data" PROVE Conclude(k, val) = Give(DataOf(k.reg))
  BY <1>2 DEF Conclude
<1>3. ASSUME k.plan.then \in {"value", "digest"} PROVE Conclude(k, val) = Give(val)
  BY <1>3 DEF Conclude
<1>4. ASSUME k.plan.then = "none" PROVE Conclude(k, val) = Give(NoDigest)
  BY <1>4 DEF Conclude
<1>5. ASSUME k.plan.then = "local" PROVE Conclude(k, val) = Method(k.op, [k.a EXCEPT !.key = DataOf(k.reg).pub])
  BY <1>5 DEF Conclude
<1>6. ASSUME k.plan.then = "open"
      PROVE  Conclude(k, val) = IF k.reg.form = "plain" THEN Give(Message(k.a.art.msg))
                                ELSE Mem!OpenWithSecret(k.reg, k.a.art)
  BY <1>6 DEF Conclude
<1>7. k.plan.then = "data" => Last(k, val) = Give(DataOf(k.reg))
  BY Zenon, <1>1, <1>2 DEF Last
<1>8. k.plan.then \in {"value", "digest"} => Last(k, val) = Give(val)
  BY Zenon, <1>1, <1>3 DEF Last
<1>9. k.plan.then = "none" => Last(k, val) = Give(NoDigest)
  BY Zenon, <1>1, <1>4 DEF Last
<1>10. k.plan.then = "local" => Last(k, val) = Step(Method(k.op, [k.a EXCEPT !.key = DataOf(k.reg).pub]))
  BY Zenon, <1>5 DEF Last
<1>11. k.plan.then = "open" =>
          Last(k, val) = Step(IF k.reg.form = "plain" THEN Give(Message(k.a.art.msg))
                              ELSE Mem!OpenWithSecret(k.reg, k.a.art))
  BY <1>6 DEF Last
<1>. QED
  BY <1>7, <1>8, <1>9, <1>10, <1>11

\* Key data that a description gives is what may be returned, by what opens nothing.
LEMMA DataPromised ==
  ASSUME NEW st, NEW j, j.op \notin Openers, NEW t, Describes(st, t), NEW d,
         d = DataOf(t) \/ d = DataOf([t EXCEPT !.form = "bare"]), Remote, Backend \in Backends
  PROVE  Promised(st, j, d)
<1>1. DataFits(st, d)
  BY DEF DataFits
<1>2. IsText(t) /\ IsText([t EXCEPT !.form = "bare"])
  BY DEF Describes, IsText, Text
<1>3. \E x, y, z : d = KeyData(x, y, z)
  BY <1>2, DataOfForms
<1>4. DOMAIN d # DOMAIN NoArt.art
  BY <1>3, Domains
<1>5. ~Openable(j)
  BY DEF Openable
<1>. QED
  BY Zenon, <1>1, <1>4, <1>5 DEF Promised

\* Nor is there a promise about the empty result of a method that opens nothing.
LEMMA NothingPromised ==
  ASSUME NEW st, NEW j, j.op \notin Openers
  PROVE  Promised(st, j, NoDigest)
<1>1. ~Openable(j)
  BY DEF Openable
<1>. QED
  BY Zenon, <1>1, Domains DEF Promised

\* A method that ends so.
LEMMA EndsServes ==
  ASSUME NEW st, NEW j, Had(st, j), IsJob(j), j.st = "calling", NEW reg, NEW n, NEW val, Ends(Knowing(j, reg), n, val),
         NEW v, Last(Knowing(j, reg), val) = Give(v), Promised(st, j, v)
  PROVE  JobServes(st, n)
<1>. DEFINE k == Knowing(j, reg)
            r == Last(k, val)
            why == IF r = Fail THEN "mismatch" ELSE "none"
<1>1. IsJob(k) /\ Alike(j, k)
  BY Zenon, KnowingJob
<1>2. n = Returned(k, r, why)
  BY Zenon DEF Ends
<1>. HIDE DEF k, r, why
<1>3. r = Give(v)
  BY Zenon DEF k, r
<1>4. JobServes(st, Returned(k, r, why))
  BY <1>1, <1>3, GivenServes
<1>. QED
  BY Zenon, <1>2, <1>4

\* A method that works with a key makes one call; only the decryption in the
\* token has another way.
LEMMA PlanCall ==
  ASSUME NEW op \in Workers, NEW a, Able(op, a)
  PROVE  \E call : /\ Plan(op, a).calls = <<call>>
                   /\ call.else = "fail" \/ (op = "ECDH_Decode" /\ call.else = "Derive" /\ call.kind = "ecdh")
<1>. DEFINE Fits(call) == call.else = "fail" \/ (op = "ECDH_Decode" /\ call.else = "Derive" /\ call.kind = "ecdh")
<1>1. /\ \A do, kind, bind : Fits(Call(do, kind, bind))
      /\ \A do, kind : Fits(Plain(do, kind))
      /\ \A do, S : Fits(Needs(Lookup(do), S))
      /\ Fits(PublicKey) /\ Fits(Lookup("GetKey"))
  BY CallFields DEF PublicKey
<1>2. op = "ECDH_Decode" => Fits(Otherwise(Plain("DecryptInHardware", "ecdh"), "Derive"))
  BY DEF Otherwise, Plain, Call
<1>3. \A r, c, t : Ask(r, c, t).calls = c
  BY DEF Ask
<1>4. Needs(PublicKey, {"ecdh"}) = Needs(Lookup("GetPublicKey"), {"ecdh"})
  BY DEF PublicKey
<1>. HIDE DEF Fits
<1>5. \E call : Plan(op, a).calls = <<call>> /\ Fits(call)
  <2>1. CASE op = "EncryptAES"
    BY <1>1, <1>3, <2>1 DEF Plan
  <2>2. CASE op = "DecryptAES"
    BY <1>1, <1>3, <2>2 DEF Plan
  <2>3. CASE op = "RSA_OAEP_Encode"
    BY <1>1, <1>3, <2>3 DEF Plan
  <2>4. CASE op = "RSA_OAEP_Decode"
    BY <1>1, <1>3, <2>4 DEF Plan
  <2>5. CASE op = "ECDH_Encode"
    BY <1>1, <1>3, <1>4, <2>5 DEF Plan
  <2>6. CASE op = "ECDH_Decode"
    <3>1. Backend = "pkcs11" => \E call : Token!ecdhCalls(a.opts) = <<call>> /\ Fits(call)
      <4>1. Token!Otherwise(Token!Plain("DecryptInHardware", "ecdh"), "Derive") = Otherwise(Plain("DecryptInHardware", "ecdh"), "Derive")
            /\ Token!Plain("DecryptInHardware", "ecdh") = Plain("DecryptInHardware", "ecdh")
            /\ Token!Plain("Derive", "ecdh") = Plain("Derive", "ecdh")
        BY TokenVocabulary
      <4>. QED
        BY <1>1, <1>2, <2>6, <4>1 DEF Token!ecdhCalls, Able
    <3>. QED
      BY <1>1, <1>3, <2>6, <3>1 DEF Plan
  <2>7. CASE op = "HMAC"
    BY <1>1, <1>3, <2>7 DEF Plan
  <2>8. CASE op \in {"SignEd25519", "SignRSAPSS", "Sign_RSA_PKCS1v15_SHA256"}
    BY <1>1, <1>3, <2>8 DEF Plan
  <2>9. CASE op \in {"VerifyEd25519", "VerifyRSAPSS", "Verify_RSA_PKCS1v15_SHA256"}
    BY <1>1, <1>3, <2>9 DEF Plan
  <2>. QED
    BY Zenon, <2>1, <2>2, <2>3, <2>4, <2>5, <2>6, <2>7, <2>8, <2>9 DEF Workers, Sealers, Openers, Sealer, KindOf
<1>. QED
  BY Zenon, <1>5 DEF Fits

\* The methods by whether they work with a key.
LEMMA WorkersAre ==
  /\ Workers = (Using \ {"Sha256Hex", "Blake3"}) \cup DOMAIN Seals
  /\ Workers \cap Manages = {} /\ Workers \cap DOMAIN Makes = {}
  /\ Openers \subseteq Workers /\ Sealers \subseteq Workers /\ Hashes \cap Openers = {}
  BY DEF Workers, Sealers, Sealer, Openers, KindOf, Using, Seals, Manages, Makes, Hashes

\* The call of such a method, and the other way.
LEMMA AskedCall ==
  ASSUME NEW j, j.op \in Workers, Asks(j)
  PROVE  \E call : /\ j.todo = <<call>> /\ Head(j.todo) = call /\ Tail(j.todo) = << >>
                   /\ call.else = "fail" \/ (j.op = "ECDH_Decode" /\ call.else = "Derive" /\ call.kind = "ecdh")
<1>1. CASE j.todo = j.plan.calls
  <2>1. PICK call : /\ Plan(j.op, j.a).calls = <<call>>
                    /\ call.else = "fail" \/ (j.op = "ECDH_Decode" /\ call.else = "Derive" /\ call.kind = "ecdh")
    BY PlanCall DEF Asks
  <2>2. j.todo = <<call>>
    BY Zenon, <1>1, <2>1 DEF Asks
  <2>. QED
    BY Zenon, <2>1, <2>2, Heads
<1>2. CASE j.todo = <<Plain("Derive", "ecdh")>>
  <2>1. Plain("Derive", "ecdh").else = "fail"
    BY CallFields
  <2>. QED
    BY Zenon, <1>2, <2>1, Heads
<1>. QED
  BY Zenon, <1>1, <1>2 DEF Asks

\* A refusal that the method goes on from, or that its caller may see.
LEMMA RefusedServes ==
  ASSUME NEW j, Serving(j), NEW why,
         Head(j.todo).else = "fail" => why \in Blameless \/ ~Watched(j) \/ j.op \in Hashes
  PROVE  JobServes(store, After(j, Refused(why)))
<1>. DEFINE call == Head(j.todo)
            n == After(j, Refused(why))
            bare == [j.reg EXCEPT !.form = "bare"]
<1>1. /\ IsJob(j) /\ j.st = "calling" /\ Had(store, j) /\ Under(store, j) /\ Due(j)
      /\ Remote /\ Backend \in Backends
  BY Zenon, DueOp DEF Serving, Due
<1>2. /\ call.else = "fail" => n = Returned(j, Fail, why)
      /\ call.else \notin {"fail", "skip"} => Goes(j, n, j.reg, <<Plain(call.else, call.kind)>>)
      /\ call.else = "skip" /\ call.do # "DisablePrevious" /\ Tail(j.todo) = << >> => Ends(Knowing(j, bare), n, NoDigest)
  BY <1>1, AfterRefused
<1>3. \/ call.else = "fail"
      \/ j.op \in Using /\ call.else = "Derive"
      \/ /\ j.op = "GetKey" /\ call.else = "skip" /\ call.do # "DisablePrevious"
         /\ ~Nil(j.reg) /\ Tail(j.todo) = << >>
      \/ /\ j.op = "DeactivateKey" /\ call.else = "DestroyObject" /\ call.kind = "none"
         /\ Backend = "pkcs11" /\ Nil(j.reg)
  BY Zenon, <1>1, Otherwises
<1>4. ASSUME call.else = "fail" PROVE JobServes(store, n)
  <2>1. Alike(j, j)
    BY DEF Alike
  <2>2. JobServes(store, Returned(j, Fail, why))
    BY <1>1, <1>4, <2>1, FailServes
  <2>. QED
    BY Zenon, <1>2, <1>4, <2>2
<1>. HIDE DEF n
<1>5. ASSUME j.op \in Using, call.else = "Derive" PROVE JobServes(store, n)
  <2>1. j.op \in Workers
    BY <1>1, <1>5, WorkersAre DEF Under
  <2>2. Asks(j)
    BY Zenon, <1>1, <2>1 DEF Under
  <2>3. j.op = "ECDH_Decode" /\ call.kind = "ecdh"
    <3>1. call.else # "fail"
      BY <1>5
    <3>. QED
      BY Zenon, <2>1, <2>2, <3>1, AskedCall
  <2>4. Goes(j, n, j.reg, <<Plain("Derive", "ecdh")>>)
    <3>1. call.else \notin {"fail", "skip"}
      BY <1>5
    <3>. QED
      BY Zenon, <1>2, <1>5, <2>3, <3>1
  <2>5. n.op = "ECDH_Decode" /\ n.a = j.a /\ n.plan = j.plan /\ n.reg = j.reg /\ n.todo = <<Plain("Derive", "ecdh")>>
    BY Zenon, <2>3, <2>4 DEF Goes, Alike
  <2>6. Asks(n)
    BY Zenon, <2>2, <2>3, <2>5 DEF Asks
  <2>7. Head(n.todo).do = "Derive"
    BY <2>5, Heads, CallFields
  <2>8. Under(store, n)
    BY <1>1, <2>5, <2>6, <2>7 DEF Under
  <2>. QED
    BY <1>1, <2>4, <2>8, GoesServes
<1>6. ASSUME j.op = "GetKey", call.else = "skip", call.do # "DisablePrevious", ~Nil(j.reg), Tail(j.todo) = << >>
      PROVE  JobServes(store, n)
  <2>1. Ends(Knowing(j, bare), n, NoDigest)
    BY Zenon, <1>2, <1>6
  <2>2. j.plan.then = "data"
    BY <1>1, <1>6 DEF Due, Progress, Manages
  <2>3. Describes(store, j.reg)
    BY Zenon, <1>1, <1>6 DEF Under
  <2>4. j.op \notin Openers
    BY <1>6 DEF Openers, KindOf
  <2>5. Last(Knowing(j, bare), NoDigest) = Give(DataOf(bare))
    <3>. HIDE DEF bare
    <3>1. Knowing(j, bare).plan = j.plan /\ Knowing(j, bare).reg = bare
      BY <1>1, KnowingJob
    <3>. QED
      BY <2>2, <3>1, Lasts
  <2>6. Promised(store, j, DataOf(bare))
    BY <1>1, <2>3, <2>4, DataPromised
  <2>. HIDE DEF bare
  <2>. QED
    BY <1>1, <2>1, <2>5, <2>6, EndsServes
<1>7. ASSUME j.op = "DeactivateKey", call.else = "DestroyObject", call.kind = "none", Nil(j.reg) PROVE JobServes(store, n)
  <2>1. Goes(j, n, j.reg, <<Plain("DestroyObject", "none")>>)
    <3>1. call.else \notin {"fail", "skip"}
      BY <1>7
    <3>. QED
      BY Zenon, <1>2, <1>7, <3>1
  <2>2. n.op = "DeactivateKey" /\ n.plan = j.plan /\ Nil(n.reg) /\ n.todo = <<Plain("DestroyObject", "none")>>
    BY Zenon, <1>7, <2>1 DEF Goes, Alike
  <2>3. Head(n.todo).do = "DestroyObject"
    BY <2>2, Heads, CallFields
  <2>4. "DeactivateKey" \notin Workers
    BY WorkersAre DEF Manages
  <2>5. Under(store, n)
    BY <1>1, <1>7, <2>2, <2>3, <2>4 DEF Under
  <2>. QED
    BY <1>1, <2>1, <2>5, GoesServes
<1>. QED
  BY Zenon, <1>3, <1>4, <1>5, <1>6, <1>7 DEF n

----------------------------------------------------------------------------
(* The methods that work with a key.                                       *)

\* The reference that such a method goes by is that of its key data, unless
\* the method takes a public half and the key data has none.
LEMMA BySource ==
  ASSUME NEW j, Serving(j), j.op \in Workers
  PROVE  /\ Refers(store, Raw(j.a)) /\ IsText(Raw(j.a))
         /\ Raw(j.a) = Source(j.with) \/ (j.op \in TakesPublic /\ Nil(j.a.key) /\ j.with # NoData /\ Nil(j.with.pub))
<1>1. /\ Keeping /\ Foreign(j.a) /\ j.a.configured = env.configured /\ Asks(j) /\ ByReference(j.a) /\ Remote /\ EnvOK
      /\ KeysOK(store) /\ KeysFit(store) /\ Backend \in Backends /\ Family \in Families
      /\ j.with = NoData \/ DataFits(store, j.with)
      /\ j.a.key \in KeyTexts(j.op, j.with)
      /\ Nil(env.configured) \/ Refers(store, env.configured)
  BY DEF Serving, Due, Keeping, Given, Called, Under, Asks, Had
<1>2. IsText(Raw(j.a)) /\ Raw(j.a).form = "ref" /\ (Nil(j.a.key) \/ j.a.key.form = "ref")
  BY <1>1 DEF Raw, Foreign, ByReference, Nil
<1>3. /\ j.op \notin Manages
      /\ j.a.key = j.with.ref \/ (j.op \in TakesPublic /\ j.a.key = j.with.pub)
  <2>1. j.op \notin Manages
    BY WorkersAre
  <2>. QED
    BY <1>1, <2>1 DEF KeyTexts, Remote
<1>4. CASE j.with = NoData
  <2>1. j.a.key = NoText
    BY <1>3, <1>4 DEF NoData, KeyData
  <2>2. Raw(j.a) = env.configured /\ Source(j.with) = env.configured
    BY <1>1, <1>4, <2>1 DEF Raw, Source
  <2>3. ~Nil(env.configured)
    BY <1>2, <2>2 DEF Nil, NoText, Text
  <2>. QED
    BY Zenon, <1>1, <1>2, <2>2, <2>3
<1>5. CASE j.with # NoData
  <2>1. PICK t, f : f \in {"ref", "bare"} /\ Describes(store, t) /\ j.with = DataOf([t EXCEPT !.form = f])
    <3>1. PICK t : Describes(store, t) /\ j.with \in {DataOf(t), DataOf([t EXCEPT !.form = "bare"])}
      BY <1>1, <1>5 DEF DataFits
    <3>2. [t EXCEPT !.form = "ref"] = t
      BY <3>1 DEF Describes, Text
    <3>3. \A f : j.with = DataOf([t EXCEPT !.form = f]) /\ f \in {"ref", "bare"} =>
                  \E u, g : g \in {"ref", "bare"} /\ Describes(store, u) /\ j.with = DataOf([u EXCEPT !.form = g])
      BY Zenon, <3>1
    <3>4. j.with = DataOf([t EXCEPT !.form = "ref"]) \/ j.with = DataOf([t EXCEPT !.form = "bare"])
      BY <3>1, <3>2
    <3>. QED
      BY <3>3, <3>4
  <2>2. Refers(store, j.with.ref) /\ (Nil(j.with.pub) \/ j.with.pub.form = HalfForm)
    <3>1. Refers(store, j.with.ref) /\ (Nil(j.with.pub) \/ (~Versioned /\ Family # "mac" /\ HalfOf(store, j.with.ref, j.with.pub)))
      BY <1>1, <2>1, DataTexts
    <3>. QED
      BY Zenon, <3>1 DEF HalfOf
  <2>3. j.with.ref.form = "ref"
    BY <2>2 DEF Refers
  <2>4. ~Nil(j.with.ref)
    BY <2>3 DEF Nil, NoText, Text
  <2>5. CASE j.a.key = j.with.ref
    <3>1. Raw(j.a) = j.with.ref /\ Source(j.with) = j.with.ref
      BY <1>5, <2>4, <2>5 DEF Raw, Source, Nil
    <3>. QED
      BY Zenon, <1>2, <2>2, <3>1
  <2>6. CASE j.op \in TakesPublic /\ j.a.key = j.with.pub
    <3>1. Nil(j.a.key)
      BY <1>2, <2>2, <2>6 DEF HalfForm
    <3>2. Raw(j.a) = env.configured
      BY <1>1, <3>1 DEF Raw, Nil
    <3>3. ~Nil(env.configured)
      BY <1>2, <3>2 DEF Nil, NoText, Text
    <3>. QED
      BY Zenon, <1>1, <1>2, <1>5, <2>6, <3>1, <3>2, <3>3
  <2>. QED
    BY Zenon, <1>3, <2>5, <2>6
<1>. QED
  BY Zenon, <1>4, <1>5

\* A call to the service by such a method: about which key and version, and
\* what it may be answered.
Lands(j, call, t) ==
    /\ j.todo = <<call>> /\ Nil(j.reg) /\ t = j.plan.ref
    /\ call.else = "fail" \/ (j.op = "ECDH_Decode" /\ call.else = "Derive")
    /\ t.key = Raw(j.a).key /\ t.key \in AllNames /\ store[t.key] # NoKey /\ store[t.key].alg = Family
    /\ Within(store, t) /\ Version(t) \in DOMAIN store[t.key].on
    /\ ~Versioned /\ Family # "mac" => Version(t) = Fixed(Raw(j.a))
    /\ call.do \in Computing => Answers(call, j) = {Compute(call, t, j.a)}
    /\ call.do \in {"GetPublicKey", "GetKey"} => Answers(call, j) = Administer(call, t)

\* The reference of a plan.
LEMMA PlanRef ==
  ASSUME NEW op \in Workers, NEW a, IsText(Raw(a)), FamilyFor(op) = Family
  PROVE  /\ Plan(op, a).ref = Raw(a) \/ (Versioned /\ Plan(op, a).ref = [Raw(a) EXCEPT !.ver = 0])
         /\ Plan(op, a).ref.key = Raw(a).key /\ Plan(op, a).ref.form = Raw(a).form
<1>1. \A r, c, t : Ask(r, c, t).ref = r
  BY DEF Ask
<1>2. Plan(op, a).ref = Raw(a) \/ (op \in {"EncryptAES", "DecryptAES"} /\ Plan(op, a).ref = Bare(Raw(a)))
  <2>1. CASE op \in {"EncryptAES", "DecryptAES"}
    BY <1>1, <2>1 DEF Plan
  <2>2. CASE op \in {"RSA_OAEP_Encode", "RSA_OAEP_Decode", "ECDH_Encode", "ECDH_Decode", "HMAC"}
    BY <1>1, <2>2 DEF Plan
  <2>3. CASE op \in {"SignEd25519", "SignRSAPSS", "Sign_RSA_PKCS1v15_SHA256"}
    BY <1>1, <2>3 DEF Plan
  <2>4. CASE op \in {"VerifyEd25519", "VerifyRSAPSS", "Verify_RSA_PKCS1v15_SHA256"}
    BY <1>1, <2>4 DEF Plan
  <2>. QED
    BY Zenon, <2>1, <2>2, <2>3, <2>4 DEF Workers, Sealers, Openers, Sealer, KindOf
<1>3. op \in {"EncryptAES", "DecryptAES"} => Family = "aes"
  BY KindsOf DEF FamilyFor
<1>. QED
  BY <1>2, <1>3 DEF Bare, Versioned, IsText, Text

\* A call of a method that works with a key asks about a key that exists.
LEMMA WorkLands ==
  ASSUME NEW j, Serving(j), j.op \in Workers
  PROVE  \E call : Lands(j, call, j.plan.ref)
<1>. DEFINE t == j.plan.ref
<1>1. /\ Keeping /\ KeysFit(store) /\ Asks(j) /\ FamilyFor(j.op) = Family /\ IsText(j.plan.ref)
      /\ Nil(j.plan.ref) \/ Within(store, j.plan.ref)
      /\ j.plan = Plan(j.op, j.a) /\ Nil(j.reg)
  BY DEF Serving, Due, Under, Had, Asks, Progress, Calling
<1>2. Refers(store, Raw(j.a)) /\ IsText(Raw(j.a))
  BY Zenon, BySource
<1>3. /\ t = Raw(j.a) \/ (Versioned /\ t = [Raw(j.a) EXCEPT !.ver = 0])
      /\ t.key = Raw(j.a).key /\ t.form = Raw(j.a).form
  BY <1>1, <1>2, PlanRef
<1>4. PICK call : j.todo = <<call>> /\ (call.else = "fail" \/ (j.op = "ECDH_Decode" /\ call.else = "Derive"))
  BY Zenon, <1>1, AskedCall
<1>. HIDE DEF t
<1>5. t.form = "ref" /\ t.key \in AllNames /\ store[t.key] # NoKey
  BY <1>2, <1>3 DEF Refers
<1>6. Within(store, t) /\ Known(t)
  BY <1>1, <1>5 DEF t, Nil, NoText, Text, Known
<1>7. Version(t) \in DOMAIN store[t.key].on /\ store[t.key].alg = Family
  BY <1>1, <1>5, <1>6, VersionReal DEF KeysFit
<1>8. ~Versioned /\ Family # "mac" => Version(t) = Fixed(Raw(j.a))
  BY Zenon, <1>1, <1>2, <1>3, VersionFixed
<1>9. Aim(call, j) = t
  BY <1>1 DEF Aim, Nil, t
<1>10. /\ call.do \in Computing => Answers(call, j) = {Compute(call, t, j.a)}
       /\ call.do \in {"GetPublicKey", "GetKey"} => Answers(call, j) = Administer(call, t)
  BY <1>6, <1>9 DEF Answers, Aim, Computing
<1>11. Lands(j, call, t)
  BY Zenon, <1>1, <1>3, <1>4, <1>5, <1>6, <1>7, <1>8, <1>10 DEF Lands, t
<1>. QED
  BY Zenon, <1>11 DEF t

\* What such a method may end with.
Settles(j, k, val) ==
    \/ \E v : Last(k, val) = Give(v) /\ Promised(store, j, v)
    \/ Last(k, val) = Fail /\ (~Watched(j) \/ j.op \in Hashes)

\* What it may be answered.
Settled(j, call, ans) ==
    \/ \E why : ans = Refused(why) /\ (why \in Blameless \/ ~Watched(j) \/ j.op \in Hashes)
    \/ /\ ans.ok /\ ans.st = store /\ Needed(call, ans.reg) /\ call.do # "DisablePrevious"
       /\ Settles(j, Knowing(j, ans.reg), ans.val)

\* Such an answer leaves the call as it must be.
LEMMA SettledServes ==
  ASSUME NEW j, Serving(j), j.op \in Workers, NEW call, j.todo = <<call>>, NEW ans, Settled(j, call, ans)
  PROVE  ans.st = store /\ JobServes(store, After(j, ans))
<1>1. Head(j.todo) = call /\ Tail(j.todo) = << >>
  BY Heads
<1>2. IsJob(j) /\ j.st = "calling" /\ Had(store, j)
  BY DEF Serving, Due
<1>3. ASSUME NEW why, ans = Refused(why), why \in Blameless \/ ~Watched(j) \/ j.op \in Hashes
      PROVE  ans.st = store /\ JobServes(store, After(j, ans))
  <2>1. ans.st = store
    BY <1>3, RefusedFields
  <2>2. JobServes(store, After(j, Refused(why)))
    BY <1>3, RefusedServes
  <2>. QED
    BY Zenon, <1>3, <2>1, <2>2
<1>4. ASSUME ans.ok, ans.st = store, Needed(call, ans.reg), call.do # "DisablePrevious",
             Settles(j, Knowing(j, ans.reg), ans.val)
      PROVE  JobServes(store, After(j, ans))
  <2>. DEFINE n == After(j, ans)
              k == Knowing(j, ans.reg)
  <2>1. Remaining(Tail(j.todo), ans.reg) = << >>
    BY <1>1 DEF Remaining, Skip
  <2>2. Ends(k, n, ans.val)
    BY <1>1, <1>2, <1>4, <2>1, AfterGranted
  <2>. HIDE DEF n
  <2>3. ASSUME NEW v, Last(k, ans.val) = Give(v), Promised(store, j, v) PROVE JobServes(store, n)
    BY <1>2, <2>2, <2>3, EndsServes
  <2>4. ASSUME Last(k, ans.val) = Fail, ~Watched(j) \/ j.op \in Hashes PROVE JobServes(store, n)
    <3>1. IsJob(k) /\ Alike(j, k)
      BY Zenon, <1>2, KnowingJob
    <3>. HIDE DEF k
    <3>2. n = Returned(k, Fail, "mismatch")
      BY Zenon, <2>2, <2>4 DEF Ends
    <3>3. JobServes(store, Returned(k, Fail, "mismatch"))
      BY <1>2, <2>4, <3>1, FailServes
    <3>. QED
      BY Zenon, <3>2, <3>3
  <2>. QED
    BY Zenon, <1>4, <2>3, <2>4 DEF Settles, n
<1>. QED
  BY Zenon, <1>3, <1>4 DEF Settled

\* What a method makes of an artefact that its key data has sealed.
Fitting(j, t) ==
    /\ j.a.art.kind = KindFor(j.op) /\ j.a.art.key = t.key /\ j.a.art.size = store[t.key].size
    /\ j.a.art.msg = j.a.msg /\ j.a.art = j.from.art
    /\ ~Versioned => j.a.art.ver = Version(t)
    /\ j.a.art.kind = "aes" => j.a.art.bind = Bind(j.a.uid, j.a.add)
    /\ j.a.art.kind = "oaep" => j.a.art.bind = <<>>

\* What a call opens with the same key data was made by the key that it asks about.
LEMMA OpenFits ==
  ASSUME NEW j, Serving(j), j.op \in Openers, Openable(j), NEW call, NEW t, Lands(j, call, t)
  PROVE  Fitting(j, t)
<1>1. /\ j.a.art = j.from.art /\ ArtOK(j.from) /\ FamilyFor(j.op) = Family
      /\ j.from = NoArt \/ ArtFits(store, j.from.art, j.from.with)
      /\ j.from # NoArt => j.a.msg = j.from.art.msg
      /\ j.op \in Workers
  BY WorkersAre DEF Serving, Due, Called, Had
<1>2. j.op \notin Sealers /\ j.op # "HMAC" /\ KindFor(j.op) = KindOf[j.op] /\ KindOf[j.op] \notin {"mac", "none"}
  BY DEF Openers, KindOf, Sealers, Sealer, KindFor
<1>3. j.from.art.kind = KindOf[j.op] /\ j.from.with = j.with /\ j.from.uid = j.a.uid /\ j.from.add = j.a.add
      /\ (j.a.key = NoText => j.with = NoData) /\ ~NoPublicHalf(j)
  BY DEF Openable
<1>4. j.from # NoArt
  <2>1. NoArt.art.kind = "none"
    BY DEF NoArt, Sealed
  <2>2. KindOf[j.op] # "none"
    BY <1>2
  <2>. QED
    BY Zenon, <1>3, <2>1, <2>2
<1>5. ~Halved(j.from.art.kind, j.from.with)
  BY <1>3 DEF Halved, NoPublicHalf, Openers, KindOf
<1>6. /\ j.from.art.key = Source(j.with).key /\ j.from.art.size = store[j.from.art.key].size
      /\ ~Versioned => j.from.art.ver = Fixed(Source(j.with))
      /\ j.from.art.kind = "oaep" => j.from.art.bind = <<>>
  BY Zenon, <1>1, <1>2, <1>3, <1>4, <1>5 DEF ArtFits
<1>7. Raw(j.a) = Source(j.with)
  BY Zenon, <1>1, <1>3, BySource DEF Nil
<1>8. Family # "mac"
  BY <1>1, <1>2 DEF FamilyFor
<1>9. t.key = Source(j.with).key /\ (~Versioned => Version(t) = Fixed(Source(j.with)))
  BY Zenon, <1>7, <1>8 DEF Lands
<1>10. j.from.art.kind = "aes" => j.from.art.bind = Bind(j.a.uid, j.a.add)
  BY Zenon, <1>1, <1>3 DEF ArtOK, BoundTo
<1>11. j.a.msg = j.from.art.msg
  BY Zenon, <1>1, <1>4
<1>12. /\ j.from.art.kind = KindFor(j.op) /\ j.from.art.key = t.key /\ j.from.art.size = store[t.key].size
       /\ ~Versioned => j.from.art.ver = Version(t)
  BY <1>2, <1>3, <1>6, <1>9
<1>. QED
  BY <1>1, <1>6, <1>10, <1>11, <1>12 DEF Fitting

\* An artefact that a method seals with its key, or with the public half of it.
LEMMA SealFits ==
  ASSUME NEW j, Serving(j), j.op \in Sealers, NEW call, NEW t, Lands(j, call, t), Able(j.op, j.a),
         NEW x, x.key = t.key, x.size = store[t.key].size, ~Versioned => x.ver = Version(t),
         NEW bind, KindFor(j.op) = "oaep" => bind = <<>>
  PROVE  Promised(store, j, Sealed(KindFor(j.op), x, j.a.msg, bind))
<1>. DEFINE v == Sealed(KindFor(j.op), x, j.a.msg, bind)
<1>1. v.kind = KindFor(j.op) /\ v.key = t.key /\ v.size = store[t.key].size /\ v.ver = x.ver /\ v.bind = bind
  BY DEF Sealed
<1>2. DOMAIN v # DOMAIN NoData
  BY Zenon, Domains
<1>. HIDE DEF v
<1>3. j.op \in Workers /\ FamilyFor(j.op) = Family
  BY WorkersAre DEF Serving, Had
<1>4. ~Openable(j)
  BY DEF Openable, Sealers, Sealer, Openers, KindOf
<1>5. KindFor(j.op) # "mac" /\ Family # "mac"
  BY <1>3, KindsOf DEF Sealers, Sealer, FamilyFor
<1>6. ~Halved(v.kind, j.with) => Refers(store, Source(j.with)) /\ Raw(j.a) = Source(j.with)
  <2>1. j.op \in TakesPublic => KindFor(j.op) \in {"oaep", "ecdh"}
    BY KindsOf DEF TakesPublic, Sealers, Sealer
  <2>2. ~Halved(v.kind, j.with) => Raw(j.a) = Source(j.with)
    BY <1>1, <1>3, <2>1, BySource DEF Halved, Nil
  <2>. QED
    BY <1>3, <2>2, BySource
<1>7. ~Versioned => v.ver = Fixed(Raw(j.a))
  BY Zenon, <1>1, <1>5 DEF Lands
<1>8. Backend = "azure" => v.kind # "ed25519"
  BY <1>1, KindsOf DEF Able, Sealers, Sealer
<1>9. t.key = Raw(j.a).key
  BY DEF Lands
<1>10. ArtFits(store, v, j.with)
  BY <1>1, <1>6, <1>7, <1>8, <1>9 DEF ArtFits
<1>11. Promised(store, j, v)
  BY Zenon, <1>2, <1>4, <1>10 DEF Promised
<1>. QED
  BY Zenon, <1>11 DEF v

\* What the one call of a method that works with a key asks for.
AsksSeal(j, call) ==
    /\ j.op \in Sealers /\ call.do \in {"Encrypt", "Sign"} /\ j.plan.then = "value"
    /\ call.kind = "oaep" => call.bind = <<>>
AsksMac(j, call)  == j.op = "HMAC" /\ call.do = "Mac" /\ call.kind = "mac" /\ j.plan.then = "digest"
AsksOpen(j, call) ==
    /\ j.op \in Openers /\ j.plan.then = "value"
    /\ \/ call.do = "Verify" /\ j.op # "DecryptAES"
       \/ call.do = "Decrypt" /\ call.kind = "aes" /\ call.bind = Bind(j.a.uid, j.a.add)
       \/ call.do = "Decrypt" /\ call.kind = "oaep" /\ call.bind = <<>>
AsksHalf(j, call) ==
    /\ j.op \in TakesPublic /\ j.plan.then = "local" /\ call.do \in {"GetPublicKey", "GetKey"}
    /\ call.need = Algorithms \/ (call.need = {"ecdh"} /\ j.op = "ECDH_Encode")
AsksSecret(j, call) ==
    /\ j.op = "ECDH_Decode" /\ j.plan.then = "open"
    /\ call.do = "Derive" \/ (call.do = "DecryptInHardware" /\ j.a.opts.hkdf)

\* The fields of such calls.
LEMMA AskFields ==
  /\ \A do, kind, bind : Call(do, kind, bind).need = Algorithms
  /\ \A do, kind : Plain(do, kind).need = Algorithms /\ Plain(do, kind).bind = <<>>
  /\ PublicKey.need = Algorithms /\ PublicKey.do = "GetPublicKey"
  /\ \A do, S : Needs(Lookup(do), S).need = S /\ Needs(Lookup(do), S).do = do
  /\ \A do, kind, x : /\ Otherwise(Plain(do, kind), x).need = Algorithms /\ Otherwise(Plain(do, kind), x).do = do
                      /\ Otherwise(Plain(do, kind), x).kind = kind
  /\ \A r, c, t : Ask(r, c, t).calls = c /\ Ask(r, c, t).then = t
  BY DEF Call, Plain, PublicKey, Lookup, Needs, Otherwise, Ask

\* Which call each of the methods makes.
LEMMA AskedKinds ==
  ASSUME NEW j, j.op \in Workers, Asks(j), NEW call, j.todo = <<call>>
  PROVE  \/ AsksSeal(j, call) /\ call.kind = KindFor(j.op) /\ call.need = Algorithms
         \/ AsksMac(j, call) /\ call.need = Algorithms
         \/ AsksOpen(j, call) /\ call.kind = KindFor(j.op) /\ call.need = Algorithms
         \/ AsksHalf(j, call)
         \/ AsksSecret(j, call) /\ call.kind = KindFor(j.op) /\ call.need = Algorithms
<1>. DEFINE p == Plan(j.op, j.a)
            Fits(c) == c.kind = KindFor(j.op) /\ c.need = Algorithms
            Goal(c) == \/ AsksSeal(j, c) /\ Fits(c)
                       \/ AsksMac(j, c) /\ c.need = Algorithms
                       \/ AsksOpen(j, c) /\ Fits(c)
                       \/ AsksHalf(j, c)
                       \/ AsksSecret(j, c) /\ Fits(c)
<1>1. j.plan = p /\ (p.calls = <<call>> \/ (j.op = "ECDH_Decode" /\ call = Plain("Derive", "ecdh")))
  BY DEF Asks
<1>2. Able(j.op, j.a)
  BY DEF Asks
<1>3. CASE j.op = "EncryptAES"
  <2>1. p.calls = <<Call("Encrypt", "aes", Bind(j.a.uid, j.a.add))>> /\ p.then = "value"
    BY <1>3, AskFields DEF Plan
  <2>2. call = Call("Encrypt", "aes", Bind(j.a.uid, j.a.add))
    BY <1>1, <1>3, <2>1
  <2>. QED
    BY <1>1, <1>3, <2>1, <2>2, AskFields, CallFields, KindsOf DEF AsksSeal, Sealers, Sealer
<1>4. CASE j.op = "DecryptAES"
  <2>1. p.calls = <<Call("Decrypt", "aes", Bind(j.a.uid, j.a.add))>> /\ p.then = "value"
    BY <1>4, AskFields DEF Plan
  <2>2. call = Call("Decrypt", "aes", Bind(j.a.uid, j.a.add))
    BY <1>1, <1>4, <2>1
  <2>. QED
    BY <1>1, <1>4, <2>1, <2>2, AskFields, CallFields, KindsOf DEF AsksOpen, Openers, KindOf
<1>5. CASE j.op = "RSA_OAEP_Encode"
  <2>1. \/ p.calls = <<Plain("Encrypt", "oaep")>> /\ p.then = "value"
        \/ p.calls = <<PublicKey>> /\ p.then = "local"
    BY <1>5, AskFields DEF Plan
  <2>2. \/ call = Plain("Encrypt", "oaep") /\ p.then = "value"
        \/ call = PublicKey /\ p.then = "local"
    BY <1>1, <1>5, <2>1
  <2>3. "RSA_OAEP_Encode" \in Sealers /\ "RSA_OAEP_Encode" \in TakesPublic
    BY DEF Sealers, Sealer, TakesPublic
  <2>. QED
    BY <1>1, <1>5, <2>2, <2>3, AskFields, CallFields, KindsOf DEF AsksSeal, AsksHalf
<1>6. CASE j.op = "RSA_OAEP_Decode"
  <2>1. p.calls = <<Plain("Decrypt", "oaep")>> /\ p.then = "value"
    BY <1>6, AskFields DEF Plan
  <2>2. call = Plain("Decrypt", "oaep")
    BY <1>1, <1>6, <2>1
  <2>. QED
    BY <1>1, <1>6, <2>1, <2>2, AskFields, CallFields, KindsOf DEF AsksOpen, Openers, KindOf
<1>7. CASE j.op = "ECDH_Encode"
  <2>1. p.then = "local" /\ \/ p.calls = <<PublicKey>>
                            \/ p.calls = <<Needs(PublicKey, {"ecdh"})>>
                            \/ p.calls = <<Needs(Lookup("GetKey"), {"ecdh"})>>
    BY <1>7, AskFields DEF Plan
  <2>2. call = PublicKey \/ call = Needs(PublicKey, {"ecdh"}) \/ call = Needs(Lookup("GetKey"), {"ecdh"})
    BY <1>1, <1>7, <2>1
  <2>3. Needs(PublicKey, {"ecdh"}) = Needs(Lookup("GetPublicKey"), {"ecdh"})
    BY DEF PublicKey
  <2>. QED
    BY <1>1, <1>7, <2>1, <2>2, <2>3, AskFields DEF AsksHalf, TakesPublic
<1>8. CASE j.op = "ECDH_Decode"
  <2>1. p.then = "open" /\ \/ p.calls = <<Plain("Derive", "ecdh")>>
                           \/ Backend = "pkcs11" /\ p.calls = Token!ecdhCalls(j.a.opts)
    BY <1>8, AskFields DEF Plan
  <2>2. \/ call = Plain("Derive", "ecdh")
        \/ /\ j.a.opts.hkdf
           /\ \/ call = Otherwise(Plain("DecryptInHardware", "ecdh"), "Derive")
              \/ call = Plain("DecryptInHardware", "ecdh")
    <3>1. Token!Otherwise(Token!Plain("DecryptInHardware", "ecdh"), "Derive") = Otherwise(Plain("DecryptInHardware", "ecdh"), "Derive")
          /\ Token!Plain("DecryptInHardware", "ecdh") = Plain("DecryptInHardware", "ecdh")
          /\ Token!Plain("Derive", "ecdh") = Plain("Derive", "ecdh")
      BY TokenVocabulary
    <3>. QED
      BY <1>1, <1>2, <1>8, <2>1, <3>1 DEF Token!ecdhCalls, Able
  <2>3. /\ call.do = "Derive" \/ (call.do = "DecryptInHardware" /\ j.a.opts.hkdf)
        /\ call.kind = "ecdh" /\ call.need = Algorithms
    BY <2>2, AskFields, CallFields
  <2>. QED
    BY <1>1, <1>8, <2>1, <2>3, KindsOf DEF AsksSecret
<1>9. CASE j.op = "HMAC"
  <2>1. p.calls = <<Plain("Mac", "mac")>> /\ p.then = "digest"
    BY <1>9, AskFields DEF Plan
  <2>2. call = Plain("Mac", "mac")
    BY <1>1, <1>9, <2>1
  <2>. QED
    BY <1>1, <1>9, <2>1, <2>2, AskFields, CallFields DEF AsksMac
<1>10. CASE j.op \in {"SignEd25519", "SignRSAPSS", "Sign_RSA_PKCS1v15_SHA256"}
  <2>1. p.calls = <<Plain("Sign", KindFor(j.op))>> /\ p.then = "value"
    BY <1>10, AskFields DEF Plan
  <2>2. call = Plain("Sign", KindFor(j.op))
    BY <1>1, <1>10, <2>1
  <2>3. j.op \in Sealers
    BY <1>10 DEF Sealers, Sealer
  <2>. QED
    BY <1>1, <2>1, <2>2, <2>3, AskFields, CallFields DEF AsksSeal
<1>11. CASE j.op \in {"VerifyEd25519", "VerifyRSAPSS", "Verify_RSA_PKCS1v15_SHA256"}
  <2>1. \/ p.calls = <<Plain("Verify", KindFor(j.op))>> /\ p.then = "value"
        \/ p.calls = <<PublicKey>> /\ p.then = "local"
    BY <1>11, AskFields DEF Plan
  <2>2. \/ call = Plain("Verify", KindFor(j.op)) /\ p.then = "value"
        \/ call = PublicKey /\ p.then = "local"
    BY <1>1, <1>11, <2>1
  <2>3. j.op \in Openers /\ j.op \in TakesPublic /\ j.op # "DecryptAES"
    BY <1>11 DEF Openers, KindOf, TakesPublic
  <2>. QED
    BY <1>1, <2>2, <2>3, AskFields, CallFields DEF AsksOpen, AsksHalf
<1>. QED
  BY Zenon, <1>3, <1>4, <1>5, <1>6, <1>7, <1>8, <1>9, <1>10, <1>11 DEF Workers, Sealers, Openers, Sealer, KindOf

\* A call that computes is refused, or is answered as it asks.
LEMMA Computes ==
  ASSUME NEW call, NEW t, NEW a, call.do \in Computing
  PROVE  LET v == IF call.do = "Decrypt" THEN SealedBy(t, a.art) ELSE Version(t)
             fits == a.art.kind = call.kind /\ a.art.key = t.key /\ a.art.ver = v
             ans == Compute(call, t, a)
         IN  \/ ans \in {Refused("use"), Refused("off")}
             \/ call.do \in {"Encrypt", "Sign", "Mac"} /\
                   ans = Granted(Told(t.key, v), Sealed(call.kind, Told(t.key, v), a.msg, call.bind), store)
             \/ call.do = "Decrypt" /\ fits /\ a.art.bind = call.bind /\ ans = Granted(Told(t.key, v), Message(a.art.msg), store)
             \/ call.do = "Decrypt" /\ ~(fits /\ a.art.bind = call.bind) /\ ans = Refused("mismatch")
             \/ call.do = "Verify" /\ fits /\ a.art.msg = a.msg /\ ans = Granted(Told(t.key, v), Verified, store)
             \/ call.do = "Verify" /\ ~(fits /\ a.art.msg = a.msg) /\ ans = Refused("mismatch")
             \/ call.do = "Derive" /\ a.art.size = store[t.key].size /\ ans = Granted(Told(t.key, v), NoDigest, store)
             \/ call.do = "Derive" /\ a.art.size # store[t.key].size /\ ans = Refused("mismatch")
             \/ call.do = "DecryptInHardware" /\ fits /\ a.art.msg = "" /\ ans = Granted(NoText, NoDigest, store)
             \/ call.do = "DecryptInHardware" /\ fits /\ a.art.msg # "" /\
                   ans = Granted([Told(t.key, v) EXCEPT !.form = "plain"], NoDigest, store)
             \/ call.do = "DecryptInHardware" /\ ~fits /\ ans = Refused("mismatch")
<1>. DEFINE v == IF call.do = "Decrypt" THEN SealedBy(t, a.art) ELSE Version(t)
<1>1. CASE UseOf(call.do) \notin store[t.key].uses \/ ~On(t, v)
  BY <1>1 DEF Compute
<1>2. CASE UseOf(call.do) \in store[t.key].uses /\ On(t, v)
  <2>1. CASE call.do \in {"Encrypt", "Sign", "Mac"}
    BY <1>2, <2>1 DEF Compute
  <2>2. CASE call.do = "Decrypt"
    BY <1>2, <2>2 DEF Compute
  <2>3. CASE call.do = "Verify"
    BY <1>2, <2>3 DEF Compute
  <2>4. CASE call.do = "Derive"
    BY <1>2, <2>4 DEF Compute
  <2>5. CASE call.do = "DecryptInHardware"
    BY <1>2, <2>5 DEF Compute
  <2>. QED
    BY <2>1, <2>2, <2>3, <2>4, <2>5 DEF Computing
<1>. QED
  BY <1>1, <1>2

\* A version off, or a use that a key is not for, the caller may see.
LEMMA RefusedSettled ==
  ASSUME NEW j, NEW call, NEW ans
  PROVE  /\ ans \in {Refused("use"), Refused("off")} => Settled(j, call, ans)
         /\ ans = Refused("mismatch") /\ (~Watched(j) \/ j.op \in Hashes) => Settled(j, call, ans)
<1>1. "use" \in Blameless /\ "off" \in Blameless
  BY DEF Blameless
<1>. QED
  BY <1>1 DEF Settled

\* The service tells of the key that the call is about.
LEMMA ToldSettled ==
  ASSUME NEW j, Serving(j), NEW call, NEW t, Lands(j, call, t), NEW v, NEW reg, NEW f,
         reg = Told(t.key, v) \/ reg = [Told(t.key, v) EXCEPT !.form = f],
         Family \in call.need, call.do # "DisablePrevious", NEW val, NEW ans, ans = Granted(reg, val, store),
         Settles(j, Knowing(j, reg), val)
  PROVE  Settled(j, call, ans)
<1>1. reg.alg = Family
  BY DEF Lands, Told, Text
<1>2. ans.ok /\ ans.st = store /\ ans.reg = reg /\ ans.val = val
  BY GrantedFields
<1>3. Needed(call, reg)
  BY <1>1 DEF Needed
<1>. QED
  BY Zenon, <1>2, <1>3 DEF Settled

\* A method that ends with the answer itself.
LEMMA ValueSettles ==
  ASSUME NEW j, Serving(j), j.plan.then \in {"value", "digest"}, NEW val, Promised(store, j, val), NEW reg
  PROVE  Settles(j, Knowing(j, reg), val)
<1>1. IsJob(j) /\ j.st = "calling"
  BY DEF Serving, Due
<1>2. Knowing(j, reg).plan = j.plan
  BY <1>1, KnowingJob
<1>3. Last(Knowing(j, reg), val) = Give(val)
  BY <1>2, Lasts
<1>. QED
  BY Zenon, <1>3 DEF Settles

\* What is known of a method that works with a key.
LEMMA WorkerFacts ==
  ASSUME NEW j, Serving(j), j.op \in Workers
  PROVE  /\ Asks(j) /\ Able(j.op, j.a) /\ FamilyFor(j.op) = Family /\ Family \in Algorithms /\ Family \in Families
         /\ IsJob(j) /\ j.st = "calling" /\ Keeping /\ KeysFit(store) /\ Foreign(j.a) /\ Remote /\ Backend \in Backends
         /\ KeysOK(store) /\ EnvOK
         /\ Watched(j) => j.op \in Sealers \cup {"HMAC"} \/ Openable(j)
<1>1. /\ Asks(j) /\ Able(j.op, j.a) /\ FamilyFor(j.op) = Family /\ Family \in Families
      /\ IsJob(j) /\ j.st = "calling" /\ Keeping /\ KeysFit(store) /\ Foreign(j.a) /\ Remote /\ Backend \in Backends
      /\ KeysOK(store) /\ EnvOK
  BY DEF Serving, Due, Under, Asks, Had, Keeping, Called, Calling
<1>2. Family \in Algorithms
  BY <1>1 DEF Families, Algorithms
<1>3. j.op \notin Manages
  BY WorkersAre
<1>4. Watched(j) => j.op \in Sealers \cup {"HMAC"} \/ Openable(j)
  BY Zenon, <1>3 DEF Watched, Manageable, Sealable, Manages
<1>. QED
  BY <1>1, <1>2, <1>4

\* Sealing and signing.
LEMMA SealSettled ==
  ASSUME NEW j, Serving(j), NEW call, NEW t, Lands(j, call, t), AsksSeal(j, call), call.kind = KindFor(j.op),
         call.need = Algorithms, NEW ans \in Answers(call, j)
  PROVE  Settled(j, call, ans)
<1>. DEFINE v == Version(t)
<1>1. j.op \in Workers /\ call.do \in Computing /\ call.do \in {"Encrypt", "Sign"}
  BY WorkersAre DEF AsksSeal, Computing
<1>2. ans = Compute(call, t, j.a)
  BY <1>1 DEF Lands
<1>3. \/ ans \in {Refused("use"), Refused("off")}
      \/ ans = Granted(Told(t.key, v), Sealed(call.kind, Told(t.key, v), j.a.msg, call.bind), store)
  BY <1>1, <1>2, Computes
<1>4. ASSUME ans = Granted(Told(t.key, v), Sealed(call.kind, Told(t.key, v), j.a.msg, call.bind), store)
      PROVE  Settled(j, call, ans)
  <2>. DEFINE x == Told(t.key, v)
  <2>1. x.key = t.key /\ x.size = store[t.key].size /\ x.ver = Version(t)
    BY DEF Told, Text
  <2>. HIDE DEF x
  <2>2. Promised(store, j, Sealed(KindFor(j.op), x, j.a.msg, call.bind))
    BY <1>1, <2>1, SealFits, WorkerFacts DEF AsksSeal
  <2>3. Settles(j, Knowing(j, x), Sealed(call.kind, x, j.a.msg, call.bind))
    BY <2>2, ValueSettles DEF AsksSeal
  <2>4. Family \in call.need /\ call.do # "DisablePrevious"
    BY <1>1, WorkerFacts
  <2>. QED
    BY <1>4, <2>3, <2>4, ToldSettled DEF x
<1>. QED
  BY Zenon, <1>3, <1>4, RefusedSettled

\* Authenticating.
LEMMA MacSettled ==
  ASSUME NEW j, Serving(j), NEW call, NEW t, Lands(j, call, t), AsksMac(j, call),
         call.need = Algorithms, NEW ans \in Answers(call, j)
  PROVE  Settled(j, call, ans)
<1>. DEFINE v == Version(t)
            x == Told(t.key, v)
            art == Sealed(call.kind, x, j.a.msg, call.bind)
<1>1. j.op \in Workers /\ call.do \in Computing /\ call.do = "Mac" /\ j.op = "HMAC"
  BY DEF AsksMac, Computing, Workers
<1>2. ans = Compute(call, t, j.a)
  BY <1>1 DEF Lands
<1>3. ans \in {Refused("use"), Refused("off")} \/ ans = Granted(x, art, store)
  BY <1>1, <1>2, Computes
<1>. HIDE DEF v
<1>4. Family \in call.need /\ call.do # "DisablePrevious"
  BY <1>1, WorkerFacts
<1>5. Promised(store, j, art)
  <2>1. art.kind = "mac" /\ DOMAIN art # DOMAIN NoData
    BY Domains DEF Sealed, AsksMac
  <2>2. ~Openable(j)
    BY <1>1 DEF Openable, Openers, KindOf
  <2>. HIDE DEF art
  <2>3. ArtFits(store, art, j.with)
    BY <2>1 DEF ArtFits
  <2>. QED
    BY Zenon, <2>1, <2>2, <2>3 DEF Promised
<1>. HIDE DEF art
<1>6. Settles(j, Knowing(j, x), art)
  BY <1>5, ValueSettles DEF AsksMac
<1>7. ASSUME ans = Granted(x, art, store) PROVE Settled(j, call, ans)
  BY <1>4, <1>6, <1>7, ToldSettled
<1>. QED
  BY Zenon, <1>3, <1>7, RefusedSettled

\* Nothing but what it was sealed from is promised of what a method opens.
LEMMA OpenedPromised ==
  ASSUME NEW st, NEW j, NEW v, v = Verified \/ (\E m : v = Message(m) /\ (Openable(j) => m = j.from.art.msg))
  PROVE  Promised(st, j, v)
<1>1. DOMAIN v # DOMAIN NoData /\ DOMAIN v # DOMAIN NoArt.art
  BY Domains
<1>2. Openable(j) => v \in {Message(j.from.art.msg), Verified}
  OBVIOUS
<1>. QED
  BY Zenon, <1>1, <1>2 DEF Promised

\* Decrypting and verifying by the service.
LEMMA OpenSettled ==
  ASSUME NEW j, Serving(j), NEW call, NEW t, Lands(j, call, t), AsksOpen(j, call), call.kind = KindFor(j.op),
         call.need = Algorithms, NEW ans \in Answers(call, j)
  PROVE  Settled(j, call, ans)
<1>. DEFINE v == IF call.do = "Decrypt" THEN SealedBy(t, j.a.art) ELSE Version(t)
            fits == j.a.art.kind = call.kind /\ j.a.art.key = t.key /\ j.a.art.ver = v
            x == Told(t.key, v)
<1>1. j.op \in Workers /\ call.do \in {"Decrypt", "Verify"} /\ call.do \in Computing /\ call.do # "DisablePrevious"
  BY WorkersAre DEF AsksOpen, Computing
<1>2. ans = Compute(call, t, j.a)
  BY <1>1 DEF Lands
<1>3. \/ ans \in {Refused("use"), Refused("off")}
      \/ ans = Granted(x, Message(j.a.art.msg), store)
      \/ ans = Granted(x, Verified, store)
      \/ call.do = "Decrypt" /\ ~(fits /\ j.a.art.bind = call.bind) /\ ans = Refused("mismatch")
      \/ call.do = "Verify" /\ ~(fits /\ j.a.art.msg = j.a.msg) /\ ans = Refused("mismatch")
  BY <1>1, <1>2, Computes
<1>4. Family \in call.need
  BY <1>1, WorkerFacts
<1>5. j.op \notin Sealers /\ j.op # "HMAC" /\ (Versioned => j.op = "DecryptAES")
  <2>1. FamilyFor(j.op) = Family
    BY Zenon, <1>1, WorkerFacts
  <2>. QED
    BY <2>1, KindsOf DEF AsksOpen, Openers, KindOf, Sealers, Sealer, Versioned, FamilyFor
<1>6. ASSUME Openable(j) PROVE fits /\ j.a.art.msg = j.a.msg /\ (call.do = "Decrypt" => j.a.art.bind = call.bind)
  <2>1. Fitting(j, t)
    BY Zenon, <1>6, OpenFits DEF AsksOpen
  <2>2. j.a.art.kind = call.kind /\ j.a.art.key = t.key /\ j.a.art.msg = j.a.msg
    BY Zenon, <2>1 DEF Fitting
  <2>3. j.a.art.ver = v
    <3>1. CASE Versioned
      <4>1. j.op = "DecryptAES" /\ KindFor(j.op) = "aes"
        BY Zenon, <1>5, <3>1, KindsOf
      <4>2. call.do = "Decrypt" \/ call.do = "Verify"
        BY Zenon, <1>1
      <4>3. call.do # "Verify"
        BY <4>1 DEF AsksOpen
      <4>. QED
        BY <2>2, <3>1, <4>1, <4>2, <4>3 DEF SealedBy, Versioned
    <3>2. CASE ~Versioned
      BY <2>1, <3>2 DEF Fitting, SealedBy
    <3>. QED
      BY <3>1, <3>2
  <2>4. call.do = "Decrypt" => j.a.art.bind = call.bind
    BY <1>1, <2>1, <2>2 DEF Fitting, AsksOpen
  <2>. QED
    BY <2>2, <2>3, <2>4
<1>. HIDE DEF v
<1>7. ASSUME ans = Refused("mismatch"), ~Openable(j) PROVE Settled(j, call, ans)
  <2>1. ~Watched(j)
    BY Zenon, <1>1, <1>5, <1>7, WorkerFacts
  <2>. QED
    BY Zenon, <1>7, <2>1, RefusedSettled
<1>8. ASSUME NEW val, val \in {Message(j.a.art.msg), Verified}, ans = Granted(x, val, store) PROVE Settled(j, call, ans)
  <2>1. Openable(j) => j.a.art.msg = j.from.art.msg
    BY OpenFits DEF Fitting, AsksOpen
  <2>2. Promised(store, j, val)
    BY <1>8, <2>1, OpenedPromised
  <2>3. Settles(j, Knowing(j, x), val)
    BY <2>2, ValueSettles DEF AsksOpen
  <2>. QED
    BY <1>1, <1>4, <1>8, <2>3, ToldSettled
<1>. QED
  BY Zenon, <1>3, <1>6, <1>7, <1>8, RefusedSettled

\* A public half that the service has given is that of the version that the call is about.
HalfThere(j, t, pub) ==
    /\ pub.form = HalfForm /\ IsHalf(pub) /\ pub.key = t.key /\ pub.ver = Version(t) /\ pub.size = store[t.key].size
    /\ IsText(pub) /\ ~Versioned

\* Key data refers to the key, and the version, of the description it is made of.
LEMMA FullData ==
  ASSUME NEW st, KeysOK(st), KeysFit(st), Remote, Backend \in Backends, Family \in Families,
         NEW t, Describes(st, t), NEW d, d = DataOf(t)
  PROVE  d.ref.key = t.key /\ (NamesVersion => d.ref.ver = t.ver)
<1>. DEFINE u == [t EXCEPT !.form = "ref"]
<1>1. u = t
  BY DEF Describes, Text
<1>2. "ref" \in {"ref", "bare"}
  OBVIOUS
<1>3. d = DataOf(u)
  BY Zenon, <1>1
<1>4. \A f \in {"ref", "bare"} : d = DataOf([t EXCEPT !.form = f]) => 
         /\ d.id.form = "id" /\ d.ref.key = t.key /\ d # NoData
         /\ Refers(st, d.ref) /\ (NamesVersion => d.ref.ver = t.ver)
         /\ Nil(d.pub) \/ (~Versioned /\ Family # "mac" /\ HalfOf(st, d.ref, d.pub))
         /\ f = "ref" /\ Family \in Asymmetric /\ (Backend = "azure" => Family # "ed25519") => ~Nil(d.pub)
  <2>. HIDE DEF u
  <2>1. TAKE f \in {"ref", "bare"}
  <2>2. HAVE d = DataOf([t EXCEPT !.form = f])
  <2>. QED
  BY Zenon, <2>2, DataTexts
<1>. QED
  BY <1>2, <1>3, <1>4

\* The description that a call of such a method is answered with has that half.
LEMMA HalfGiven ==
  ASSUME NEW j, Serving(j), j.op \in TakesPublic, j.op \in Workers, NEW call, NEW t, Lands(j, call, t),
         NEW x, x = Told(t.key, Version(t))
  PROVE  HalfThere(j, t, DataOf(x).pub)
<1>. DEFINE d == DataOf(x)
<1>1. /\ Keeping /\ KeysFit(store) /\ KeysOK(store) /\ Remote /\ Backend \in Backends /\ Family \in Families
      /\ Able(j.op, j.a) /\ FamilyFor(j.op) = Family
  BY Zenon, WorkerFacts
<1>2. /\ t.key \in AllNames /\ store[t.key] # NoKey /\ store[t.key].alg = Family /\ Version(t) \in DOMAIN store[t.key].on
      /\ ~Versioned /\ Family # "mac" => Version(t) = Fixed(Raw(j.a))
  BY Zenon DEF Lands
<1>3. Describes(store, x) /\ x.form = "ref" /\ x.key = t.key /\ x.ver = Version(t) /\ x = [x EXCEPT !.form = "ref"]
  BY <1>2 DEF Describes, Told, Text
<1>4. Family \in Asymmetric /\ (Backend = "azure" => Family # "ed25519")
  <2>1. FamilyFor(j.op) \in Asymmetric
    BY KindsOf DEF TakesPublic, FamilyFor, Asymmetric
  <2>2. FamilyFor(j.op) = "ed25519" => j.op = "VerifyEd25519"
    BY KindsOf DEF TakesPublic, FamilyFor
  <2>. QED
    BY <1>1, <2>1, <2>2 DEF Able
<1>5. d = DataOf([x EXCEPT !.form = "ref"])
  BY Zenon, <1>3
<1>6. /\ d.ref.key = x.key /\ (NamesVersion => d.ref.ver = x.ver) /\ ~Nil(d.pub)
      /\ ~Versioned /\ Family # "mac" /\ HalfOf(store, d.ref, d.pub)
  <2>. HIDE DEF d
  <2>0. "ref" \in {"ref", "bare"}
    OBVIOUS
  <2>1. d.ref.key = x.key /\ (NamesVersion => d.ref.ver = x.ver)
    <3>1. d = DataOf(x)
      BY DEF d
    <3>2. Describes(store, x)
      BY <1>3
    <3>3. d.ref.key = x.key
      BY Zenon, <1>1, <3>1, <3>2, FullData
    <3>4. NamesVersion => d.ref.ver = x.ver
      BY Zenon, <1>1, <3>1, <3>2, FullData
    <3>. QED
      BY <3>3, <3>4
  <2>2. Nil(d.pub) \/ (~Versioned /\ Family # "mac" /\ HalfOf(store, d.ref, d.pub))
    BY <1>1, <1>3, <1>5, <2>0, DataTexts
  <2>3. ~Nil(d.pub)
    BY <1>1, <1>3, <1>4, <1>5, <2>0, DataTexts
  <2>. QED
    BY Zenon, <2>1, <2>2, <2>3
<1>7. IsText(d.pub)
  <2>1. IsText(x)
    BY <1>3 DEF Describes, IsText, Text
  <2>. QED
    BY Zenon, <1>1, <2>1, DataOfForms DEF DataForms
<1>. HIDE DEF d
<1>8. Version(t) = Fixed(d.ref)
  BY <1>2, <1>3, <1>6 DEF Fixed
<1>9. SizeFits(store[t.key].size)
  BY <1>1, <1>2 DEF KeysFit
<1>10. HalfThere(j, t, d.pub)
  BY <1>3, <1>6, <1>7, <1>8, <1>9 DEF HalfThere, HalfOf, IsHalf
<1>. QED
  BY Zenon, <1>10 DEF d

\* What the local method makes of it.
LEMMA HalfMade ==
  ASSUME NEW j, Serving(j), j.op \in TakesPublic, j.op \in Workers, NEW t, NEW pub, HalfThere(j, t, pub),
         NEW b, b = [j.a EXCEPT !.key = pub]
  PROVE  Method(j.op, b) = OfHalf(j.op, b) /\ b.key = pub /\ b.art = j.a.art /\ b.msg = j.a.msg
<1>1. /\ Remote /\ Backend \in Backends /\ FamilyFor(j.op) = Family /\ Foreign(j.a)
  BY Zenon, WorkerFacts
<1>2. IsArgs(j.a)
  BY DEF Serving, Due, Called
<1>3. b.key = pub /\ b.art = j.a.art /\ b.msg = j.a.msg /\ b.configured = j.a.configured
  BY <1>2 DEF IsArgs
<1>4. pub.form \in {"pkix", "kem"} /\ IsText(pub) /\ IsHalf(pub)
  BY DEF HalfThere, HalfForm
<1>5. Foreign(b)
  BY <1>1, <1>3, <1>4 DEF Foreign
<1>6. OnHalf(j.op, b, Method(j.op, b))
  BY Zenon, <1>1, <1>5, ServiceMethods
<1>. QED
  BY Zenon, <1>1, <1>3, <1>4, <1>6 DEF OnHalf

\* Sealing and checking with the public half that the service gives.
LEMMA HalfSettled ==
  ASSUME NEW j, Serving(j), NEW call, NEW t, Lands(j, call, t), AsksHalf(j, call), j.op \in Workers,
         NEW ans \in Answers(call, j)
  PROVE  Settled(j, call, ans)
<1>. DEFINE x == Told(t.key, Version(t))
            pub == DataOf(x).pub
            b == [j.a EXCEPT !.key = pub]
            k == Knowing(j, x)
<1>1. call.do \in {"GetPublicKey", "GetKey"} /\ j.op \in TakesPublic /\ j.plan.then = "local" /\ call.do # "DisablePrevious"
  BY DEF AsksHalf
<1>2. FamilyFor(j.op) = Family /\ Family \in Algorithms /\ IsJob(j) /\ j.st = "calling" /\ Able(j.op, j.a)
  BY Zenon, WorkerFacts
<1>3. Family \in Asymmetric
  <2>1. FamilyFor(j.op) \in Asymmetric
    BY <1>1, KindsOf DEF TakesPublic, FamilyFor, Asymmetric
  <2>. QED
    BY <1>2, <2>1
<1>4. ans = Granted(x, NoDigest, store) \/ ans = Refused("off")
  <2>1. ans \in Administer(call, t) /\ store[t.key].alg \in Asymmetric
    BY <1>1, <1>3 DEF Lands
  <2>. QED
    BY <1>1, <2>1 DEF Administer
<1>5. Family \in call.need
  BY <1>2, KindsOf DEF AsksHalf, FamilyFor
<1>6. HalfThere(j, t, pub)
  BY <1>1, HalfGiven
<1>7. Method(j.op, b) = OfHalf(j.op, b) /\ b.key = pub /\ b.art = j.a.art /\ b.msg = j.a.msg
  <2>. HIDE DEF pub
  <2>. QED
    BY <1>1, <1>6, HalfMade
<1>8. Last(k, NoDigest) = Step(Method(j.op, b))
  <2>1. k.plan = j.plan /\ k.reg = x /\ k.op = j.op /\ k.a = j.a
    <3>. HIDE DEF x
    <3>. QED
      BY <1>2, KnowingJob
  <2>. HIDE DEF k, x
  <2>2. Last(k, NoDigest) = Step(Method(k.op, [k.a EXCEPT !.key = DataOf(k.reg).pub]))
    BY <1>1, <2>1, Lasts
  <2>. QED
    BY Zenon, <2>1, <2>2
<1>9. (\A v : Step(Give(v)) = Give(v)) /\ Step(Fail) = Fail
  BY DEF Step, Give, Fail
<1>. HIDE DEF pub, b, k
<1>10. Settles(j, k, NoDigest)
  <2>1. CASE j.op = "RSA_OAEP_Encode"
    <3>1. KindFor(j.op) = "oaep" /\ j.op \in Sealers
      BY <2>1, KindsOf DEF Sealers, Sealer
    <3>2. OfHalf(j.op, b) = Give(Sealed("oaep", pub, j.a.msg, <<>>))
      BY <1>7, <2>1 DEF OfHalf
    <3>3. Promised(store, j, Sealed(KindFor(j.op), pub, j.a.msg, <<>>))
      BY <1>2, <1>6, <3>1, SealFits DEF HalfThere
    <3>. QED
      BY Zenon, <1>7, <1>8, <1>9, <3>1, <3>2, <3>3 DEF Settles
  <2>2. CASE j.op = "ECDH_Encode"
    <3>. DEFINE bind == <<pub.size>>
    <3>1. KindFor(j.op) = "ecdh" /\ j.op \in Sealers
      BY <2>2, KindsOf DEF Sealers, Sealer
    <3>2. OfHalf(j.op, b) = Give(Sealed("ecdh", pub, j.a.msg, bind))
      BY <1>7, <2>2 DEF OfHalf
    <3>. HIDE DEF bind
    <3>3. Promised(store, j, Sealed(KindFor(j.op), pub, j.a.msg, bind))
      BY <1>2, <1>6, <3>1, SealFits DEF HalfThere
    <3>. QED
      BY Zenon, <1>7, <1>8, <1>9, <3>1, <3>2, <3>3 DEF Settles
  <2>3. CASE j.op \in {"VerifyEd25519", "VerifyRSAPSS", "Verify_RSA_PKCS1v15_SHA256"}
    <3>1. j.op \in Openers /\ j.op \notin Sealers /\ j.op # "HMAC" /\ j.op \notin {"RSA_OAEP_Encode", "ECDH_Encode"}
      BY <2>3 DEF Openers, KindOf, Sealers, Sealer
    <3>2. OfHalf(j.op, b) = IF b.art.kind = KindFor(j.op) /\ b.art.key = b.key.key /\ b.art.ver = b.key.ver /\ b.art.msg = b.msg
                            THEN Give(Verified) ELSE Fail
      BY <3>1 DEF OfHalf
    <3>3. Promised(store, j, Verified)
      BY OpenedPromised
    <3>4. ASSUME Openable(j) PROVE OfHalf(j.op, b) = Give(Verified)
      <4>1. Fitting(j, t)
        BY Zenon, <3>1, <3>4, OpenFits
      <4>. QED
        BY <1>6, <1>7, <3>2, <4>1 DEF Fitting, HalfThere
    <3>5. ~Openable(j) => ~Watched(j)
      BY Zenon, <3>1, WorkerFacts
    <3>6. OfHalf(j.op, b) = Give(Verified) \/ OfHalf(j.op, b) = Fail
      BY Zenon, <3>2
    <3>7. OfHalf(j.op, b) = Give(Verified) \/ (OfHalf(j.op, b) = Fail /\ ~Watched(j))
      BY Zenon, <3>4, <3>5, <3>6
    <3>8. Last(k, NoDigest) = Give(Verified) \/ (Last(k, NoDigest) = Fail /\ ~Watched(j))
      BY Zenon, <1>7, <1>8, <1>9, <3>7
    <3>. QED
      BY Zenon, <3>3, <3>8 DEF Settles
  <2>. QED
    BY <1>1, <2>1, <2>2, <2>3 DEF TakesPublic
<1>11. ASSUME ans = Granted(x, NoDigest, store) PROVE Settled(j, call, ans)
  BY <1>1, <1>5, <1>10, <1>11, ToldSettled DEF k
<1>. QED
  BY Zenon, <1>4, <1>11, RefusedSettled

\* Opening under a shared secret, which the token may use itself.
LEMMA SecretSettled ==
  ASSUME NEW j, Serving(j), NEW call, NEW t, Lands(j, call, t), AsksSecret(j, call), call.kind = KindFor(j.op),
         call.need = Algorithms, NEW ans \in Answers(call, j)
  PROVE  Settled(j, call, ans)
<1>. DEFINE v == Version(t)
            x == Told(t.key, v)
            fits == j.a.art.kind = call.kind /\ j.a.art.key = t.key /\ j.a.art.ver = v
            m == Message(j.a.art.msg)
<1>1. /\ j.op = "ECDH_Decode" /\ j.op \in Workers /\ j.op \in Openers /\ j.op \notin Sealers /\ j.op # "HMAC"
      /\ j.plan.then = "open" /\ call.do \in {"Derive", "DecryptInHardware"} /\ call.do \in Computing
      /\ call.do # "DisablePrevious"
  BY DEF AsksSecret, Computing, Workers, Openers, KindOf, Sealers, Sealer
<1>2. ans = Compute(call, t, j.a)
  BY <1>1 DEF Lands
<1>3. \/ ans \in {Refused("use"), Refused("off")}
      \/ ans = Granted(x, NoDigest, store)
      \/ call.do = "Derive" /\ j.a.art.size # store[t.key].size /\ ans = Refused("mismatch")
      \/ call.do = "DecryptInHardware" /\ j.a.art.msg = "" /\ ans = Granted(NoText, NoDigest, store)
      \/ ans = Granted([x EXCEPT !.form = "plain"], NoDigest, store)
      \/ call.do = "DecryptInHardware" /\ ~fits /\ ans = Refused("mismatch")
  <2>. DEFINE w == IF call.do = "Decrypt" THEN SealedBy(t, j.a.art) ELSE Version(t)
              y == Told(t.key, w)
              good == j.a.art.kind = call.kind /\ j.a.art.key = t.key /\ j.a.art.ver = w
  <2>1. \/ ans \in {Refused("use"), Refused("off")}
        \/ ans = Granted(y, NoDigest, store)
        \/ call.do = "Derive" /\ j.a.art.size # store[t.key].size /\ ans = Refused("mismatch")
        \/ call.do = "DecryptInHardware" /\ j.a.art.msg = "" /\ ans = Granted(NoText, NoDigest, store)
        \/ ans = Granted([y EXCEPT !.form = "plain"], NoDigest, store)
        \/ call.do = "DecryptInHardware" /\ ~good /\ ans = Refused("mismatch")
    BY <1>1, <1>2, Computes
  <2>2. w = v
    BY <1>1
  <2>. HIDE DEF w, v
  <2>. QED
    BY Zenon, <2>1, <2>2
<1>4. /\ Family \in Algorithms /\ Family \in call.need /\ IsJob(j) /\ j.st = "calling" /\ FamilyFor(j.op) = Family
      /\ j.a.art = j.from.art
      /\ Watched(j) => Openable(j)
  BY <1>1, WorkerFacts DEF Serving, Due, Called
<1>5. ASSUME Openable(j) PROVE fits /\ j.a.art.size = store[t.key].size /\ (j.a.art.msg # "" \/ ~j.a.opts.hkdf)
  <2>1. Fitting(j, t)
    BY Zenon, <1>1, <1>5, OpenFits
  <2>2. ~Versioned
    BY <1>1, <1>4, KindsOf DEF Versioned, FamilyFor
  <2>3. fits /\ j.a.art.size = store[t.key].size
    BY <2>1, <2>2 DEF Fitting
  <2>4. j.a.art.msg # "" \/ ~j.a.opts.hkdf
    BY <1>1, <1>4, <1>5 DEF Openable, EmptyInHardware
  <2>. QED
    BY <2>3, <2>4
<1>6. Promised(store, j, m)
  BY <1>4, OpenedPromised
<1>7. ASSUME NEW reg
      PROVE  Last(Knowing(j, reg), NoDigest) = Step(IF reg.form = "plain" THEN Give(m) ELSE Mem!OpenWithSecret(reg, j.a.art))
  <2>. DEFINE k == Knowing(j, reg)
  <2>1. k.plan = j.plan /\ k.reg = reg /\ k.a = j.a
    BY <1>4, KnowingJob
  <2>. HIDE DEF k
  <2>2. Last(k, NoDigest) = Step(IF k.reg.form = "plain" THEN Give(Message(k.a.art.msg))
                                 ELSE Mem!OpenWithSecret(k.reg, k.a.art))
    BY <1>1, <2>1, Lasts
  <2>3. Last(k, NoDigest) = Step(IF reg.form = "plain" THEN Give(m) ELSE Mem!OpenWithSecret(reg, j.a.art))
    BY Zenon, <2>1, <2>2
  <2>. QED
    BY Zenon, <2>3 DEF k
<1>8. /\ \A u : Step(Give(u)) = Give(u)
      /\ Step(Fail) = Fail
  BY DEF Step, Give, Fail
<1>9. \A reg : Mem!OpenWithSecret(reg, j.a.art) \in {Give(m), Fail}
  BY DEF Mem!OpenWithSecret, Mem!Give, Mem!Message, Mem!Fail, Give, Message, Fail
<1>10. Openable(j) => Mem!OpenWithSecret(x, j.a.art) = Give(m)
  <2>1. x.key = t.key /\ x.ver = v
    BY DEF Told, Text
  <2>2. Openable(j) => j.a.art.key = x.key /\ j.a.art.ver = x.ver
    BY <1>5, <2>1
  <2>3. [x EXCEPT !.key = x.key, !.ver = x.ver] = x
    BY DEF Told, Text
  <2>. HIDE DEF x
  <2>. QED
    BY <2>2, <2>3 DEF Mem!OpenWithSecret, Mem!Give, Mem!Message, Give, Message
<1>. HIDE DEF v, x, m
<1>11. ASSUME NEW reg, Last(Knowing(j, reg), NoDigest) = Give(m) \/ Last(Knowing(j, reg), NoDigest) = Fail,
              Openable(j) => Last(Knowing(j, reg), NoDigest) = Give(m)
       PROVE  Settles(j, Knowing(j, reg), NoDigest)
  <2>1. CASE Last(Knowing(j, reg), NoDigest) = Give(m)
    BY Zenon, <1>6, <2>1 DEF Settles
  <2>2. CASE Last(Knowing(j, reg), NoDigest) = Fail /\ ~Openable(j)
    BY Zenon, <1>4, <2>2 DEF Settles
  <2>. QED
    BY Zenon, <1>11, <2>1, <2>2
<1>12. ASSUME ans = Granted(x, NoDigest, store) PROVE Settled(j, call, ans)
  <2>1. x.form # "plain"
    BY DEF x, Told, Text
  <2>2. Last(Knowing(j, x), NoDigest) = Step(Mem!OpenWithSecret(x, j.a.art))
    BY <1>7, <2>1
  <2>3. Settles(j, Knowing(j, x), NoDigest)
    BY <1>8, <1>9, <1>10, <1>11, <2>2
  <2>. QED
    BY <1>1, <1>4, <1>12, <2>3, ToldSettled DEF x
<1>13. ASSUME ans = Granted([x EXCEPT !.form = "plain"], NoDigest, store) PROVE Settled(j, call, ans)
  <2>. DEFINE y == [x EXCEPT !.form = "plain"]
  <2>1. y.form = "plain"
    BY DEF x, Told, Text
  <2>. HIDE DEF y
  <2>2. Last(Knowing(j, y), NoDigest) = Give(m)
    BY <1>7, <1>8, <2>1
  <2>3. Settles(j, Knowing(j, y), NoDigest)
    BY <1>11, <2>2
  <2>. QED
    BY <1>1, <1>4, <1>13, <2>3, ToldSettled DEF x, y
<1>14. ASSUME call.do = "DecryptInHardware", j.a.art.msg = "", ans = Granted(NoText, NoDigest, store)
       PROVE  Settled(j, call, ans)
  <2>1. ~Openable(j)
    BY <1>5, <1>14 DEF AsksSecret
  <2>2. NoText.form # "plain"
    BY DEF NoText, Text
  <2>3. Last(Knowing(j, NoText), NoDigest) = Step(Mem!OpenWithSecret(NoText, j.a.art))
    BY <1>7, <2>2
  <2>4. Settles(j, Knowing(j, NoText), NoDigest)
    BY <1>8, <1>9, <1>11, <2>1, <2>3
  <2>5. ans.ok /\ ans.st = store /\ ans.reg = NoText /\ ans.val = NoDigest
    <3>1. ASSUME NEW r, ans = Granted(r, NoDigest, store)
          PROVE  ans.ok /\ ans.st = store /\ ans.reg = r /\ ans.val = NoDigest
      BY <3>1, GrantedFields
    <3>. QED
      BY Zenon, <1>14, <3>1
  <2>6. Needed(call, ans.reg)
    BY <2>5 DEF Needed, Nil
  <2>. QED
    BY Zenon, <1>1, <2>4, <2>5, <2>6 DEF Settled
<1>15. ASSUME ans = Refused("mismatch"), ~Openable(j) PROVE Settled(j, call, ans)
  BY Zenon, <1>4, <1>15, RefusedSettled
<1>. QED
  BY Zenon, <1>3, <1>5, <1>12, <1>13, <1>14, <1>15, RefusedSettled

\* The answers to the methods that work with a key.
LEMMA WorkServed ==
  ASSUME NEW j, Serving(j), j.op \in Workers, NEW ans \in Answers(Head(j.todo), j)
  PROVE  ans.st = store /\ JobServes(store, After(j, ans))
<1>. DEFINE t == j.plan.ref
<1>1. PICK call : Lands(j, call, t)
  BY WorkLands
<1>. HIDE DEF t
<1>2. j.todo = <<call>> /\ Head(j.todo) = call
  BY <1>1, Heads DEF Lands
<1>3. ans \in Answers(call, j)
  BY <1>2
<1>4. Asks(j)
  BY Zenon, WorkerFacts
<1>5. \/ AsksSeal(j, call) /\ call.kind = KindFor(j.op) /\ call.need = Algorithms
      \/ AsksMac(j, call) /\ call.need = Algorithms
      \/ AsksOpen(j, call) /\ call.kind = KindFor(j.op) /\ call.need = Algorithms
      \/ AsksHalf(j, call)
      \/ AsksSecret(j, call) /\ call.kind = KindFor(j.op) /\ call.need = Algorithms
  BY Zenon, <1>2, <1>4, AskedKinds
<1>6. Settled(j, call, ans)
  <2>1. CASE AsksSeal(j, call) /\ call.kind = KindFor(j.op) /\ call.need = Algorithms
    BY <1>1, <1>3, <2>1, SealSettled
  <2>2. CASE AsksMac(j, call) /\ call.need = Algorithms
    BY <1>1, <1>3, <2>2, MacSettled
  <2>3. CASE AsksOpen(j, call) /\ call.kind = KindFor(j.op) /\ call.need = Algorithms
    BY <1>1, <1>3, <2>3, OpenSettled
  <2>4. CASE AsksHalf(j, call)
    BY <1>1, <1>3, <2>4, HalfSettled
  <2>5. CASE AsksSecret(j, call) /\ call.kind = KindFor(j.op) /\ call.need = Algorithms
    BY <1>1, <1>3, <2>5, SecretSettled
  <2>. QED
    BY Zenon, <1>5, <2>1, <2>2, <2>3, <2>4, <2>5
<1>. QED
  BY Zenon, <1>2, <1>6, SettledServes

----------------------------------------------------------------------------
(* The methods that make and manage keys.                                  *)

\* The calls that may follow one.
Leads(call, w)  == w.do # "CreateKey" /\ (Backend = "aws" /\ w.do = "RotateKey" => call.need = {"aes"})
Led(call, todo) == \E T : todo \in Seq(T) /\ \A w \in T : Leads(call, w)

\* Where such a method is: what its next call may be, and what follows it.
Ahead(j) ==
    LET call == Head(j.todo)
    IN  /\ call.do \in Dos \ Computing
        /\ Led(call, Tail(j.todo))
        /\ call.do = "CreateKey" => call.kind = Family /\ j.a.new \in Names /\ store[j.a.new] = NoKey
        /\ call.do = "CreateReplacement" => ~Nil(j.reg) /\ j.a.new \in Names /\ store[j.a.new] = NoKey
        /\ call.do = "UpdatePrimary" => ~Nil(j.reg)
        /\ call.do = "CreateCryptoKeyVersion" => Backend = "gcp"
        /\ call.do = "DisablePrevious" => ~Nil(j.reg)
        /\ j.op \in {"GetKey", "DeactivateKey"} =>
              /\ call.do \in Looking \cup {"DisableKey", "DestroyObject"} /\ call.need = Algorithms
              /\ call.do = "GetPublicKey" => ~Nil(j.reg) /\ (call.else = "skip" \/ call.for = Asymmetric)
              /\ Tail(j.todo) = << >> \/ \E w : Tail(j.todo) = <<w>>
        /\ j.plan.then = IF j.op = "DeactivateKey" THEN "none" ELSE "data"

\* Calls that follow one, written out.
LEMMA LedSeq ==
  ASSUME NEW call
  PROVE  /\ Led(call, << >>)
         /\ \A w : Leads(call, w) => Led(call, <<w>>)
         /\ \A w, x : Leads(call, w) /\ Leads(call, x) => Led(call, <<w, x>>)
         /\ \A w, x, y : Leads(call, w) /\ Leads(call, x) /\ Leads(call, y) => Led(call, <<w, x, y>>)
<1>1. \A s, T : s \in Seq(T) /\ (\A w \in T : Leads(call, w)) => Led(call, s)
  BY Zenon DEF Led
<1>2. Led(call, << >>)
  <2>. DEFINE T == {}
  <2>1. << >> \in Seq(T) /\ \A u \in T : Leads(call, u)
    OBVIOUS
  <2>. HIDE DEF T
  <2>. QED
    BY Zenon, <1>1, <2>1
<1>3. ASSUME NEW w, NEW x, NEW y, Leads(call, w), Leads(call, x), Leads(call, y)
      PROVE  Led(call, <<w>>) /\ Led(call, <<w, x>>) /\ Led(call, <<w, x, y>>)
  <2>. DEFINE T == {w, x, y}
  <2>1. \A u \in T : Leads(call, u)
    BY <1>3
  <2>2. <<w>> \in Seq(T) /\ <<w, x>> \in Seq(T) /\ <<w, x, y>> \in Seq(T)
    OBVIOUS
  <2>. HIDE DEF T
  <2>. QED
    BY Zenon, <1>1, <2>1, <2>2
<1>. QED
  BY Zenon, <1>2, <1>3

\* The first call that is left is one of those that follow.
LEMMA LedRest ==
  ASSUME NEW call, NEW todo, Led(call, todo), NEW reg, NEW rest, rest = Remaining(todo, reg), rest # << >>
  PROVE  Leads(call, Head(rest))
<1>1. PICK T : todo \in Seq(T) /\ \A w \in T : Leads(call, w)
  BY DEF Led
<1>2. \A s \in Seq(T) : s # << >> => Tail(s) \in Seq(T) /\ Head(s) \in T
  OBVIOUS
<1>3. \A s \in Seq(T) : Skip(s, reg) \in Seq(T)
  BY <1>2 DEF Skip
<1>4. rest \in Seq(T)
  BY <1>1, <1>3 DEF Remaining
<1>. QED
  BY <1>1, <1>2, <1>4

\* The calls that follow others, and what they need.
LEMMA LedCalls ==
  /\ \A call, do : do \notin {"CreateKey", "RotateKey"} =>
        /\ Leads(call, Lookup(do))
        /\ \A x : Leads(call, Otherwise(Lookup(do), x)) /\ Leads(call, OnlyFor(Lookup(do), x))
  /\ \A call : Leads(call, PublicKey) /\ Leads(call, NewVersion) /\ Leads(call, PublicHalf) /\ Leads(call, LastLook)
               /\ Leads(call, Promote)
  /\ \A do, x : /\ Lookup(do).need = Algorithms /\ Otherwise(Lookup(do), x).need = Algorithms
                /\ OnlyFor(Lookup(do), x).need = Algorithms /\ Needs(Lookup(do), x).need = x
                /\ Plain(do, x).need = Algorithms
  BY DEF Leads, Lookup, Call, Plain, Otherwise, OnlyFor, Needs, PublicKey, NewVersion, PublicHalf, LastLook, Promote

\* The methods that make a key.
LEMMA MakeAhead ==
  ASSUME NEW j, Due(j), j.op \in DOMAIN Makes
  PROVE  Ahead(j)
<1>. DEFINE call == Head(j.todo)
<1>1. MakeStage(store, j) /\ j.plan.then = "data" /\ j.a.new \in Names
  BY DEF Due, Progress, Given
<1>2. j.op \notin {"GetKey", "DeactivateKey"}
  BY DEF Makes
<1>3. \A size, uses : Creation(size, uses).kind = Family
  BY DEF Creation, Create, Call
<1>4. /\ PublicKey.do = "GetPublicKey" /\ NewVersion.do = "CreateCryptoKeyVersion"
      /\ \A size, uses : Creation(size, uses).do = "CreateKey"
  BY CallFields DEF PublicKey, NewVersion
<1>5. \/ /\ store[j.a.new] = NoKey
         /\ \E size, uses : call = Creation(size, uses)
         /\ Led(call, Tail(j.todo))
      \/ /\ ~Nil(j.reg)
         /\ call = PublicKey \/ (call = NewVersion /\ Backend = "gcp")
         /\ Led(call, Tail(j.todo))
  <2>1. ASSUME NEW w, j.todo = <<w>> PROVE call = w /\ Led(call, Tail(j.todo))
    BY Zenon, <2>1, Heads, LedSeq
  <2>2. ASSUME NEW w, j.todo = <<w, PublicKey>> PROVE call = w /\ Led(call, Tail(j.todo))
    <3>1. call = w /\ Tail(j.todo) = <<PublicKey>>
      BY Zenon, <2>2, Heads
    <3>2. Leads(call, PublicKey) /\ Leads(call, NewVersion)
      BY LedCalls
    <3>3. Led(call, <<PublicKey>>)
      BY Zenon, <3>2, LedSeq
    <3>. QED
      BY Zenon, <3>1, <3>3
  <2>3. ASSUME NEW w, j.todo = <<w, NewVersion, PublicKey>> PROVE call = w /\ Led(call, Tail(j.todo))
    <3>1. call = w /\ Tail(j.todo) = <<NewVersion, PublicKey>>
      BY <2>3, Heads
    <3>2. Leads(call, PublicKey) /\ Leads(call, NewVersion)
      BY LedCalls
    <3>3. Led(call, <<NewVersion, PublicKey>>)
      BY Zenon, <3>2, LedSeq
    <3>. QED
      BY Zenon, <3>1, <3>3
  <2>. HIDE DEF call
  <2>. QED
    BY Zenon, <1>1, <2>1, <2>2, <2>3 DEF MakeStage
<1>. HIDE DEF call
<1>6. CASE call.do = "CreateKey" /\ store[j.a.new] = NoKey /\ call.kind = Family /\ Led(call, Tail(j.todo))
  BY <1>1, <1>2, <1>6 DEF Ahead, Dos, Computing, call
<1>7. CASE call.do \in {"GetPublicKey", "CreateCryptoKeyVersion"} /\ Led(call, Tail(j.todo))
           /\ (call.do = "CreateCryptoKeyVersion" => Backend = "gcp")
  BY <1>1, <1>2, <1>7 DEF Ahead, Dos, Computing, call
<1>. QED
  BY <1>3, <1>4, <1>5, <1>6, <1>7

\* GetKey.
LEMMA InspectAhead ==
  ASSUME NEW j, Due(j), j.op = "GetKey"
  PROVE  Ahead(j)
<1>. DEFINE call == Head(j.todo)
<1>1. InspectStage(j) /\ j.plan.then = "data"
  BY DEF Due, Progress, Manages
<1>2. \/ /\ call \in {Lookup("DescribeKey"), Lookup("GetKey"), Lookup("GetCryptoKey"), Lookup("GetAttributes")}
         /\ Tail(j.todo) = << >> \/ Tail(j.todo) = <<LastLook>>
      \/ call = LastLook /\ ~Nil(j.reg) /\ Tail(j.todo) = << >>
  <2>1. CASE j.todo = Inspection
    <3>1. Remote /\ Backend \in Backends
      BY DueOp
    <3>. QED
      BY <2>1, <3>1, Heads DEF Inspection, LastLook, PublicKey, Remote, Backends
  <2>2. CASE j.todo = <<LastLook>> /\ ~Nil(j.reg)
    BY Zenon, <2>2, Heads
  <2>. QED
    BY Zenon, <1>1, <2>1, <2>2 DEF InspectStage
<1>. HIDE DEF call
<1>3. Led(call, Tail(j.todo)) /\ (Tail(j.todo) = << >> \/ \E w : Tail(j.todo) = <<w>>)
  BY Zenon, <1>2, LedSeq, LedCalls
<1>4. LastLook.do = "GetPublicKey" /\ LastLook.need = Algorithms /\ (LastLook.else = "skip" \/ LastLook.for = Asymmetric)
  BY DEF LastLook, PublicKey, PublicHalf, Otherwise, OnlyFor, Lookup, Call
<1>5. call.do \in Looking /\ call.need = Algorithms
      /\ (call.do = "GetPublicKey" => ~Nil(j.reg) /\ (call.else = "skip" \/ call.for = Asymmetric))
  BY <1>2, <1>4, CallFields, LedCalls DEF Looking
<1>. QED
  BY <1>1, <1>3, <1>5 DEF Ahead, Dos, Computing, Looking, call

\* DeactivateKey.
LEMMA DisableAhead ==
  ASSUME NEW j, Due(j), j.op = "DeactivateKey"
  PROVE  Ahead(j)
<1>. DEFINE call == Head(j.todo)
<1>1. DisableStage(j) /\ j.plan.then = "none"
  BY DEF Due, Progress, Manages
<1>2. /\ \/ call \in {Lookup("GetKey"), Lookup("GetCryptoKey"), Lookup("DisableKey")}
         \/ call \in {Otherwise(Lookup("DisableKey"), "DestroyObject"), Plain("DestroyObject", "none")}
      /\ Tail(j.todo) = << >> \/ Tail(j.todo) = <<Lookup("DisableKey")>>
  <2>1. CASE j.todo = Deactivation(j.a)
    BY <2>1, Heads DEF Deactivation
  <2>2. CASE j.todo = <<Lookup("DisableKey")>>
    BY Zenon, <2>2, Heads
  <2>3. CASE j.todo = <<Plain("DestroyObject", "none")>>
    BY Zenon, <2>3, Heads
  <2>. QED
    BY Zenon, <1>1, <2>1, <2>2, <2>3 DEF DisableStage
<1>. HIDE DEF call
<1>3. Led(call, Tail(j.todo)) /\ (Tail(j.todo) = << >> \/ \E w : Tail(j.todo) = <<w>>)
  <2>1. Leads(call, Lookup("DisableKey"))
    BY LedCalls
  <2>. QED
    BY Zenon, <1>2, <2>1, LedSeq
<1>4. call.do \in {"GetKey", "GetCryptoKey", "DisableKey", "DestroyObject"} /\ call.need = Algorithms
  BY <1>2, CallFields, LedCalls
<1>. QED
  BY <1>1, <1>3, <1>4 DEF Ahead, Dos, Computing, Looking, call

\* Calls left, written out.
LEMMA LedTodo ==
  /\ \A w : Head(<<w>>) = w /\ Led(w, Tail(<<w>>))
  /\ \A w, x : Head(<<w, x>>) = w /\ (Leads(w, x) => Led(w, Tail(<<w, x>>)))
  /\ \A w, x, y : Head(<<w, x, y>>) = w /\ (Leads(w, x) /\ Leads(w, y) => Led(w, Tail(<<w, x, y>>)))
  /\ \A w, x, y, z : /\ Head(<<w, x, y, z>>) = w
                     /\ Leads(w, x) /\ Leads(w, y) /\ Leads(w, z) => Led(w, Tail(<<w, x, y, z>>))
<1>1. ASSUME NEW w PROVE Head(<<w>>) = w /\ Led(w, Tail(<<w>>))
  BY Zenon, Heads, LedSeq
<1>2. ASSUME NEW w, NEW x PROVE Head(<<w, x>>) = w /\ (Leads(w, x) => Led(w, Tail(<<w, x>>)))
  <2>1. Head(<<w, x>>) = w /\ Tail(<<w, x>>) = <<x>>
    OBVIOUS
  <2>2. Leads(w, x) => Led(w, <<x>>)
    BY Zenon, LedSeq
  <2>. QED
    BY <2>1, <2>2
<1>3. ASSUME NEW w, NEW x, NEW y
      PROVE  Head(<<w, x, y>>) = w /\ (Leads(w, x) /\ Leads(w, y) => Led(w, Tail(<<w, x, y>>)))
  <2>1. Head(<<w, x, y>>) = w /\ Tail(<<w, x, y>>) = <<x, y>>
    OBVIOUS
  <2>2. Leads(w, x) /\ Leads(w, y) => Led(w, <<x, y>>)
    BY Zenon, LedSeq
  <2>. QED
    BY Zenon, <2>1, <2>2
<1>4. ASSUME NEW w, NEW x, NEW y, NEW z
      PROVE  /\ Head(<<w, x, y, z>>) = w
             /\ Leads(w, x) /\ Leads(w, y) /\ Leads(w, z) => Led(w, Tail(<<w, x, y, z>>))
  <2>1. Head(<<w, x, y, z>>) = w /\ Tail(<<w, x, y, z>>) = <<x, y, z>>
    OBVIOUS
  <2>2. Leads(w, x) /\ Leads(w, y) /\ Leads(w, z) => Led(w, <<x, y, z>>)
    BY Zenon, LedSeq
  <2>. QED
    BY Zenon, <2>1, <2>2
<1>. QED
  BY Zenon, <1>1, <1>2, <1>3, <1>4

\* RotateKey of a service: a look at the key, and the rotation.
LEMMA ServiceRotateAhead ==
  ASSUME NEW j, Due(j), j.op = "RotateKey", Backend \in {"aws", "azure", "gcp"}
  PROVE  /\ Head(j.todo).do \in Looking \cup {"RotateKey", "CreateCryptoKeyVersion", "UpdatePrimary"}
         /\ Led(Head(j.todo), Tail(j.todo))
         /\ Head(j.todo).do = "UpdatePrimary" => ~Nil(j.reg)
         /\ Head(j.todo).do = "CreateCryptoKeyVersion" => Backend = "gcp"
<1>. DEFINE D == Lookup("DescribeKey")
            N == Needs(D, {"aes"})
            R == Lookup("RotateKey")
            G == Lookup("GetCryptoKey")
            V == Lookup("CreateCryptoKeyVersion")
            K == Lookup("GetKey")
<1>1. RotateStage(store, acked, j)
  BY DEF Due, Progress
<1>2. /\ \A call : Leads(call, D) /\ Leads(call, V) /\ Leads(call, K) /\ Leads(call, PublicHalf) /\ Leads(call, Promote)
      /\ Leads(N, R)
  <2>1. \A call : Leads(call, D) /\ Leads(call, V) /\ Leads(call, K) /\ Leads(call, PublicHalf) /\ Leads(call, Promote)
    BY LedCalls
  <2>2. N.need = {"aes"} /\ R.do = "RotateKey"
    BY LedCalls, CallFields
  <2>. HIDE DEF N, R
  <2>. QED
    BY <2>1, <2>2 DEF Leads
<1>3. /\ D.do = "DescribeKey" /\ N.do = "DescribeKey" /\ R.do = "RotateKey" /\ G.do = "GetCryptoKey" /\ K.do = "GetKey"
      /\ V.do = "CreateCryptoKeyVersion" /\ Promote.do = "UpdatePrimary" /\ PublicHalf.do = "GetPublicKey"
  BY CallFields DEF Promote, PublicHalf
<1>. DEFINE w == Head(j.todo)
<1>4. ASSUME Backend = "aws"
      PROVE  /\ w \in {N, R, D, PublicHalf}
             /\ Led(w, Tail(j.todo))
  <2>1. Rotation(j.a) = <<N, R, D, PublicHalf>>
    BY <1>4 DEF Rotation
  <2>. HIDE DEF N, R, D
  <2>2. j.todo \in {<<N, R, D, PublicHalf>>, <<R, D, PublicHalf>>, <<D, PublicHalf>>, <<PublicHalf>>}
    BY Zenon, <1>1, <1>4, <2>1 DEF RotateStage, AwsRotation, R, D
  <2>3. CASE j.todo = <<N, R, D, PublicHalf>>
    BY <1>2, <2>3, LedTodo
  <2>4. CASE j.todo = <<R, D, PublicHalf>>
    BY <1>2, <2>4, LedTodo
  <2>5. CASE j.todo = <<D, PublicHalf>>
    BY Zenon, <1>2, <2>5, LedTodo
  <2>6. CASE j.todo = <<PublicHalf>>
    BY Zenon, <2>6, LedTodo
  <2>. QED
    BY Zenon, <2>2, <2>3, <2>4, <2>5, <2>6
<1>5. ASSUME Backend = "azure"
      PROVE  /\ w \in {R, K}
             /\ Led(w, Tail(j.todo))
  <2>1. Rotation(j.a) = <<R, K>>
    BY <1>5 DEF Rotation
  <2>. HIDE DEF R, K
  <2>2. j.todo \in {<<R, K>>, <<K>>}
    BY Zenon, <1>1, <1>5, <2>1 DEF RotateStage, AzureRotation, K
  <2>. QED
    BY Zenon, <1>2, <2>2, LedTodo
<1>6. ASSUME Backend = "gcp"
      PROVE  /\ w \in {G, V, Promote, PublicHalf}
             /\ w = Promote => ~Nil(j.reg)
             /\ Led(w, Tail(j.todo))
  <2>1. Rotation(j.a) = <<G, V, Promote, PublicHalf>>
    BY <1>6 DEF Rotation, Promote
  <2>. HIDE DEF G, V
  <2>2. G # Promote
    BY <1>3
  <2>3. GcpRotation(acked, j)
    BY Zenon, <1>1, <1>6 DEF RotateStage
  <2>4. \/ j.todo = <<G, V, Promote, PublicHalf>>
        \/ ~Nil(j.reg) /\ j.todo \in {<<V, Promote, PublicHalf>>, <<Promote, PublicHalf>>, <<PublicHalf>>}
    BY Zenon, <2>1, <2>3 DEF GcpRotation, V
  <2>. HIDE DEF w
  <2>5. /\ j.todo = <<G, V, Promote, PublicHalf>> => w = G /\ Led(w, Tail(j.todo))
        /\ j.todo = <<V, Promote, PublicHalf>> => w = V /\ Led(w, Tail(j.todo))
        /\ j.todo = <<Promote, PublicHalf>> => w = Promote /\ Led(w, Tail(j.todo))
        /\ j.todo = <<PublicHalf>> => w = PublicHalf /\ Led(w, Tail(j.todo))
    <3>1. /\ Led(G, <<V, Promote, PublicHalf>>) /\ Led(V, <<Promote, PublicHalf>>)
          /\ Led(Promote, <<PublicHalf>>) /\ Led(PublicHalf, << >>)
      BY <1>2, LedSeq
    <3>2. ASSUME j.todo = <<G, V, Promote, PublicHalf>> PROVE w = G /\ Led(w, Tail(j.todo))
      <4>1. w = G /\ Tail(j.todo) = <<V, Promote, PublicHalf>>
        BY <3>2 DEF w
      <4>. QED
        BY Zenon, <3>1, <4>1
    <3>3. ASSUME j.todo = <<V, Promote, PublicHalf>> PROVE w = V /\ Led(w, Tail(j.todo))
      <4>1. w = V /\ Tail(j.todo) = <<Promote, PublicHalf>>
        BY <3>3 DEF w
      <4>. QED
        BY Zenon, <3>1, <4>1
    <3>4. ASSUME j.todo = <<Promote, PublicHalf>> PROVE w = Promote /\ Led(w, Tail(j.todo))
      <4>1. w = Promote /\ Tail(j.todo) = <<PublicHalf>>
        BY <3>4 DEF w
      <4>. QED
        BY Zenon, <3>1, <4>1
    <3>5. ASSUME j.todo = <<PublicHalf>> PROVE w = PublicHalf /\ Led(w, Tail(j.todo))
      <4>1. w = PublicHalf /\ Tail(j.todo) = << >>
        BY <3>5 DEF w
      <4>. QED
        BY Zenon, <3>1, <4>1
    <3>. QED
      BY Zenon, <3>2, <3>3, <3>4, <3>5
  <2>. QED
    BY Zenon, <2>2, <2>4, <2>5
<1>. HIDE DEF w, D, N, R, G, V, K
<1>7. w.do = "UpdatePrimary" => ~Nil(j.reg)
  BY <1>3, <1>4, <1>5, <1>6
<1>8. w.do \in Looking \cup {"RotateKey", "CreateCryptoKeyVersion", "UpdatePrimary"}
  BY <1>3, <1>4, <1>5, <1>6 DEF Looking
<1>9. w.do = "CreateCryptoKeyVersion" => Backend = "gcp"
  BY <1>3, <1>4, <1>5
<1>. QED
  BY Zenon, <1>4, <1>5, <1>6, <1>7, <1>8, <1>9 DEF w

\* RotateKey of a token: a look at the key, the replacement, and what follows it.
LEMMA TokenRotateAhead ==
  ASSUME NEW j, Due(j), j.op = "RotateKey", Backend = "pkcs11"
  PROVE  /\ Head(j.todo).do \in {"GetAttributes", "CreateReplacement", "GetPublicKey", "DisablePrevious"}
         /\ Led(Head(j.todo), Tail(j.todo))
         /\ Head(j.todo).do = "CreateReplacement" => ~Nil(j.reg) /\ store[j.a.new] = NoKey
         /\ Head(j.todo).do = "DisablePrevious" => ~Nil(j.reg)
<1>. DEFINE A == Needs(Lookup("GetAttributes"), {"aes"} \cup Asymmetric)
            C == Lookup("CreateReplacement")
            D == Lookup("DisablePrevious")
            w == Head(j.todo)
<1>1. TokenRotation(store, j)
  BY DEF Due, Progress, RotateStage
<1>2. \A call : Leads(call, C) /\ Leads(call, D) /\ Leads(call, PublicHalf)
  BY LedCalls
<1>3. /\ Rotation(j.a) = <<A, C, PublicHalf, D>> \/ Rotation(j.a) = <<A, C, PublicHalf>>
      /\ Tail(Rotation(j.a)) = <<C, PublicHalf, D>> \/ Tail(Rotation(j.a)) = <<C, PublicHalf>>
      /\ A.do = "GetAttributes" /\ C.do = "CreateReplacement" /\ D.do = "DisablePrevious" /\ PublicHalf.do = "GetPublicKey"
  BY TokenCalls
<1>. HIDE DEF A, C, D
<1>4. \/ store[j.a.new] = NoKey /\ j.todo \in {<<A, C, PublicHalf, D>>, <<A, C, PublicHalf>>}
      \/ store[j.a.new] = NoKey /\ ~Nil(j.reg) /\ j.todo \in {<<C, PublicHalf, D>>, <<C, PublicHalf>>}
      \/ ~Nil(j.reg) /\ j.todo \in {<<PublicHalf, D>>, <<D>>, <<PublicHalf>>}
  BY Zenon, <1>1, <1>3 DEF TokenRotation, D
<1>5. \/ w = A /\ Led(w, Tail(j.todo))
      \/ w = C /\ Led(w, Tail(j.todo)) /\ store[j.a.new] = NoKey /\ ~Nil(j.reg)
      \/ w \in {PublicHalf, D} /\ Led(w, Tail(j.todo)) /\ ~Nil(j.reg)
  <2>1. CASE j.todo \in {<<A, C, PublicHalf, D>>, <<A, C, PublicHalf>>}
    <3>1. Led(A, <<C, PublicHalf, D>>) /\ Led(A, <<C, PublicHalf>>)
      BY <1>2, LedSeq
    <3>2. ASSUME j.todo = <<A, C, PublicHalf, D>> PROVE w = A /\ Led(w, Tail(j.todo))
      <4>1. w = A /\ Tail(j.todo) = <<C, PublicHalf, D>>
        BY <3>2 DEF w
      <4>. QED
        BY Zenon, <3>1, <4>1
    <3>3. ASSUME j.todo = <<A, C, PublicHalf>> PROVE w = A /\ Led(w, Tail(j.todo))
      <4>1. w = A /\ Tail(j.todo) = <<C, PublicHalf>>
        BY <3>3 DEF w
      <4>. QED
        BY Zenon, <3>1, <4>1
    <3>. QED
      BY Zenon, <2>1, <3>2, <3>3
  <2>2. CASE store[j.a.new] = NoKey /\ ~Nil(j.reg) /\ j.todo \in {<<C, PublicHalf, D>>, <<C, PublicHalf>>}
    <3>1. Led(C, <<PublicHalf, D>>) /\ Led(C, <<PublicHalf>>)
      BY <1>2, LedSeq
    <3>2. ASSUME j.todo = <<C, PublicHalf, D>> PROVE w = C /\ Led(w, Tail(j.todo))
      <4>1. w = C /\ Tail(j.todo) = <<PublicHalf, D>>
        BY <3>2 DEF w
      <4>. QED
        BY Zenon, <3>1, <4>1
    <3>3. ASSUME j.todo = <<C, PublicHalf>> PROVE w = C /\ Led(w, Tail(j.todo))
      <4>1. w = C /\ Tail(j.todo) = <<PublicHalf>>
        BY <3>3 DEF w
      <4>. QED
        BY Zenon, <3>1, <4>1
    <3>. QED
      BY Zenon, <2>2, <3>2, <3>3
  <2>3. CASE ~Nil(j.reg) /\ j.todo \in {<<PublicHalf, D>>, <<D>>, <<PublicHalf>>}
    BY Zenon, <1>2, <2>3, LedTodo
  <2>. QED
    BY Zenon, <1>4, <2>1, <2>2, <2>3
<1>. HIDE DEF w
<1>6. \/ w.do = "GetAttributes"
      \/ w.do = "CreateReplacement" /\ store[j.a.new] = NoKey /\ ~Nil(j.reg)
      \/ w.do \in {"GetPublicKey", "DisablePrevious"} /\ ~Nil(j.reg)
  BY <1>3, <1>5
<1>7. Led(w, Tail(j.todo))
  BY Zenon, <1>5
<1>. QED
  BY <1>6, <1>7 DEF w

\* RotateKey.
LEMMA RotateAhead ==
  ASSUME NEW j, Due(j), j.op = "RotateKey"
  PROVE  Ahead(j)
<1>1. Remote /\ Backend \in Backends
  BY DueOp
<1>2. j.plan.then = "data" /\ j.a.new \in Names
  BY DEF Due, Progress, Given, Manages, Creates
<1>3. CASE Backend \in {"aws", "azure", "gcp"}
  <2>1. /\ Head(j.todo).do \in Looking \cup {"RotateKey", "CreateCryptoKeyVersion", "UpdatePrimary"}
        /\ Led(Head(j.todo), Tail(j.todo))
        /\ Head(j.todo).do = "UpdatePrimary" => ~Nil(j.reg)
        /\ Head(j.todo).do = "CreateCryptoKeyVersion" => Backend = "gcp"
    BY <1>3, ServiceRotateAhead
  <2>. QED
    BY <1>2, <2>1 DEF Ahead, Dos, Computing, Looking
<1>4. CASE Backend = "pkcs11"
  <2>1. /\ Head(j.todo).do \in {"GetAttributes", "CreateReplacement", "GetPublicKey", "DisablePrevious"}
        /\ Led(Head(j.todo), Tail(j.todo))
        /\ Head(j.todo).do = "CreateReplacement" => ~Nil(j.reg) /\ store[j.a.new] = NoKey
        /\ Head(j.todo).do = "DisablePrevious" => ~Nil(j.reg)
    BY <1>4, TokenRotateAhead
  <2>. QED
    BY <1>2, <2>1 DEF Ahead, Dos, Computing
<1>. QED
  BY <1>1, <1>3, <1>4 DEF Remote, Backends

\* The methods that make and manage keys are told so.
LEMMA AnyAhead ==
  ASSUME NEW j, Due(j), j.op \in DOMAIN Makes \cup Manages
  PROVE  Ahead(j)
BY MakeAhead, InspectAhead, DisableAhead, RotateAhead DEF Manages

\* The methods that make and manage keys seal and open nothing.
LEMMA ManagingFacts ==
  ASSUME NEW j, j.op \in DOMAIN Makes \cup Manages
  PROVE  /\ j.op \notin Workers /\ j.op \notin Openers /\ j.op \notin Sealers /\ j.op \notin Hashes
         /\ j.op \notin {"GetKey", "DeactivateKey"} => ~Watched(j)
<1>1. j.op \notin Workers
  BY Zenon, WorkersAre
<1>2. j.op \notin Openers /\ j.op \notin Sealers /\ j.op \notin Hashes /\ j.op # "HMAC"
  <2>1. j.op \notin Openers /\ j.op \notin Sealers
    BY Zenon, <1>1, WorkersAre
  <2>2. j.op \notin Hashes
    BY DEF Makes, Manages, Hashes
  <2>. QED
    BY <2>1, <2>2 DEF Hashes
<1>3. j.op \notin {"GetKey", "DeactivateKey"} => ~Watched(j)
  BY <1>2 DEF Watched, Manageable, Sealable, Openable
<1>. QED
  BY Zenon, <1>1, <1>2, <1>3

\* The service refuses such a method a call only for a fault, a version turned
\* off or a use, where it looks up or deactivates a key.
LEMMA ManageRefused ==
  ASSUME NEW j, Serving(j), j.op \in DOMAIN Makes \cup Manages, NEW ans \in Answers(Head(j.todo), j), ~ans.ok
  PROVE  ans.st = store /\ JobServes(store, After(j, ans))
<1>. DEFINE call == Head(j.todo)
            t == Aim(call, j)
<1>1. /\ Due(j) /\ KeysFit(store) /\ Under(store, j) /\ Ahead(j)
      /\ Nil(t) \/ Within(store, t)
      /\ Nil(j.reg) \/ Describes(store, j.reg)
  BY NextCall, AnyAhead DEF Serving, Under
<1>2. PICK why : ans = Refused(why)
  BY Zenon, <1>1, NextCall
<1>3. ans.st = store /\ ans.why = why
  BY <1>2, RefusedFields
<1>4. CASE j.op \notin {"GetKey", "DeactivateKey"}
  <2>1. JobServes(store, After(j, Refused(why)))
    BY <1>4, ManagingFacts, RefusedServes
  <2>. QED
    BY Zenon, <1>2, <1>3, <2>1
<1>5. CASE j.op \in {"GetKey", "DeactivateKey"}
  <2>1. /\ j.plan.ref.form \in {"ref", "id"}
        /\ Nil(j.reg) \/ j.reg.alg \in call.for
    BY <1>1, <1>5 DEF Under
  <2>2. /\ call.do \in Looking \cup {"DisableKey", "DestroyObject"}
        /\ call.do = "GetPublicKey" => ~Nil(j.reg) /\ (call.else = "skip" \/ call.for = Asymmetric)
    BY <1>1, <1>5 DEF Ahead
  <2>3. call.do \in Looking \cup Disabling /\ call.do # "DisablePrevious"
    BY <2>2 DEF Looking, Disabling
  <2>. HIDE DEF call
  <2>4. t = IF Nil(j.reg) THEN j.plan.ref ELSE j.reg
    BY <2>3 DEF Aim, Nil
  <2>5. ~Nil(j.reg) => j.reg.form = "ref" /\ j.reg.alg = Family /\ store[j.reg.key].alg = Family
    BY <1>1, Described DEF KeysFit
  <2>6. t.form \in {"ref", "id"} /\ Within(store, t)
    BY <1>1, <2>1, <2>4, <2>5 DEF Nil, NoText, Text
  <2>7. ans.why \in Blameless \/ (call.do = "GetPublicKey" /\ store[t.key].alg \notin Asymmetric)
    <3>. HIDE DEF t
    <3>1. ans \in Answers(call, j)
      BY DEF call
    <3>. QED
      BY <2>3, <2>6, <3>1, RefusedFairly DEF t
  <2>8. call.else = "fail" => why \in Blameless
    <3>1. ASSUME call.else = "fail", call.do = "GetPublicKey" PROVE store[t.key].alg \in Asymmetric
      <4>1. t = j.reg /\ call.for = Asymmetric
        BY <2>2, <2>4, <3>1
      <4>. HIDE DEF t
      <4>. QED
        BY <2>1, <2>2, <2>5, <3>1, <4>1
    <3>. QED
      BY Zenon, <1>3, <2>7, <3>1
  <2>9. JobServes(store, After(j, Refused(why)))
    <3>1. Head(j.todo).else = "fail" => why \in Blameless
      BY Zenon, <2>8 DEF call
    <3>. QED
      BY <3>1, RefusedServes
  <2>. QED
    BY Zenon, <1>2, <1>3, <2>9
<1>. QED
  BY Zenon, <1>4, <1>5

\* An answer that is granted describes the key that it is about.
LEMMA ManageDescribed ==
  ASSUME NEW j, Serving(j), j.op \in DOMAIN Makes \cup Manages, NEW ans \in Answers(Head(j.todo), j), ans.ok
  PROVE  Widened(ans.st) /\ Describes(ans.st, ans.reg)
<1>. DEFINE call == Head(j.todo)
            t == Aim(call, j)
<1>1. /\ Due(j) /\ Keeping /\ KeysFit(store) /\ Under(store, j)
      /\ Nil(t) \/ Within(store, t)
      /\ Nil(j.reg) \/ Describes(store, j.reg)
  BY NextCall DEF Serving, Under
<1>2. Ahead(j)
  BY <1>1, AnyAhead
<1>3. Effected(ans.st, j.a.new)
  BY Zenon, <1>1, AnyAnswered DEF Answered
<1>4. /\ call.do \in Dos \ Computing
      /\ call.do = "CreateKey" =>
            call.kind = Family /\ SizeFits(call.size) /\ j.a.new \in Names /\ store[j.a.new] = NoKey
      /\ Backend = "aws" /\ call.do \in {"RotateKey", "CreateCryptoKeyVersion"} => Family = "aes"
      /\ call.do = "CreateReplacement" => ~Nil(j.reg) /\ j.a.new \in Names /\ store[j.a.new] = NoKey
      /\ call.do = "UpdatePrimary" => ~Nil(j.reg)
  BY <1>1, <1>2 DEF Ahead, Under
<1>. HIDE DEF call
<1>5. /\ call.do = "CreateReplacement" => Describes(store, t)
      /\ call.do = "UpdatePrimary" => Describes(store, t)
  BY <1>1, <1>4 DEF Aim, Nil
<1>6. ans \in Answers(call, j)
  BY DEF call
<1>. HIDE DEF t
<1>. QED
  BY <1>1, <1>3, <1>4, <1>5, <1>6, AnswerFits DEF t

\* Such an answer leaves the call as it must be,
LEMMA ManageGranted ==
  ASSUME NEW j, Serving(j), j.op \in DOMAIN Makes \cup Manages, NEW ans \in Answers(Head(j.todo), j), ans.ok,
         Head(j.todo).do # "DisablePrevious"
  PROVE  Widened(ans.st) /\ JobServes(ans.st, After(j, ans))
<1>. DEFINE call == Head(j.todo)
            n == After(j, ans)
            rest == Remaining(Tail(j.todo), ans.reg)
            st == ans.st
<1>1. /\ Due(j) /\ IsJob(j) /\ j.st = "calling" /\ Had(store, j) /\ Under(store, j) /\ Ahead(j)
      /\ Remote /\ Backend \in Backends /\ Family \in Families
  BY DueOp, AnyAhead DEF Serving, Due, EnvOK
<1>2. Widened(st) /\ Describes(st, ans.reg)
  BY Zenon, ManageDescribed
<1>3. /\ ~Nil(ans.reg) /\ ans.reg.alg = Family /\ ans.reg.alg \in Algorithms
  <2>1. KeysFit(st)
    BY Zenon, <1>2 DEF Widened
  <2>2. ~Nil(ans.reg) /\ ans.reg.alg = Family
    BY Zenon, <1>2, <2>1, Described
  <2>. QED
    BY <1>1, <2>2 DEF Families, Algorithms
<1>4. Had(st, j)
  BY <1>1, <1>2, WiderKeeps DEF Had, Widened
<1>5. \/ ~Needed(call, ans.reg) /\ n = Returned(j, Fail, "mismatch")
      \/ Needed(call, ans.reg) /\ rest # << >> /\ Goes(j, n, ans.reg, rest)
      \/ Needed(call, ans.reg) /\ rest = << >> /\ Ends(Knowing(j, ans.reg), n, ans.val)
  BY <1>1, AfterGranted
<1>. HIDE DEF n, st, rest
<1>6. CASE ~Needed(call, ans.reg) /\ n = Returned(j, Fail, "mismatch")
  <2>1. j.op \notin {"GetKey", "DeactivateKey"}
    BY <1>1, <1>3, <1>6 DEF Ahead, Needed
  <2>2. ~Watched(j) /\ Alike(j, j)
    BY <2>1, ManagingFacts DEF Alike
  <2>3. JobServes(st, Returned(j, Fail, "mismatch"))
    BY <1>1, <1>4, <2>2, FailServes
  <2>. QED
    BY Zenon, <1>2, <1>6, <2>3 DEF n, st
<1>7. CASE Needed(call, ans.reg) /\ rest # << >> /\ Goes(j, n, ans.reg, rest)
  <2>1. n.todo = rest /\ n.reg = ans.reg /\ n.op = j.op /\ n.plan = j.plan
    BY Zenon, <1>7 DEF Goes, Alike
  <2>2. Leads(call, Head(rest))
    <3>1. Led(call, Tail(j.todo))
      BY Zenon, <1>1 DEF Ahead
    <3>2. rest = Remaining(Tail(j.todo), ans.reg)
      BY Zenon DEF rest
    <3>. HIDE DEF call
    <3>. QED
      BY <1>7, <3>1, <3>2, LedRest
  <2>3. Backend = "aws" /\ Head(rest).do = "RotateKey" => Family = "aes"
    BY <1>3, <1>7, <2>2 DEF Leads, Needed
  <2>4. j.op \in {"GetKey", "DeactivateKey"} => j.plan.ref.form \in {"ref", "id"} /\ ans.reg.alg \in Head(rest).for
    <3>. SUFFICES ASSUME j.op \in {"GetKey", "DeactivateKey"}
                  PROVE  j.plan.ref.form \in {"ref", "id"} /\ ans.reg.alg \in Head(rest).for
      OBVIOUS
    <3>1. Tail(j.todo) = << >> \/ \E w : Tail(j.todo) = <<w>>
      BY <1>1 DEF Ahead
    <3>2. \A x : Remaining(<< >>, x) = << >>
      BY DEF Remaining, Skip
    <3>3. PICK w : Tail(j.todo) = <<w>>
      BY <1>7, <3>1, <3>2 DEF rest
    <3>4. rest = Remaining(<<w>>, ans.reg)
      BY <3>3 DEF rest
    <3>5. rest = <<w>> /\ ans.reg.alg \in w.for
      BY <1>3, <1>7, <3>4, LeftOne
    <3>6. Head(rest) = w
      BY <3>5
    <3>. QED
      BY <1>1, <3>5, <3>6 DEF Under
  <2>5. j.op \notin {"Sha256Hex", "Blake3"} /\ j.op \notin Workers
    BY ManagingFacts DEF Hashes
  <2>6. Under(st, n)
    BY <1>2, <2>1, <2>2, <2>3, <2>4, <2>5 DEF Under, Leads, st
  <2>7. JobServes(st, n)
    BY <1>4, <1>7, <2>6, GoesServes
  <2>. QED
    BY Zenon, <1>2, <2>7 DEF n, st
<1>8. CASE Ends(Knowing(j, ans.reg), n, ans.val)
  <2>. DEFINE k == Knowing(j, ans.reg)
  <2>1. k.plan = j.plan /\ k.reg = ans.reg
    BY <1>1, KnowingJob
  <2>2. j.plan.then = "data" \/ j.plan.then = "none"
    BY <1>1 DEF Ahead
  <2>. HIDE DEF k
  <2>3. \/ Last(k, ans.val) = Give(DataOf(ans.reg))
        \/ Last(k, ans.val) = Give(NoDigest)
    BY <2>1, <2>2, Lasts
  <2>4. j.op \notin Openers
    BY ManagingFacts
  <2>5. Promised(st, j, DataOf(ans.reg))
    <3>1. \A d : d = DataOf(ans.reg) => Promised(st, j, d)
      BY <1>1, <1>2, <2>4, DataPromised DEF st
    <3>. QED
      BY Zenon, <3>1
  <2>6. Promised(st, j, NoDigest)
    BY <2>4, NothingPromised
  <2>7. JobServes(st, n)
    BY <1>1, <1>4, <1>8, <2>3, <2>5, <2>6, EndsServes DEF k
  <2>. QED
    BY Zenon, <1>2, <2>7 DEF n, st
<1>. QED
  BY Zenon, <1>5, <1>6, <1>7, <1>8

\* ... also where it disables the key that was replaced, of which nothing new is told.
LEMMA PreviousGranted ==
  ASSUME NEW j, Serving(j), j.op \in DOMAIN Makes \cup Manages, NEW ans \in Answers(Head(j.todo), j), ans.ok,
         Head(j.todo).do = "DisablePrevious"
  PROVE  Widened(ans.st) /\ JobServes(ans.st, After(j, ans))
<1>. DEFINE n == After(j, ans)
            st == ans.st
<1>1. /\ Due(j) /\ IsJob(j) /\ j.st = "calling" /\ Had(store, j) /\ Under(store, j) /\ Ahead(j)
      /\ Remote /\ Backend \in Backends
  BY DueOp, AnyAhead DEF Serving, Due
<1>2. /\ Widened(st)
      /\ j.op \notin {"GetKey", "DeactivateKey"} /\ j.op \notin Openers /\ ~Watched(j) /\ j.plan.then = "data"
      /\ Describes(store, j.reg)
  <2>1. Widened(st)
    BY Zenon, ManageDescribed
  <2>2. j.op \notin {"GetKey", "DeactivateKey"} /\ j.plan.then = "data" /\ Describes(store, j.reg)
    BY <1>1 DEF Ahead, Under, Looking
  <2>. QED
    BY Zenon, <2>1, <2>2, ManagingFacts
<1>3. Had(st, j)
  BY <1>1, <1>2, WiderKeeps DEF Had, Widened
<1>4. n = Returned(j, Fail, "mismatch") \/ Ends(j, n, ans.val)
  BY DEF After, Ends, Last
<1>. HIDE DEF n, st
<1>5. CASE n = Returned(j, Fail, "mismatch")
  <2>1. Alike(j, j)
    BY DEF Alike
  <2>2. JobServes(st, Returned(j, Fail, "mismatch"))
    BY <1>1, <1>2, <1>3, <2>1, FailServes
  <2>. QED
    BY Zenon, <1>2, <1>5, <2>2 DEF n, st
<1>6. CASE Ends(j, n, ans.val)
  <2>1. Knowing(j, j.reg) = j
    BY <1>1 DEF Knowing, IsJob
  <2>2. Last(j, ans.val) = Give(DataOf(j.reg))
    BY <1>2, Lasts
  <2>3. Describes(st, j.reg)
    BY <1>2, WiderKeeps DEF Widened
  <2>4. Promised(st, j, DataOf(j.reg))
    <3>1. \A d : d = DataOf(j.reg) => Promised(st, j, d)
      BY <1>1, <1>2, <2>3, DataPromised
    <3>. QED
      BY Zenon, <3>1
  <2>5. \A reg : reg = j.reg => Ends(Knowing(j, reg), n, ans.val) /\ Last(Knowing(j, reg), ans.val) = Give(DataOf(j.reg))
    BY Zenon, <1>6, <2>1, <2>2
  <2>6. JobServes(st, n)
    BY <1>1, <1>3, <2>4, <2>5, EndsServes
  <2>. QED
    BY Zenon, <1>2, <2>6 DEF n, st
<1>. QED
  BY Zenon, <1>4, <1>5, <1>6

\* Whatever the service does, and whether or not it fails in doing so, the
\* call stays as it must be.
LEMMA AnyServed ==
  ASSUME NEW j, Serving(j), NEW ans \in Answers(Head(j.todo), j)
  PROVE  /\ Widened(store) /\ Widened(ans.st)
         /\ JobServes(ans.st, After(j, ans))
         /\ JobServes(store, After(j, Refused("fault"))) /\ JobServes(ans.st, After(j, Refused("fault")))
<1>. DEFINE n == After(j, ans)
            f == After(j, Refused("fault"))
<1>1. /\ KeysFit(store) /\ Under(store, j) /\ Due(j)
      /\ j.op \in AllOps
  BY DueOp DEF Serving
<1>2. Widened(store)
  BY <1>1, GrowsItself DEF Widened, Wider
<1>3. Widened(ans.st) /\ JobServes(ans.st, n)
  <2>1. CASE j.op \in Workers
    <3>1. ans.st = store /\ JobServes(store, n)
      BY Zenon, <2>1, WorkServed
    <3>. QED
      BY Zenon, <1>2, <3>1
  <2>2. CASE j.op \in DOMAIN Makes \cup Manages
    <3>1. CASE ~ans.ok
      <4>1. ans.st = store /\ JobServes(store, n)
        BY Zenon, <2>2, <3>1, ManageRefused
      <4>. QED
        BY Zenon, <1>2, <4>1
    <3>2. CASE ans.ok /\ Head(j.todo).do = "DisablePrevious"
      BY Zenon, <2>2, <3>2, PreviousGranted
    <3>3. CASE ans.ok /\ Head(j.todo).do # "DisablePrevious"
      BY Zenon, <2>2, <3>3, ManageGranted
    <3>. QED
      BY Zenon, <3>1, <3>2, <3>3
  <2>3. j.op \in Workers \cup DOMAIN Makes \cup Manages
    <3>1. j.op \notin {"Sha256Hex", "Blake3"}
      BY <1>1 DEF Under
    <3>2. j.op \in Using \cup DOMAIN Seals \cup DOMAIN Makes \cup Manages
      BY <1>1 DEF AllOps, Seals
    <3>. QED
      BY <3>1, <3>2, WorkersAre
  <2>. QED
    BY <2>1, <2>2, <2>3
<1>4. JobServes(store, f)
  <2>1. "fault" \in Blameless
    BY DEF Blameless
  <2>. QED
    BY <2>1, RefusedServes
<1>5. JobServes(ans.st, f)
  <2>. HIDE DEF f
  <2>1. Wider(store, ans.st)
    BY Zenon, <1>3 DEF Widened
  <2>. QED
    BY Zenon, <1>4, <2>1, WiderJob
<1>. QED
  BY Zenon, <1>2, <1>3, <1>4, <1>5

----------------------------------------------------------------------------
(* The steps.                                                              *)

\* What is said of the keys' use depends on the environment, which never
\* changes, and on what it is about.
LEMMA SameServes ==
  ASSUME env' = env
  PROVE  /\ \A st : KeysFit(st)' <=> KeysFit(st)
         /\ \A st, d : DataFits(st, d)' <=> DataFits(st, d)
         /\ \A st, t : Refers(st, t)' <=> Refers(st, t)
         /\ \A st, art, with : ArtFits(st, art, with)' <=> ArtFits(st, art, with)
         /\ \A st, j : JobServes(st, j)' <=> JobServes(st, j)
<1>1. (Backend' = Backend) /\ (Family' = Family)
  BY DEF Backend, Family
<1>2. (Remote' <=> Remote) /\ (Versioned' <=> Versioned) /\ (NamesVersion' <=> NamesVersion)
  BY <1>1 DEF Remote, Versioned, NamesVersion
<1>3. \A s : SizeFits(s)' <=> SizeFits(s)
  BY <1>1 DEF SizeFits
<1>4. \A st : KeysFit(st)' <=> KeysFit(st)
  BY Zenon, <1>1, <1>3 DEF KeysFit
<1>5. \A st, t : Describes(st, t)' <=> Describes(st, t)
  BY Zenon, <1>1 DEF Describes
<1>6. \A t : DataOf(t)' = DataOf(t)
  BY Zenon, <1>1 DEF DataOf
<1>7. \A st, d : DataFits(st, d)' <=> DataFits(st, d)
  BY Zenon, <1>5, <1>6 DEF DataFits
<1>8. \A st, t : Refers(st, t)' <=> Refers(st, t)
  BY Zenon, <1>2 DEF Refers
<1>9. \A with : Source(with)' = Source(with)
  BY Zenon DEF Source
<1>10. \A s : Fixed(s)' = Fixed(s)
  BY Zenon, <1>2 DEF Fixed
<1>11. \A st, art, with : ArtFits(st, art, with)' <=> ArtFits(st, art, with)
  BY Zenon, <1>1, <1>2, <1>8, <1>9, <1>10 DEF ArtFits
<1>12. \A op, d : KeyTexts(op, d)' = KeyTexts(op, d)
  BY Zenon, <1>1 DEF KeyTexts
<1>13. \A st, j : Had(st, j)' <=> Had(st, j)
  BY Zenon, <1>1, <1>7, <1>11, <1>12 DEF Had
<1>14. \A op, a : Plan(op, a)' = Plan(op, a)
  <2>1. \A s : Bare(s)' = Bare(s)
    BY Zenon, <1>1 DEF Bare
  <2>2. Served' <=> Served
    BY Zenon, <1>1 DEF Served
  <2>3. \A uid, add : Bind(uid, add)' = Bind(uid, add)
    BY Zenon, <1>1 DEF Bind
  <2>. QED
    BY Zenon, <1>1, <2>1, <2>2, <2>3 DEF Plan
<1>15. \A op, a : Able(op, a)' <=> Able(op, a)
  BY Zenon, <1>1 DEF Able
<1>16. \A j : Asks(j)' <=> Asks(j)
  BY Zenon, <1>14, <1>15 DEF Asks
<1>17. \A st, j : Under(st, j)' <=> Under(st, j)
  BY Zenon, <1>1, <1>3, <1>5, <1>16 DEF Under
<1>18. \A j : Serves(j)' <=> Serves(j)
  <2>1. \A j : Manageable(j)' <=> Manageable(j)
    BY Zenon, <1>1, <1>2 DEF Manageable
  <2>2. \A j : Sealable(j)' <=> Sealable(j)
    BY Zenon, <1>1 DEF Sealable
  <2>. QED
    BY Zenon, <2>1, <2>2 DEF Serves
<1>19. \A st, j : Done(st, j)' <=> Done(st, j)
  BY Zenon, <1>7, <1>11, <1>18 DEF Done
<1>20. \A st, j : JobServes(st, j)' <=> JobServes(st, j)
  BY Zenon, <1>13, <1>17, <1>19 DEF JobServes
<1>. QED
  BY Zenon, <1>4, <1>7, <1>8, <1>11, <1>20

\* The invariant after a step, from its parts.
LEMMA Serviced ==
  ASSUME ServiceServes, env' = env, Widened(store'),
         \A d \in held' : DataFits(store', d), \A e \in arts' : ArtFits(store', e.art, e.with),
         \A c \in Clients : JobServes(store', job'[c])
  PROVE  ServiceServes'
<1>1. env.vault /\ (Backend = "gcp" => ~Nil(env.configured)) /\ (Nil(env.configured) \/ Refers(store, env.configured))
  BY Zenon DEF ServiceServes
<1>2. KeysFit(store') /\ (Nil(env.configured) \/ Refers(store', env.configured))
  BY Zenon, <1>1, WiderKeeps DEF Widened
<1>3. \A st : KeysFit(st)' <=> KeysFit(st)
  BY Zenon, SameServes
<1>4. \A st, d : DataFits(st, d)' <=> DataFits(st, d)
  BY Zenon, SameServes
<1>5. \A st, t : Refers(st, t)' <=> Refers(st, t)
  BY Zenon, SameServes
<1>6. \A st, art, with : ArtFits(st, art, with)' <=> ArtFits(st, art, with)
  BY Zenon, SameServes
<1>7. \A st, j : JobServes(st, j)' <=> JobServes(st, j)
  BY Zenon, SameServes
<1>8. KeysFit(store)' /\ (Nil(env.configured) \/ Refers(store, env.configured))'
  BY Zenon, <1>2, <1>3, <1>5 DEF Nil
<1>9. (\A d \in held : DataFits(store, d))' /\ (\A e \in arts : ArtFits(store, e.art, e.with))'
  BY Zenon, <1>4, <1>6
<1>10. (\A c \in Clients : JobServes(store, job[c]))'
  BY Zenon, <1>7
<1>11. env'.vault /\ (Backend = "gcp" => ~Nil(env.configured))'
  BY Zenon, <1>1 DEF Backend, Nil
<1>. QED
  BY Zenon, <1>8, <1>9, <1>10, <1>11 DEF ServiceServes

\* A call to the service leaves every call as it must be.
LEMMA ServiceStep ==
  ASSUME BindingInv, RetentionInv, Remote, ServiceServes, NEW c \in Clients, ServiceCall(c)
  PROVE  ServiceServes'
<1>. DEFINE j == job[c]
<1>1. EnvOK /\ JobOK(j) /\ j.st = "calling" /\ j.st # "idle" /\ JobKept(store, retired, acked, j)
  <2>1. j.st = "calling"
    BY Zenon DEF ServiceCall
  <2>2. j.st # "idle"
    BY <2>1
  <2>. QED
    BY Zenon, <2>1, <2>2 DEF BindingInv, RetentionInv
<1>2. IsJob(j) /\ Called(j) /\ Calling(j) /\ Given(store, retired, acked, j) /\ Progress(store, acked, j)
  BY Zenon, <1>1 DEF JobOK, JobKept
<1>3. Keeping
  BY Zenon, <1>1 DEF Keeping, RetentionInv, EnvOK
<1>4. Due(j)
  BY Zenon, <1>1, <1>2, <1>3 DEF Due
<1>5. JobServes(store, j) /\ KeysFit(store) /\ (Nil(env.configured) \/ Refers(store, env.configured))
  BY Zenon DEF ServiceServes
<1>6. Serving(j)
  BY Zenon, <1>1, <1>4, <1>5 DEF Serving, JobServes
<1>7. PICK ans \in Answers(Head(j.todo), j) :
         \/ store' = ans.st /\ job' = [job EXCEPT ![c] = After(j, ans)]
         \/ /\ (store' = store) \/ (store' = ans.st)
            /\ job' = [job EXCEPT ![c] = After(j, Refused("fault"))]
  BY Zenon DEF ServiceCall
<1>8. env' = env /\ held' = held /\ arts' = arts
  BY Zenon DEF ServiceCall
<1>9. /\ Widened(store) /\ Widened(ans.st)
      /\ JobServes(ans.st, After(j, ans))
      /\ JobServes(store, After(j, Refused("fault"))) /\ JobServes(ans.st, After(j, Refused("fault")))
  BY Zenon, <1>6, AnyServed
<1>. HIDE DEF j
<1>10. PICK n : job' = [job EXCEPT ![c] = n] /\ JobServes(store', n) /\ Widened(store')
  <2>1. \A n : job' = [job EXCEPT ![c] = n] /\ JobServes(store', n) /\ Widened(store') =>
            \E m : job' = [job EXCEPT ![c] = m] /\ JobServes(store', m) /\ Widened(store')
    BY Zenon
  <2>2. CASE store' = ans.st /\ job' = [job EXCEPT ![c] = After(j, ans)]
    BY Zenon, <1>9, <2>1, <2>2
  <2>3. CASE /\ (store' = store) \/ (store' = ans.st)
             /\ job' = [job EXCEPT ![c] = After(j, Refused("fault"))]
    BY Zenon, <1>9, <2>1, <2>3
  <2>. QED
    BY Zenon, <1>7, <2>2, <2>3
<1>11. job = [d \in Clients |-> job[d]]
  BY Zenon DEF BindingInv
<1>12. job'[c] = n /\ \A d \in Clients : d # c => job'[d] = job[d]
  BY <1>10, <1>11
<1>13. Wider(store, store')
  BY Zenon, <1>10 DEF Widened
<1>14. \A d \in Clients : JobServes(store', job'[d])
  <2>1. \A d \in Clients : JobServes(store', job[d])
    BY Zenon, <1>13, WiderJob DEF ServiceServes
  <2>. QED
    BY Zenon, <1>10, <1>12, <2>1
<1>15. (\A d \in held' : DataFits(store', d)) /\ (\A e \in arts' : ArtFits(store', e.art, e.with))
  BY Zenon, <1>8, <1>13, WiderKeeps DEF ServiceServes
<1>. QED
  BY Zenon, <1>8, <1>10, <1>14, <1>15, Serviced

\* What a method has returned is taken.
LEMMA TakeServes ==
  ASSUME BindingInv, ServiceServes, NEW c \in Clients, Take(c)
  PROVE  ServiceServes'
<1>. DEFINE j == job[c]
           e == [art |-> j.val, with |-> j.with, uid |-> j.a.uid, add |-> j.a.add]
<1>1. env' = env /\ store' = store /\ j.st = "returned"
  BY Zenon DEF Take
<1>2. job = [d \in Clients |-> job[d]] /\ (job' = [job EXCEPT ![c] = Idle])
  BY Zenon DEF BindingInv, Take
<1>3. job'[c] = Idle /\ \A d \in Clients : d # c => job'[d] = job[d]
  BY <1>2
<1>4. Done(store, j) /\ KeysFit(store)
  BY Zenon, <1>1 DEF ServiceServes, JobServes
<1>5. \A d \in held' : DataFits(store', d)
  <2>1. \A d \in held' : d \in held \/ (j.ok /\ DOMAIN j.val = DOMAIN NoData /\ d = j.val)
    BY DEF Take
  <2>2. j.ok /\ DOMAIN j.val = DOMAIN NoData => DataFits(store, j.val)
    BY Zenon, <1>4 DEF Done
  <2>3. \A d \in held : DataFits(store, d)
    BY Zenon DEF ServiceServes
  <2>. HIDE DEF j
  <2>. QED
    BY <1>1, <2>1, <2>2, <2>3
<1>6. \A x \in arts' : ArtFits(store', x.art, x.with)
  <2>1. \A x \in arts' : x \in arts \/ (j.ok /\ DOMAIN j.val = DOMAIN NoArt.art /\ x = e)
    BY DEF Take
  <2>2. j.ok /\ DOMAIN j.val = DOMAIN NoArt.art => ArtFits(store, j.val, j.with)
    BY Zenon, <1>4 DEF Done
  <2>3. \A x \in arts : ArtFits(store, x.art, x.with)
    BY Zenon DEF ServiceServes
  <2>4. e.art = j.val /\ e.with = j.with
    OBVIOUS
  <2>. HIDE DEF j, e
  <2>. QED
    BY <1>1, <2>1, <2>2, <2>3, <2>4
<1>7. JobServes(store, Idle)
  BY DEF JobServes, Idle
<1>8. \A d \in Clients : JobServes(store', job'[d])
  BY Zenon, <1>1, <1>3, <1>7 DEF ServiceServes
<1>9. Widened(store')
  BY Zenon, <1>1, <1>4, GrowsItself DEF Widened, Wider
<1>. QED
  BY Zenon, <1>1, <1>5, <1>6, <1>8, <1>9, Serviced

----------------------------------------------------------------------------
(* How a call starts.                                                      *)

\* The methods that clients call work with keys of the family explored.
LEMMA WorkersFamily ==
  ASSUME NEW c, Family \in Families, NEW op \in Ops(c), op \in Workers
  PROVE  FamilyFor(op) = Family
<1>1. op \notin Manages /\ op \notin DOMAIN Makes
  BY WorkersAre
<1>2. \/ op \in {p[1] : p \in Pairs[Family]} \/ op \in {p[2] : p \in Pairs[Family]}
      \/ Family = "mac" /\ op \in Hashes
  BY <1>1 DEF Ops, Manages, Families, Generator, Makes
<1>3. CASE Family = "mac" /\ op \in Hashes
  <2>1. op = "HMAC"
    BY <1>3 DEF Workers, Sealers, Sealer, Openers, KindOf, Hashes
  <2>. QED
    BY <1>3, <2>1, KindsOf DEF FamilyFor
<1>4. CASE op \in {p[1] : p \in Pairs[Family]} \/ op \in {p[2] : p \in Pairs[Family]}
  <2>1. CASE Family = "aes"
    <3>1. op \in {"EncryptAES", "DecryptAES"}
      BY <1>4, <2>1 DEF Pairs
    <3>. QED
      BY <2>1, <3>1, KindsOf DEF FamilyFor
  <2>2. CASE Family = "rsa"
    <3>1. op \in {"RSA_OAEP_Encode", "RSA_OAEP_Decode", "SignRSAPSS", "VerifyRSAPSS",
                  "Sign_RSA_PKCS1v15_SHA256", "Verify_RSA_PKCS1v15_SHA256"}
      BY <1>4, <2>2 DEF Pairs
    <3>. QED
      BY <2>2, <3>1, KindsOf DEF FamilyFor
  <2>3. CASE Family = "ecdh"
    <3>1. op \in {"ECDH_Encode", "ECDH_Decode"}
      BY <1>4, <2>3 DEF Pairs
    <3>. QED
      BY <2>3, <3>1, KindsOf DEF FamilyFor
  <2>4. CASE Family = "ed25519"
    <3>1. op \in {"SignEd25519", "VerifyEd25519"}
      BY <1>4, <2>4 DEF Pairs
    <3>. QED
      BY <2>4, <3>1, KindsOf DEF FamilyFor
  <2>5. CASE Family = "mac"
    <3>1. op = "HMAC"
      BY <1>4, <2>5 DEF Pairs
    <3>. QED
      BY <2>5, <3>1, KindsOf DEF FamilyFor
  <2>. QED
    BY <2>1, <2>2, <2>3, <2>4, <2>5 DEF Families
<1>. QED
  BY <1>2, <1>3, <1>4

\* A call begins with what its method makes of the arguments, or fails for the
\* caller's context.
LEMMA BegunAs ==
  ASSUME NEW c, NEW op, NEW x, NEW key, Begins(c, op, x, key), NEW m, m = Method(op, ArgsOf(op, x, key))
  PROVE  \E r, why : /\ job' = [job EXCEPT ![c] = Started(JobOf(op, x, key), r, why)]
                     /\ r = m \/ (r = Fail /\ why = "fault")
<1>1. \A r, s : r \in Outcomes(s) => r = Fail \/ r = s
  BY MemVocabulary DEF Outcomes, Mem!runWithContext
<1>2. PICK r \in Outcomes(m) :
         job' = [job EXCEPT ![c] = Started(JobOf(op, x, key), r,
                                           IF r = Fail /\ m = Fail THEN "mismatch"
                                           ELSE IF r = Fail THEN "fault" ELSE "none")]
  BY Zenon DEF Begins
<1>. DEFINE why == IF r = Fail /\ m = Fail THEN "mismatch" ELSE IF r = Fail THEN "fault" ELSE "none"
<1>3. r = m \/ (r = Fail /\ why = "fault")
  <2>1. r = Fail \/ r = m
    BY Zenon, <1>1
  <2>. QED
    BY <2>1
<1>4. job' = [job EXCEPT ![c] = Started(JobOf(op, x, key), r, why)]
  BY Zenon, <1>2
<1>. HIDE DEF why
<1>. QED
  BY Zenon, <1>3, <1>4

\* The rest of its arguments.
LEMMA BegunWith ==
  ASSUME NEW op, NEW x, NEW key
  PROVE  LET a == ArgsOf(op, x, key)
             j == JobOf(op, x, key)
         IN  /\ j.with = x.with /\ a.vault = env.vault
             /\ x.from # NoArt => a.msg = x.from.art.msg
<1>. DEFINE a == ArgsOf(op, x, key)
           j == JobOf(op, x, key)
<1>1. a.vault = env.vault /\ (x.from # NoArt => a.msg = x.from.art.msg)
  BY DEF ArgsOf
<1>2. j.with = x.with
  <2>. DEFINE floor == IF Named(key) \in AllNames THEN acked[Named(key)] ELSE 0
  <2>1. j = [Idle EXCEPT !.op = op, !.with = x.with, !.from = x.from, !.a = a, !.floor = floor]
    BY Zenon DEF JobOf
  <2>. HIDE DEF a, floor, j
  <2>. QED
    BY <2>1 DEF Idle
<1>. QED
  BY <1>1, <1>2

\* A call that has been made, before its method does anything.
Starting(j) ==
    /\ Keeping /\ EnvOK /\ KeysFit(store) /\ Had(store, j)
    /\ IsJob(j) /\ Called(j) /\ Foreign(j.a) /\ j.reg = NoText
    /\ j.a.configured = env.configured /\ j.a.vault
    /\ j.op \in DOMAIN Makes => Makes[j.op] = Family
    /\ Backend = "gcp" => ~Nil(env.configured)
    /\ Nil(env.configured) \/ Refers(store, env.configured)

\* What a client may call is such a call.
LEMMA Starts ==
  ASSUME BindingInv, RetentionInv, Remote, ServiceServes, NEW c, NEW op \in Ops(c), NEW x \in Arguments(op),
         NEW key \in KeyTexts(op, x.with), NEW j, j = JobOf(op, x, key)
  PROVE  Starting(j) /\ j.op = op /\ j.a = ArgsOf(op, x, key)
<1>. DEFINE a == ArgsOf(op, x, key)
<1>1. EnvOK /\ HeldOK /\ (\A e \in arts : ArtOK(e)) /\ Keeping
  BY Zenon DEF BindingInv, EnvOK, Keeping, RetentionInv
<1>2. /\ IsJob(j) /\ j.op = op /\ j.from = x.from /\ j.a = a /\ j.reg = NoText
      /\ IsArgs(a) /\ a.art = x.from.art /\ a.uid = x.uid /\ a.add = x.add /\ a.key = key /\ a.configured = env.configured
  BY BegunJob
<1>3. j.with = x.with /\ a.vault = env.vault /\ (x.from # NoArt => a.msg = x.from.art.msg)
  BY BegunWith
<1>4. /\ x.with \in held \cup {NoData} /\ x.from \in arts \cup {NoArt}
      /\ x.uid \in Uids /\ x.add \in Adds
  BY DEF Arguments, Uids, Adds
<1>5. ArtOK(x.from)
  <2>1. ArtOK(NoArt)
    BY DEF ArtOK, NoArt, Uids, Adds, BoundTo, Sealed
  <2>. QED
    BY <1>1, <1>4, <2>1
<1>6. Foreign(a)
  <2>1. key \in {x.with.id, x.with.ref, x.with.pub}
    BY DEF KeyTexts
  <2>2. x.with = NoData \/ DataForms(x.with)
    BY <1>1, <1>4 DEF HeldOK
  <2>3. x.with = NoData => key = NoText
    BY <2>1 DEF NoData, KeyData
  <2>. HIDE DEF a
  <2>. QED
    BY <1>1, <1>2, <2>1, <2>2, <2>3, TextForms DEF Foreign, DataForms, EnvOK
<1>7. op \in AllOps
  BY Zenon, <1>1, CalledMethods DEF EnvOK
<1>. HIDE DEF a
<1>8. Called(j)
  BY <1>2, <1>4, <1>5, <1>6, <1>7 DEF Called
<1>9. Had(store, j)
  <2>1. j.with = NoData \/ DataFits(store, j.with)
    BY <1>3, <1>4 DEF ServiceServes
  <2>2. j.from = NoArt \/ ArtFits(store, j.from.art, j.from.with)
    BY <1>2, <1>4 DEF ServiceServes
  <2>3. j.op \in Workers => FamilyFor(j.op) = Family
    BY Zenon, <1>1, <1>2, WorkersFamily DEF EnvOK
  <2>4. j.a.key \in KeyTexts(j.op, j.with)
    BY Zenon, <1>2, <1>3
  <2>5. j.from # NoArt => j.a.msg = j.from.art.msg
    BY <1>2, <1>3
  <2>. QED
    BY Zenon, <2>1, <2>2, <2>3, <2>4, <2>5 DEF Had
<1>10. /\ KeysFit(store) /\ env.vault /\ (Backend = "gcp" => ~Nil(env.configured))
       /\ Nil(env.configured) \/ Refers(store, env.configured)
  BY Zenon DEF ServiceServes
<1>11. j.op \in DOMAIN Makes => Makes[j.op] = Family
  BY Zenon, <1>1, <1>2, FamilyMethods DEF EnvOK
<1>12. Starting(j)
  BY <1>1, <1>2, <1>3, <1>6, <1>8, <1>9, <1>10, <1>11 DEF Starting
<1>. QED
  BY <1>2, <1>12 DEF a

\* What a method that works with a key starts from: nothing, a reference to a
\* key of the service, or the public half of one.
ByNothing(j) == Nil(Raw(j.a)) /\ Nil(j.a.key) /\ Nil(env.configured)
ByKey(j) ==
    /\ ByReference(j.a) /\ Refers(store, Raw(j.a))
    /\ Raw(j.a) = Source(j.with) \/ (j.op \in TakesPublic /\ Nil(j.a.key) /\ j.with # NoData /\ Nil(j.with.pub))
ByHalf(j) ==
    /\ j.op \in TakesPublic /\ j.with # NoData /\ ~Nil(j.a.key)
    /\ Refers(store, j.with.ref) /\ HalfOf(store, j.with.ref, j.a.key) /\ IsHalf(j.a.key)
    /\ ~Versioned

\* It starts from one of the three.
LEMMA StartsBy ==
  ASSUME NEW j, Starting(j), j.op \in Workers
  PROVE  ByNothing(j) \/ ByKey(j) \/ ByHalf(j)
<1>1. /\ Keeping /\ Foreign(j.a) /\ j.a.configured = env.configured /\ Remote /\ EnvOK
      /\ KeysOK(store) /\ KeysFit(store) /\ Backend \in Backends /\ Family \in Families
      /\ j.with = NoData \/ DataFits(store, j.with)
      /\ j.a.key \in KeyTexts(j.op, j.with)
      /\ Nil(env.configured) \/ Refers(store, env.configured)
  BY DEF Starting, Keeping, Had
<1>2. j.a.key = j.with.ref \/ (j.op \in TakesPublic /\ j.a.key = j.with.pub)
  <2>1. j.op \notin Manages
    BY WorkersAre
  <2>. QED
    BY <1>1, <2>1 DEF KeyTexts, Remote
<1>3. ASSUME Nil(j.a.key), j.with = NoData \/ (j.op \in TakesPublic /\ Nil(j.with.pub))
      PROVE  ByNothing(j) \/ ByKey(j)
  <2>1. Raw(j.a) = env.configured
    BY <1>1, <1>3 DEF Raw, Nil
  <2>2. CASE Nil(env.configured)
    BY <1>3, <2>1, <2>2 DEF ByNothing
  <2>3. CASE ~Nil(env.configured)
    <3>1. Refers(store, Raw(j.a)) /\ Raw(j.a).form = "ref"
      BY <1>1, <2>1, <2>3 DEF Refers
    <3>2. j.with = NoData => Raw(j.a) = Source(j.with)
      BY <2>1 DEF Source
    <3>. QED
      BY <1>3, <3>1, <3>2 DEF ByKey, ByReference, Nil
  <2>. QED
    BY <2>2, <2>3
<1>4. CASE j.with = NoData
  <2>1. Nil(j.a.key)
    BY <1>2, <1>4 DEF NoData, KeyData, Nil
  <2>. QED
    BY <1>3, <1>4, <2>1
<1>5. CASE j.with # NoData
  <2>1. PICK t, f : f \in {"ref", "bare"} /\ Describes(store, t) /\ j.with = DataOf([t EXCEPT !.form = f])
    <3>1. PICK t : Describes(store, t) /\ j.with \in {DataOf(t), DataOf([t EXCEPT !.form = "bare"])}
      BY <1>1, <1>5 DEF DataFits
    <3>2. [t EXCEPT !.form = "ref"] = t
      BY <3>1 DEF Describes, Text
    <3>3. \A f : j.with = DataOf([t EXCEPT !.form = f]) /\ f \in {"ref", "bare"} =>
                  \E u, g : g \in {"ref", "bare"} /\ Describes(store, u) /\ j.with = DataOf([u EXCEPT !.form = g])
      BY Zenon, <3>1
    <3>4. j.with = DataOf([t EXCEPT !.form = "ref"]) \/ j.with = DataOf([t EXCEPT !.form = "bare"])
      BY <3>1, <3>2
    <3>. QED
      BY <3>3, <3>4
  <2>2. Refers(store, j.with.ref)
        /\ (Nil(j.with.pub) \/ (~Versioned /\ Family # "mac" /\ HalfOf(store, j.with.ref, j.with.pub)))
    BY <1>1, <2>1, DataTexts
  <2>3. j.with.ref.form = "ref" /\ ~Nil(j.with.ref)
    BY <2>2 DEF Refers, Nil, NoText, Text
  <2>4. CASE j.a.key = j.with.ref
    <3>1. Raw(j.a) = j.with.ref /\ Source(j.with) = j.with.ref
      BY <1>5, <2>3, <2>4 DEF Raw, Source, Nil
    <3>. QED
      BY <2>2, <2>3, <2>4, <3>1 DEF ByKey, ByReference
  <2>5. CASE j.op \in TakesPublic /\ j.a.key = j.with.pub /\ Nil(j.with.pub)
    BY Zenon, <1>3, <2>5
  <2>6. CASE j.op \in TakesPublic /\ j.a.key = j.with.pub /\ ~Nil(j.with.pub)
    <3>1. ~Versioned /\ HalfOf(store, j.with.ref, j.a.key)
      BY <2>2, <2>6
    <3>2. SizeFits(store[j.with.ref.key].size)
      BY <1>1, <2>2 DEF KeysFit, Refers
    <3>3. IsHalf(j.a.key)
      BY <3>1, <3>2 DEF IsHalf, HalfOf
    <3>. QED
      BY <1>5, <2>2, <2>6, <3>1, <3>3 DEF ByHalf
  <2>. QED
    BY Zenon, <1>2, <2>4, <2>5, <2>6
<1>. QED
  BY <1>4, <1>5

\* An artefact that a call may open was made with the key that the call is for.
Fitted(j) ==
    LET s == Source(j.with)
    IN  /\ j.a.art = j.from.art /\ j.from.art.kind = KindFor(j.op)
        /\ Refers(store, s) /\ j.from.art.key = s.key /\ j.from.art.size = store[s.key].size
        /\ ~Versioned => j.from.art.ver = Fixed(s)
        /\ j.a.msg = j.from.art.msg
        /\ Backend = "azure" => j.op # "VerifyEd25519"

\* What it may open was made with the key that it is for.
LEMMA StartFitted ==
  ASSUME NEW j, Starting(j), Openable(j)
  PROVE  Fitted(j) /\ j.op \in Workers /\ KindFor(j.op) = KindOf[j.op]
<1>1. /\ j.op \in Openers /\ j.op \in Workers /\ j.a.art = j.from.art
      /\ j.from = NoArt \/ ArtFits(store, j.from.art, j.from.with)
      /\ j.from # NoArt => j.a.msg = j.from.art.msg
  BY WorkersAre DEF Starting, Called, Had, Openable
<1>2. j.op \notin Sealers /\ j.op # "HMAC" /\ KindFor(j.op) = KindOf[j.op] /\ KindOf[j.op] \notin {"mac", "none"}
  BY <1>1 DEF Openers, KindOf, Sealers, Sealer, KindFor
<1>3. /\ j.from.art.kind = KindOf[j.op] /\ j.from.with = j.with
      /\ ~NoPublicHalf(j)
  BY DEF Openable
<1>4. j.from # NoArt
  <2>1. NoArt.art.kind = "none"
    BY DEF NoArt, Sealed
  <2>2. KindOf[j.op] # "none"
    BY <1>2
  <2>. QED
    BY Zenon, <1>3, <2>1, <2>2
<1>5. ~Halved(j.from.art.kind, j.from.with)
  BY <1>1, <1>3 DEF Halved, NoPublicHalf, Openers, KindOf
<1>6. /\ Refers(store, Source(j.with)) /\ j.from.art.key = Source(j.with).key
      /\ j.from.art.size = store[j.from.art.key].size
      /\ ~Versioned => j.from.art.ver = Fixed(Source(j.with))
      /\ Backend = "azure" => j.from.art.kind # "ed25519"
  BY Zenon, <1>1, <1>2, <1>3, <1>4, <1>5 DEF ArtFits
<1>7. Backend = "azure" => j.op # "VerifyEd25519"
  BY <1>3, <1>6 DEF KindOf
<1>. QED
  BY <1>1, <1>2, <1>3, <1>4, <1>6, <1>7 DEF Fitted

\* A method that would not go to the service with its key is not one that
\* something is promised of.
LEMMA StartAble ==
  ASSUME NEW j, Starting(j), j.op \in Workers, ByKey(j), Sealable(j) \/ Openable(j)
  PROVE  Able(j.op, j.a) \/ j.op = "HMAC"
<1>1. /\ Keeping /\ EnvOK /\ KeysOK(store) /\ KeysFit(store) /\ FamilyFor(j.op) = Family /\ Remote
      /\ Backend \in Backends /\ Family \in Families
  BY DEF Starting, Keeping, Had
<1>2. /\ Refers(store, Raw(j.a))
  BY DEF ByKey
<1>3. ASSUME Backend = "azure" PROVE j.op \notin {"SignEd25519", "VerifyEd25519"}
  <2>1. CASE Openable(j)
    <3>1. Fitted(j) /\ j.op # "SignEd25519"
      BY <2>1, StartFitted DEF Openable, Openers, KindOf
    <3>. QED
      BY <1>3, <3>1 DEF Fitted
  <2>2. CASE Sealable(j)
    <3>1. j.op # "VerifyEd25519" /\ Family # "ed25519"
      BY <1>3, <2>2 DEF Sealable, NotServed, Sealers, Sealer
    <3>2. j.op = "SignEd25519" => FamilyFor(j.op) = "ed25519"
      BY KindsOf DEF FamilyFor
    <3>. QED
      BY <1>1, <3>1, <3>2
  <2>. QED
    BY <2>1, <2>2
<1>4. ASSUME j.op = "DecryptAES" PROVE j.a.art.kind = "aes"
  <2>1. Openable(j)
    BY <1>4 DEF Sealable, Sealers, Sealer
  <2>2. Fitted(j)
    BY <2>1, StartFitted
  <2>. QED
    BY <1>4, <2>2, KindsOf DEF Fitted
<1>5. ASSUME Backend = "gcp", j.op \notin {"EncryptAES", "DecryptAES"}, j.op # "HMAC" PROVE Raw(j.a).ver # 0
  <2>1. FamilyFor(j.op) \in Asymmetric
    BY <1>5, KindsOf DEF FamilyFor, Asymmetric, Workers, Sealers, Sealer, Openers, KindOf
  <2>2. NamesVersion
    BY <1>1, <1>5, <2>1 DEF NamesVersion
  <2>3. Raw(j.a).ver \in DOMAIN store[Raw(j.a).key].on /\ Raw(j.a).key \in AllNames /\ store[Raw(j.a).key] # NoKey
    BY <1>2, <2>2 DEF Refers
  <2>4. DOMAIN store[Raw(j.a).key].on = 1..Len(store[Raw(j.a).key].on)
    BY <1>1, <2>3, KeyFits
  <2>5. Raw(j.a).ver \in 1..Len(store[Raw(j.a).key].on)
    BY <2>3, <2>4
  <2>. QED
    BY <2>5
<1>6. ASSUME j.op = "ECDH_Decode"
      PROVE  /\ j.a.art.kind = "ecdh"
             /\ Backend \in {"azure", "pkcs11"} => j.a.art.size \in Curves
             /\ Backend = "pkcs11" => Token!ecdhCalls(j.a.opts) # <<>>
  <2>1. Openable(j)
    BY <1>6 DEF Sealable, Sealers, Sealer
  <2>2. Fitted(j)
    BY <2>1, StartFitted
  <2>3. j.a.art.kind = "ecdh"
    BY <1>6, <2>2, KindsOf DEF Fitted
  <2>4. Family = "ecdh"
    BY <1>1, <1>6, KindsOf DEF FamilyFor
  <2>5. SizeFits(store[Source(j.with).key].size)
    BY <1>1, <2>2 DEF Fitted, Refers, KeysFit
  <2>6. Backend \in {"azure", "pkcs11"} => j.a.art.size \in Curves
    BY <2>2, <2>4, <2>5 DEF Fitted, SizeFits
  <2>7. j.a.opts.hkdf \/ j.a.opts.allowSecretExtraction
    BY <1>6, <2>1 DEF Openable, NoWayToDerive
  <2>8. Token!ecdhCalls(j.a.opts) # << >>
    BY <2>7 DEF Token!ecdhCalls
  <2>. QED
    BY <2>3, <2>6, <2>8
<1>. QED
  BY <1>3, <1>4, <1>5, <1>6 DEF Able

\* The plans are plans.
LEMMA PlanAsks ==
  ASSUME NEW op \in Workers, NEW a
  PROVE  \E ref, calls_, then : Plan(op, a) = Ask(ref, calls_, then)
<1>1. CASE op \in {"EncryptAES", "DecryptAES"}
  BY Zenon, <1>1 DEF Plan
<1>2. CASE op \in {"RSA_OAEP_Encode", "RSA_OAEP_Decode"}
  BY Zenon, <1>2 DEF Plan
<1>3. CASE op \in {"ECDH_Encode", "ECDH_Decode", "HMAC"}
  BY Zenon, <1>3 DEF Plan
<1>4. CASE op \in {"SignEd25519", "SignRSAPSS", "Sign_RSA_PKCS1v15_SHA256"}
  BY <1>4 DEF Plan
<1>5. CASE op \in {"VerifyEd25519", "VerifyRSAPSS", "Verify_RSA_PKCS1v15_SHA256"}
  BY <1>5 DEF Plan
<1>. QED
  BY Zenon, <1>1, <1>2, <1>3, <1>4, <1>5 DEF Workers, Sealers, Openers, Sealer, KindOf

\* What the method of such a call makes of its arguments.
LEMMA StartMethods ==
  ASSUME NEW j, Starting(j), NEW m, m = Method(j.op, j.a)
  PROVE  /\ j.op \in Workers => Works(j.op, j.a, m)
         /\ j.op \in TakesPublic => OnHalf(j.op, j.a, m)
         /\ Begun(j.op, j.a, m) /\ Planned(j.op, j.a, m)
<1>1. Foreign(j.a) /\ Backend \in Backends /\ Remote
  BY DEF Starting, Keeping
<1>. QED
  BY Zenon, <1>1, ServiceMethods, MethodPlanned

\* Of a call by half a key, the method makes no call to the service.
LEMMA StartHalf ==
  ASSUME NEW j, Starting(j), j.op \in Workers, ByHalf(j), NEW m, m = Method(j.op, j.a)
  PROVE  /\ m = OfHalf(j.op, j.a)
         /\ Openable(j) => j.op \notin Sealers /\ OfHalf(j.op, j.a) = Give(Verified)
<1>1. FamilyFor(j.op) = Family /\ IsHalf(j.a.key) /\ j.op \in TakesPublic
  BY DEF Starting, Had, ByHalf
<1>2. m = OfHalf(j.op, j.a)
  <2>1. OnHalf(j.op, j.a, m)
    BY Zenon, <1>1, StartMethods
  <2>. QED
    BY Zenon, <1>1, <2>1 DEF OnHalf
<1>3. ASSUME Openable(j) PROVE j.op \notin Sealers /\ OfHalf(j.op, j.a) = Give(Verified)
  <2>1. Fitted(j)
    BY Zenon, <1>3, StartFitted
  <2>2. j.op \in Openers
    BY <1>3 DEF Openable
  <2>3. j.op \notin Sealers /\ j.op # "RSA_OAEP_Encode" /\ j.op # "ECDH_Encode"
    BY <2>2 DEF Openers, KindOf, Sealers, Sealer
  <2>4. Source(j.with) = j.with.ref /\ HalfOf(store, j.with.ref, j.a.key) /\ ~Versioned
    BY DEF ByHalf, Source
  <2>5. j.a.art.kind = KindFor(j.op) /\ j.a.art.key = j.a.key.key /\ j.a.art.ver = j.a.key.ver /\ j.a.art.msg = j.a.msg
    BY <2>1, <2>4 DEF Fitted, HalfOf
  <2>. QED
    BY <2>3, <2>5 DEF OfHalf
<1>. QED
  BY Zenon, <1>2, <1>3

\* A method that manages keys goes by a reference or an identifier.
LEMMA ManageForms ==
  ASSUME NEW j, Starting(j), j.op \in Manages
  PROVE  Nil(j.a.key) \/ j.a.key.form \in {"ref", "id"}
<1>1. /\ j.a.key \in {j.with.id, j.with.ref} /\ (j.with = NoData \/ DataFits(store, j.with))
      /\ Backend \in Backends /\ Remote
  BY DEF Starting, Keeping, Had, KeyTexts
<1>2. CASE j.with = NoData
  BY <1>1, <1>2 DEF NoData, KeyData, Nil
<1>3. CASE j.with # NoData
  <2>1. PICK t : Describes(store, t) /\ j.with \in {DataOf(t), DataOf([t EXCEPT !.form = "bare"])}
    BY <1>1, <1>3 DEF DataFits
  <2>2. IsText(t) /\ IsText([t EXCEPT !.form = "bare"])
    BY <2>1 DEF Describes, IsText, Text
  <2>3. DataForms(DataOf(t)) /\ DataForms(DataOf([t EXCEPT !.form = "bare"]))
    BY Zenon, <1>1, <2>2, DataOfForms
  <2>4. DataForms(j.with)
    BY <2>1, <2>3
  <2>. QED
    BY <1>1, <2>4 DEF DataForms
<1>. QED
  BY <1>2, <1>3

\* A method fails by itself only where nothing was promised.
LEMMA StartFails ==
  ASSUME NEW j, Starting(j), Method(j.op, j.a) = Fail
  PROVE  ~Watched(j) \/ j.op \in Hashes
<1>. DEFINE m == Method(j.op, j.a)
<1>1. m = Fail /\ \A v : m # Give(v)
  BY DEF Fail, Give
<1>2. /\ Had(store, j) /\ Backend \in Backends /\ Remote /\ Keeping /\ Foreign(j.a)
  BY DEF Starting, Keeping
<1>3. /\ j.op \in Workers => Works(j.op, j.a, m)
      /\ j.op \in TakesPublic => OnHalf(j.op, j.a, m)
      /\ Begun(j.op, j.a, m) /\ Planned(j.op, j.a, m)
  BY Zenon, StartMethods
<1>. HIDE DEF m
<1>4. ~Manageable(j)
  <2>. SUFFICES ASSUME Manageable(j) PROVE FALSE
    OBVIOUS
  <2>1. j.op \in {"GetKey", "DeactivateKey"} /\ j.a.key # NoText /\ (Backend = "pkcs11" => j.a.key.form # "id")
    BY DEF Manageable
  <2>5. j.a.key.form \in {"ref", "id"}
    BY <2>1, ManageForms DEF Nil, Manages
  <2>6. j.a.vault /\ (Backend = "gcp" => j.a.configured.form = "ref")
    BY DEF Starting, Refers, Nil
  <2>7. Nameable(j.a)
    BY <2>1, <2>5, <2>6 DEF Nameable
  <2>. QED
    BY Zenon, <1>1, <1>3, <2>1, <2>7 DEF Begun
<1>5. j.op \notin Workers => ~Sealable(j) /\ ~Openable(j)
  BY DEF Sealable, Openable, Workers
<1>6. ASSUME j.op \in Workers, j.op # "HMAC" PROVE ~Sealable(j) /\ ~Openable(j)
  <2>1. ~Hashed(j.op, m)
    BY <1>6 DEF Hashed
  <2>2. CASE ByNothing(j)
    <3>1. ~Sealable(j)
      BY <2>2 DEF ByNothing, Sealable, Nil
    <3>2. ~Openable(j)
      <4>. SUFFICES ASSUME Openable(j) PROVE FALSE
        OBVIOUS
      <4>1. j.with = NoData
        BY <2>2 DEF Openable, ByNothing, Nil
      <4>2. Source(j.with) = env.configured
        BY <4>1 DEF Source
      <4>3. Refers(store, env.configured)
        BY Zenon, <4>2, StartFitted DEF Fitted
      <4>. QED
        BY <2>2, <4>3 DEF ByNothing, Refers, Nil, NoText, Text
    <3>. QED
      BY <3>1, <3>2
  <2>3. CASE ByKey(j)
    <3>1. Works(j.op, j.a, m) /\ ByReference(j.a)
      BY Zenon, <1>3, <1>6, <2>3 DEF ByKey
    <3>2. Able(j.op, j.a) => m = Plan(j.op, j.a)
      BY Zenon, <2>1, <3>1 DEF Works
    <3>3. ~Able(j.op, j.a)
      <4>. SUFFICES ASSUME Able(j.op, j.a) PROVE FALSE
        OBVIOUS
      <4>1. \E ref, calls_, then : Plan(j.op, j.a) = Ask(ref, calls_, then)
        BY Zenon, <1>6, PlanAsks
      <4>. QED
        BY <1>1, <3>2, <4>1 DEF Ask, Fail
    <3>. QED
      BY Zenon, <1>6, <2>3, <3>3, StartAble
  <2>4. CASE ByHalf(j)
    <3>1. /\ m = OfHalf(j.op, j.a)
          /\ Openable(j) => j.op \notin Sealers /\ OfHalf(j.op, j.a) = Give(Verified)
      BY Zenon, <1>6, <2>4, StartHalf DEF m
    <3>2. ~Openable(j)
      BY Zenon, <1>1, <3>1
    <3>3. ~Sealable(j)
      <4>. SUFFICES ASSUME Sealable(j) PROVE FALSE
        OBVIOUS
      <4>1. j.op \in {"RSA_OAEP_Encode", "ECDH_Encode"}
        BY <1>6, <2>4 DEF Sealable, ByHalf, TakesPublic, Sealers, Sealer
      <4>2. OfHalf(j.op, j.a) # Fail
        BY <4>1 DEF OfHalf, Give, Fail
      <4>. QED
        BY <1>1, <3>1, <4>2
    <3>. QED
      BY <3>2, <3>3
  <2>. QED
    BY Zenon, <1>6, <2>2, <2>3, <2>4, StartsBy
<1>. QED
  BY <1>4, <1>5, <1>6 DEF Watched, Hashes

\* What a hash makes by itself, and what half a key seals or checks, is promised.
LEMMA StartHashes ==
  ASSUME NEW j, j.op \in Hashes, NEW v, HashValue(v) \/ \E m : v = Digest(m)
  PROVE  Promised(store, j, v)
<1>1. ~Openable(j)
  BY WorkersAre DEF Openable
<1>2. ASSUME NEW t, NEW m, v = Sealed("mac", t, m, <<>>) PROVE Promised(store, j, v)
  <2>1. v.kind = "mac"
    BY <1>2 DEF Sealed
  <2>2. DOMAIN v # DOMAIN NoData
    BY Zenon, <1>2, Domains
  <2>3. ArtFits(store, v, j.with)
    BY Zenon, <2>1 DEF ArtFits
  <2>. QED
    BY Zenon, <1>1, <2>2, <2>3 DEF Promised
<1>3. ASSUME v = NoDigest \/ \E m : v = Digest(m) PROVE Promised(store, j, v)
  <2>1. DOMAIN v # DOMAIN NoData /\ DOMAIN v # DOMAIN NoArt.art
    BY <1>3, Domains
  <2>. QED
    BY Zenon, <1>1, <2>1 DEF Promised
<1>. QED
  BY Zenon, <1>2, <1>3 DEF HashValue

\* ... and so is what is made of half a key.
LEMMA StartSeals ==
  ASSUME NEW j, Starting(j), j.op \in Workers, ByHalf(j), NEW v, OfHalf(j.op, j.a) = Give(v)
  PROVE  Promised(store, j, v)
<1>1. \A x, y : Give(x) = Give(y) => x = y
  BY DEF Give
<1>2. /\ j.op \in TakesPublic /\ Source(j.with) = j.with.ref /\ Refers(store, j.with.ref)
      /\ HalfOf(store, j.with.ref, j.a.key) /\ ~Versioned
  BY DEF ByHalf, Source
<1>3. ASSUME NEW kind \in {"oaep", "ecdh"}, NEW bind, kind = "oaep" => bind = <<>>, ~Openable(j),
             v = Sealed(kind, j.a.key, j.a.msg, bind)
      PROVE  Promised(store, j, v)
  <2>1. v.kind = kind /\ v.key = j.a.key.key /\ v.size = j.a.key.size /\ v.ver = j.a.key.ver /\ v.bind = bind
    BY <1>3 DEF Sealed
  <2>2. DOMAIN v # DOMAIN NoData
    BY Zenon, <1>3, Domains
  <2>3. v.key = j.with.ref.key /\ v.size = store[v.key].size /\ v.ver = Fixed(j.with.ref)
    BY <1>2, <2>1 DEF HalfOf
  <2>4. ArtFits(store, v, j.with)
    BY <1>2, <1>3, <2>1, <2>3 DEF ArtFits
  <2>. QED
    BY Zenon, <1>3, <2>2, <2>4 DEF Promised
<1>4. CASE j.op = "RSA_OAEP_Encode"
  <2>1. v = Sealed("oaep", j.a.key, j.a.msg, <<>>)
    BY <1>1, <1>4 DEF OfHalf
  <2>2. ~Openable(j)
    BY <1>4 DEF Openable, Openers, KindOf
  <2>. QED
    BY <1>3, <2>1, <2>2
<1>5. CASE j.op = "ECDH_Encode"
  <2>. DEFINE bind == <<j.a.key.size>>
  <2>1. v = Sealed("ecdh", j.a.key, j.a.msg, bind)
    BY <1>1, <1>5 DEF OfHalf
  <2>2. ~Openable(j)
    BY <1>5 DEF Openable, Openers, KindOf
  <2>. HIDE DEF bind
  <2>. QED
    BY <1>3, <2>1, <2>2
<1>6. CASE j.op \notin {"RSA_OAEP_Encode", "ECDH_Encode"}
  <2>1. OfHalf(j.op, j.a) = IF j.a.art.kind = KindFor(j.op) /\ j.a.art.key = j.a.key.key
                               /\ j.a.art.ver = j.a.key.ver /\ j.a.art.msg = j.a.msg
                            THEN Give(Verified) ELSE Fail
    BY <1>6 DEF OfHalf
  <2>2. Give(v) # Fail
    BY DEF Give, Fail
  <2>3. OfHalf(j.op, j.a) = Give(Verified)
    BY <2>1, <2>2
  <2>4. v = Verified
    BY <1>1, <2>3
  <2>. QED
    BY <2>4, OpenedPromised
<1>. QED
  BY <1>4, <1>5, <1>6

\* What a method gives by itself is what was promised of it.
LEMMA StartGives ==
  ASSUME NEW j, Starting(j), NEW v, Method(j.op, j.a) = Give(v)
  PROVE  Promised(store, j, v)
<1>. DEFINE m == Method(j.op, j.a)
<1>1. m = Give(v) /\ m # Fail /\ (\A ref, calls_, then : m # Ask(ref, calls_, then)) /\ \A x : m = Give(x) => x = v
  BY DEF Fail, Give, Ask
<1>2. /\ j.op \in Workers => Works(j.op, j.a, m)
      /\ j.op \in TakesPublic => OnHalf(j.op, j.a, m)
      /\ Begun(j.op, j.a, m) /\ Planned(j.op, j.a, m)
  BY Zenon, StartMethods
<1>3. j.op \in AllOps
  BY DEF Starting, Called
<1>4. CASE j.op \in {"Sha256Hex", "Blake3"}
  <2>1. m = Give(Digest(j.a.msg))
    BY Zenon, <1>2, <1>4 DEF Begun
  <2>2. v = Digest(j.a.msg)
    BY Zenon, <1>1, <2>1
  <2>3. j.op \in Hashes
    BY <1>4 DEF Hashes
  <2>. QED
    BY <2>2, <2>3, StartHashes
<1>5. CASE j.op \in DOMAIN Makes \cup Manages
  <2>. HIDE DEF m
  <2>1. CASE j.op \in DOMAIN Makes
    <3>1. MakePlan(Makes[j.op], m)
      BY Zenon, <1>2, <2>1 DEF Planned
    <3>. QED
      BY Zenon, <1>1, <3>1 DEF MakePlan
  <2>2. ASSUME NEW calls_, NEW then, ManagePlan(j.a, m, calls_, then) PROVE FALSE
    BY Zenon, <1>1, <2>2 DEF ManagePlan
  <2>3. j.op \in Manages => j.op = "RotateKey" \/ j.op = "GetKey" \/ j.op = "DeactivateKey"
    BY DEF Manages
  <2>. QED
    BY Zenon, <1>2, <1>5, <2>1, <2>2, <2>3 DEF Planned
<1>. HIDE DEF m
<1>6. CASE j.op \in Workers
  <2>1. ASSUME Hashed(j.op, m) PROVE Promised(store, j, v)
    <3>1. j.op \in Hashes /\ HashValue(v)
      <4>1. HashValue(v) /\ j.op = "HMAC"
        BY Zenon, <1>1, <2>1 DEF Hashed
      <4>. QED
        BY <4>1 DEF Hashes
    <3>. QED
      BY Zenon, <3>1, StartHashes
  <2>2. CASE ByNothing(j)
    BY Zenon, <1>1, <1>2, <1>6, <2>1, <2>2 DEF Works, ByNothing
  <2>3. CASE ByKey(j)
    <3>1. m # Plan(j.op, j.a)
      <4>1. \E ref, calls_, then : Plan(j.op, j.a) = Ask(ref, calls_, then)
        BY Zenon, <1>6, PlanAsks
      <4>. QED
        BY <1>1, <4>1
    <3>. QED
      BY Zenon, <1>1, <1>2, <1>6, <2>1, <2>3, <3>1 DEF Works, ByKey
  <2>4. CASE ByHalf(j)
    <3>1. OfHalf(j.op, j.a) = Give(v)
      BY Zenon, <1>1, <1>6, <2>4, StartHalf DEF m
    <3>. QED
      BY Zenon, <1>6, <2>4, <3>1, StartSeals
  <2>. QED
    BY Zenon, <1>6, <2>2, <2>3, <2>4, StartsBy
<1>7. j.op \in {"Sha256Hex", "Blake3"} \/ j.op \in DOMAIN Makes \cup Manages \/ j.op \in Workers
  BY <1>3, WorkersAre DEF AllOps, Seals
<1>. QED
  BY <1>4, <1>5, <1>6, <1>7

\* The first call of a plan: it makes a key of a size that fits, or none, and
\* on AWS it rotates nothing.
LEMMA StartHeads ==
  ASSUME NEW j, Starting(j), NEW m, m = Method(j.op, j.a), m.step = "ask"
  PROVE  /\ Head(m.calls).do = "CreateKey" => SizeFits(Head(m.calls).size)
         /\ Backend = "aws" => Head(m.calls).do # "RotateKey"
         /\ j.op \in {"GetKey", "DeactivateKey"} => m.ref.form \in {"ref", "id"}
<1>1. Begun(j.op, j.a, m) /\ Planned(j.op, j.a, m)
  BY Zenon, StartMethods
<1>2. m # Fail /\ \A v : m # Give(v)
  BY DEF Fail, Give
<1>3. \A ref, calls_, then : m = Ask(ref, calls_, then) => m.ref = ref /\ m.calls = calls_
  BY DEF Ask
<1>4. ASSUME NEW call, Head(m.calls) = call, call.do # "CreateKey", call.do # "RotateKey", j.op \notin {"GetKey", "DeactivateKey"}
      PROVE  /\ Head(m.calls).do = "CreateKey" => SizeFits(Head(m.calls).size)
             /\ Backend = "aws" => Head(m.calls).do # "RotateKey"
             /\ j.op \in {"GetKey", "DeactivateKey"} => m.ref.form \in {"ref", "id"}
  BY <1>4
<1>5. CASE j.op \in Using
  <2>1. UsePlan(j.a, m)
    BY Zenon, <1>1, <1>5 DEF Planned
  <2>2. PICK ref, call, then : m = Ask(ref, <<call>>, then) /\ UseCall(call)
    BY Zenon, <1>2, <2>1 DEF UsePlan
  <2>3. Head(m.calls) = call
    BY <1>3, <2>2, Heads
  <2>4. call.do # "CreateKey" /\ call.do # "RotateKey"
    BY <2>2 DEF UseCall, Computing
  <2>5. j.op \notin {"GetKey", "DeactivateKey"}
    BY <1>5 DEF Using
  <2>. QED
    BY Zenon, <1>4, <2>3, <2>4, <2>5
<1>6. CASE j.op \in DOMAIN Seals
  <2>1. \E do \in {"Encrypt", "Decrypt"} : SealPlan(j.a, m, do)
    <3>1. j.op = "EncryptAES" \/ j.op = "DecryptAES"
      BY <1>6 DEF Seals
    <3>2. "Encrypt" \in {"Encrypt", "Decrypt"} /\ "Decrypt" \in {"Encrypt", "Decrypt"}
      OBVIOUS
    <3>. QED
      BY Zenon, <1>1, <3>1, <3>2 DEF Planned
  <2>2. PICK do \in {"Encrypt", "Decrypt"} : SealPlan(j.a, m, do)
    BY Zenon, <2>1
  <2>3. PICK ref : m = Ask(ref, <<Call(do, "aes", Bind(j.a.uid, j.a.add))>>, "value")
    BY Zenon, <1>2, <2>2 DEF SealPlan
  <2>. DEFINE call == Call(do, "aes", Bind(j.a.uid, j.a.add))
  <2>4. Head(m.calls) = call
    BY <1>3, <2>3, Heads
  <2>5. call.do # "CreateKey" /\ call.do # "RotateKey"
    BY <2>2, CallFields
  <2>6. j.op \notin {"GetKey", "DeactivateKey"}
    BY <1>6 DEF Seals
  <2>. HIDE DEF call
  <2>. QED
    BY Zenon, <1>4, <2>4, <2>5, <2>6
<1>7. CASE j.op \in DOMAIN Makes
  <2>1. Makes[j.op] = Family
    BY <1>7 DEF Starting
  <2>2. MakePlan(Family, m)
    BY Zenon, <1>1, <1>7, <2>1 DEF Planned
  <2>3. PICK size, uses :
          \/ m = Ask(NoText, <<Creation(size, uses)>>, "data")
          \/ m = Ask(NoText, <<Creation(size, uses), PublicKey>>, "data")
          \/ m = Ask(NoText, <<Creation(size, uses), NewVersion, PublicKey>>, "data")
    BY Zenon, <1>2, <2>2 DEF MakePlan, Creation, PublicKey, NewVersion
  <2>4. Head(m.calls) = Creation(size, uses)
    BY <1>3, <2>3, Heads
  <2>5. Head(m.calls).do = "CreateKey"
    BY <2>4, CallFields
  <2>6. Family = "ecdh" => j.op = "GenerateECDHCurveKeys"
    BY <1>7, <2>1 DEF Makes
  <2>7. SizeFits(Head(m.calls).size)
    <3>1. CASE Family = "ecdh"
      BY <1>1, <2>6, <3>1 DEF Begun
    <3>2. CASE Family # "ecdh"
      BY <3>2 DEF SizeFits
    <3>. QED
      BY <3>1, <3>2
  <2>8. j.op \notin {"GetKey", "DeactivateKey"}
    BY <1>7 DEF Makes
  <2>. QED
    BY <2>5, <2>7, <2>8
<1>8. CASE j.op \in Manages
  <2>1. ASSUME NEW calls_, NEW then, ManagePlan(j.a, m, calls_, then)
        PROVE  m.calls = calls_ /\ m.ref.form \in {"ref", "id"}
    <3>1. PICK ref : m = Ask(ref, calls_, then) /\ RefersTo(j.a, ref)
      BY Zenon, <1>2, <2>1 DEF ManagePlan
    <3>2. Raw(j.a).form \in {"ref", "id"} \/ Raw(j.a) = NoText
      <4>1. Nil(j.a.key) \/ j.a.key.form \in {"ref", "id"}
        BY Zenon, <1>8, ManageForms
      <4>2. j.a.configured = NoText \/ j.a.configured.form = "ref"
        BY DEF Starting, Foreign
      <4>. QED
        BY <4>1, <4>2 DEF Raw, Nil
    <3>3. ref.form \in {"ref", "id"}
      BY <3>1, <3>2 DEF RefersTo
    <3>. QED
      BY <1>3, <3>1, <3>3
  <2>2. CASE j.op = "RotateKey"
    <3>1. m.calls = Rotation(j.a)
      BY Zenon, <1>1, <2>1, <2>2 DEF Planned
    <3>2. Head(Rotation(j.a)).do # "CreateKey" /\ (Backend = "aws" => Head(Rotation(j.a)).do # "RotateKey")
      <4>1. \A do, S : Needs(Lookup(do), S).do = do /\ Lookup(do).do = do
        BY CallFields
      <4>2. \A w, x, y : Head(<<w, x>>) = w /\ Head(<<w, x, y>>) = w
        OBVIOUS
      <4>3. \A w, x, y, z : Head(<<w, x, y, z>>) = w
        OBVIOUS
      <4>4. CASE Backend = "aws"
        BY <4>1, <4>3, <4>4 DEF Rotation
      <4>5. CASE Backend = "azure"
        BY <4>1, <4>2, <4>5 DEF Rotation
      <4>6. CASE Backend = "gcp"
        BY <4>1, <4>3, <4>6 DEF Rotation
      <4>7. CASE Backend \notin {"aws", "azure", "gcp"}
        BY <4>1, <4>2, <4>3, <4>7 DEF Rotation
      <4>. QED
        BY <4>4, <4>5, <4>6, <4>7
    <3>. QED
      BY <2>2, <3>1, <3>2
  <2>3. CASE j.op = "GetKey"
    <3>1. m.calls = Inspection /\ m.ref.form \in {"ref", "id"}
      BY Zenon, <1>1, <2>1, <2>3 DEF Planned
    <3>2. Head(Inspection).do # "CreateKey" /\ Head(Inspection).do # "RotateKey"
      BY CallFields, Heads DEF Inspection
    <3>. QED
      BY <3>1, <3>2
  <2>4. CASE j.op = "DeactivateKey"
    <3>1. m.calls = Deactivation(j.a) /\ m.ref.form \in {"ref", "id"}
      BY Zenon, <1>1, <2>1, <2>4 DEF Planned
    <3>2. Head(Deactivation(j.a)).do # "CreateKey" /\ Head(Deactivation(j.a)).do # "RotateKey"
      <4>1. \A do, x : Otherwise(Lookup(do), x).do = do /\ Lookup(do).do = do
        BY CallFields
      <4>2. \A w, x : Head(<<w>>) = w /\ Head(<<w, x>>) = w
        OBVIOUS
      <4>. QED
        BY <4>1, <4>2 DEF Deactivation
    <3>. QED
      BY <3>1, <3>2
  <2>. QED
    BY <1>8, <2>2, <2>3, <2>4 DEF Manages
<1>9. j.op \in Using \/ j.op \in DOMAIN Seals \/ j.op \in DOMAIN Makes \/ j.op \in Manages
  BY DEF Starting, Called, AllOps, Seals
<1>. QED
  BY Zenon, <1>5, <1>6, <1>7, <1>8, <1>9

\* A method that goes to the service begins as it must.
LEMMA StartAsks ==
  ASSUME NEW j, Starting(j), NEW m, m = Method(j.op, j.a), m.step = "ask",
         NEW n, n.op = j.op, n.a = j.a, n.plan = m, n.todo = m.calls, n.reg = NoText
  PROVE  Under(store, n)
<1>1. /\ j.op \in Workers => Works(j.op, j.a, m)
      /\ Begun(j.op, j.a, m)
  BY Zenon, StartMethods
<1>2. m # Fail /\ \A v : m # Give(v)
  BY DEF Fail, Give
<1>3. /\ Head(m.calls).do = "CreateKey" => SizeFits(Head(m.calls).size)
      /\ Backend = "aws" => Head(m.calls).do # "RotateKey"
      /\ j.op \in {"GetKey", "DeactivateKey"} => m.ref.form \in {"ref", "id"}
  BY StartHeads
<1>4. j.op \notin {"Sha256Hex", "Blake3"}
  BY Zenon, <1>1, <1>2 DEF Begun
<1>5. ASSUME j.op \in Workers PROVE Asks(n)
  <2>1. ~Hashed(j.op, m)
    BY Zenon, <1>2 DEF Hashed
  <2>2. ~ByNothing(j)
    BY Zenon, <1>1, <1>2, <1>5, <2>1 DEF ByNothing, Works
  <2>3. ~ByHalf(j)
    <3>1. m = OfHalf(j.op, j.a) => m = Fail \/ \E v : m = Give(v)
      <4>1. CASE j.op = "RSA_OAEP_Encode"
        BY <4>1 DEF OfHalf
      <4>2. CASE j.op = "ECDH_Encode"
        BY <4>2 DEF OfHalf
      <4>3. CASE j.op \notin {"RSA_OAEP_Encode", "ECDH_Encode"}
        BY <4>3 DEF OfHalf
      <4>. QED
        BY <4>1, <4>2, <4>3
    <3>. QED
      BY Zenon, <1>2, <1>5, <3>1, StartHalf
  <2>4. ByKey(j)
    BY Zenon, <1>5, <2>2, <2>3, StartsBy
  <2>5. ByReference(j.a) /\ Able(j.op, j.a) /\ m = Plan(j.op, j.a)
    BY Zenon, <1>1, <1>2, <1>5, <2>1, <2>4 DEF ByKey, Works
  <2>. QED
    BY <2>5 DEF Asks, Nil
<1>. QED
  BY <1>3, <1>4, <1>5 DEF Under, Nil

\* A method that makes no call to the service gives something, or fails.
LEMMA PlanEnds ==
  ASSUME NEW op \in AllOps, NEW a, NEW m, Planned(op, a, m), m.step # "ask"
  PROVE  m = Fail \/ \E v : m = Give(v)
<1>1. \A ref, calls_, then : m # Ask(ref, calls_, then)
  BY DEF Ask
<1>2. \A calls_, then : ManagePlan(a, m, calls_, then) => m = Fail
  BY Zenon, <1>1 DEF ManagePlan
<1>3. \A do : SealPlan(a, m, do) => m = Fail
  BY Zenon, <1>1 DEF SealPlan
<1>4. UsePlan(a, m) => m = Fail \/ \E v : m = Give(v)
  BY Zenon, <1>1 DEF UsePlan
<1>5. \A alg : MakePlan(alg, m) => m = Fail
  BY Zenon, <1>1 DEF MakePlan
<1>6. op \in Using \/ op = "EncryptAES" \/ op = "DecryptAES" \/ op \in DOMAIN Makes
      \/ op = "RotateKey" \/ op = "GetKey" \/ op = "DeactivateKey"
  BY DEF AllOps, Manages
<1>. QED
  BY Zenon, <1>2, <1>3, <1>4, <1>5, <1>6 DEF Planned

\* A call begins, or ends at once.
LEMMA CallServes ==
  ASSUME BindingInv, RetentionInv, Remote, ServiceServes, NEW c \in Clients, Call_(c)
  PROVE  ServiceServes'
<1>1. PICK op \in Ops(c) : \E x \in Arguments(op) : \E key \in KeyTexts(op, x.with) : Begins(c, op, x, key)
  BY Zenon, CallBegins
<1>2. PICK x \in Arguments(op) : \E key \in KeyTexts(op, x.with) : Begins(c, op, x, key)
  BY Zenon, <1>1
<1>3. PICK key \in KeyTexts(op, x.with) : Begins(c, op, x, key)
  BY Zenon, <1>2
<1>. DEFINE a == ArgsOf(op, x, key)
           j == JobOf(op, x, key)
           m == Method(op, a)
<1>4. Starting(j) /\ j.op = op /\ j.a = a
  BY Starts
<1>5. PICK r, why : /\ job' = [job EXCEPT ![c] = Started(j, r, why)]
                    /\ r = m \/ (r = Fail /\ why = "fault")
  <2>. HIDE DEF a, j, m
  <2>1. \E s, w : /\ job' = [job EXCEPT ![c] = Started(j, s, w)]
                  /\ s = m \/ (s = Fail /\ w = "fault")
    BY <1>3, BegunAs DEF a, j, m
  <2>. QED
    BY Zenon, <2>1
<1>. DEFINE n == Started(j, r, why)
<1>6. job' = [job EXCEPT ![c] = n]
  BY Zenon, <1>5
<1>7. env' = env /\ held' = held /\ arts' = arts /\ store' = store
  BY Zenon DEF Call_
<1>8. m = Method(j.op, j.a)
  BY Zenon, <1>4
<1>. HIDE DEF a, j, m
<1>9. IsJob(j) /\ Had(store, j) /\ Alike(j, j) /\ Planned(j.op, j.a, m) /\ j.op \in AllOps /\ Begun(j.op, j.a, m)
  <2>1. Planned(j.op, j.a, m) /\ Begun(j.op, j.a, m)
    BY Zenon, <1>4, <1>8, StartMethods
  <2>. QED
    BY <1>4, <2>1 DEF Starting, Called, Alike
<1>10. JobServes(store, n)
  <2>1. CASE r.step = "ask"
    <3>1. n = [j EXCEPT !.st = "calling", !.plan = r, !.todo = r.calls]
      BY <2>1 DEF Started
    <3>2. j.reg = NoText
      BY <1>4 DEF Starting
    <3>3. /\ n.st = "calling" /\ n.op = j.op /\ n.a = j.a /\ n.reg = NoText /\ n.with = j.with /\ n.from = j.from
          /\ n.plan = r /\ n.todo = r.calls
      BY <1>9, <3>1, <3>2 DEF IsJob
    <3>. HIDE DEF n
    <3>4. r = Method(j.op, j.a)
      <4>1. r # Fail
        BY <2>1 DEF Fail
      <4>. QED
        BY Zenon, <1>5, <1>8, <4>1
    <3>5. Under(store, n)
      BY <1>4, <2>1, <3>3, <3>4, StartAsks
    <3>6. Had(store, n)
      <4>1. Alike(j, n)
        BY <3>3 DEF Alike
      <4>. QED
        BY Zenon, <1>9, <4>1, AlikeHad
    <3>. QED
      BY <3>3, <3>5, <3>6 DEF JobServes
  <2>2. CASE r.step # "ask"
    <3>1. n = Returned(j, r, why)
      BY <2>2 DEF Started
    <3>. HIDE DEF n
    <3>2. CASE r = Fail /\ why = "fault"
      <4>1. why \in Blameless
        BY <3>2 DEF Blameless
      <4>2. JobServes(store, Returned(j, Fail, why))
        BY <1>9, <4>1, FailServes
      <4>. QED
        BY Zenon, <3>1, <3>2, <4>2
    <3>3. CASE r = m
      <4>1. m = Fail \/ \E v : m = Give(v)
        BY <1>9, <2>2, <3>3, PlanEnds
      <4>2. CASE m = Fail
        <5>1. ~Watched(j) \/ j.op \in Hashes
          BY Zenon, <1>4, <1>8, <4>2, StartFails
        <5>2. JobServes(store, Returned(j, Fail, why))
          BY <1>9, <5>1, FailServes
        <5>. QED
          BY Zenon, <3>1, <3>3, <4>2, <5>2
      <4>3. ASSUME NEW v, m = Give(v) PROVE JobServes(store, n)
        <5>1. Promised(store, j, v)
          BY Zenon, <1>4, <1>8, <4>3, StartGives
        <5>2. r = Give(v)
          BY <3>3, <4>3
        <5>3. JobServes(store, Returned(j, r, why))
          BY <1>9, <5>1, <5>2, GivenServes
        <5>. QED
          BY Zenon, <3>1, <5>3
      <4>. QED
        BY Zenon, <4>1, <4>2, <4>3
    <3>. QED
      BY Zenon, <1>5, <3>2, <3>3
  <2>. QED
    BY Zenon, <2>1, <2>2
<1>. HIDE DEF n
<1>11. job = [d \in Clients |-> job[d]]
  BY Zenon DEF BindingInv
<1>12. job'[c] = n /\ \A d \in Clients : d # c => job'[d] = job[d]
  BY <1>6, <1>11
<1>13. \A d \in Clients : JobServes(store', job'[d])
  BY Zenon, <1>7, <1>10, <1>12 DEF ServiceServes
<1>14. (\A d \in held' : DataFits(store', d)) /\ (\A e \in arts' : ArtFits(store', e.art, e.with))
  BY Zenon, <1>7 DEF ServiceServes
<1>15. Widened(store')
  BY Zenon, <1>7, GrowsItself DEF Widened, Wider, ServiceServes
<1>. QED
  BY Zenon, <1>7, <1>13, <1>14, <1>15, Serviced

\* The operator's key, of a size that its methods know.
LEMMA ConfiguredFits ==
  ASSUME NEW t, t = ConfiguredText(Backend, Family)
  PROVE  /\ t = Text("ref", Family, Configured, t.ver, t.size) /\ SizeFits(t.size)
         /\ t.ver \in {0, 1} /\ (NamesVersion => t.ver = 1)
<1>. DEFINE ver == IF Backend = "aws" \/ (Backend = "gcp" /\ Family = "aes") THEN 0 ELSE 1
            size == IF Backend = "gcp" /\ Family = "ecdh" THEN 768 ELSE CHOOSE s \in Sizes[Family] : s # Key128Bits
<1>1. t = Text("ref", Family, Configured, ver, size)
  BY DEF ConfiguredText
<1>2. ver \in {0, 1} /\ (NamesVersion => ver = 1)
  BY DEF NamesVersion, Asymmetric
<1>3. SizeFits(size)
  <2>1. CASE Family # "ecdh"
    BY <2>1 DEF SizeFits
  <2>2. CASE Family = "ecdh" /\ Backend = "gcp"
    BY <2>2 DEF SizeFits
  <2>3. CASE Family = "ecdh" /\ Backend # "gcp"
    <3>1. Sizes[Family] = {256}
      BY <2>3 DEF Sizes
    <3>2. size = CHOOSE s \in {256} : s # Key128Bits
      BY <2>3, <3>1
    <3>3. \E s \in {256} : s # Key128Bits
      BY DEF Key128Bits
    <3>4. size = 256
      BY <3>2, <3>3
    <3>5. 256 \in Curves
      BY DEF Curves
    <3>. HIDE DEF size
    <3>. QED
      BY <2>3, <3>4, <3>5 DEF SizeFits
  <2>. QED
    BY <2>1, <2>2, <2>3
<1>. HIDE DEF ver, size
<1>4. t.ver = ver /\ t.size = size
  BY <1>1 DEF Text
<1>. QED
  BY <1>1, <1>2, <1>3, <1>4

\* The invariant holds of what an operator has made beforehand.
LEMMA ServesInit ==
  ASSUME Init, Remote
  PROVE  ServiceServes
<1>. USE KeysAssumption
<1>1. PICK i \in Instances : \E o \in Options(i[1], i[2]) : \E configured \in BOOLEAN :
         /\ configured => i[1] # "local"
         /\ i[1] = "gcp" => configured
         /\ env = [backend |-> i[1], family |-> i[2], opts |-> o, vault |-> TRUE,
                   configured |-> IF configured THEN ConfiguredText(i[1], i[2]) ELSE NoText]
  BY Zenon DEF Init
<1>2. PICK configured \in BOOLEAN :
         /\ Backend = "gcp" => configured
         /\ env.configured = IF configured THEN ConfiguredText(Backend, Family) ELSE NoText
         /\ env.vault
  BY <1>1 DEF Backend, Family
<1>. DEFINE cfg == env.configured
           made == NewKey(Family, cfg.size, OperatorUses[Family], "none")
           t == [cfg EXCEPT !.ver = 1]
<1>3. /\ store = [n \in AllNames |-> IF n = Configured /\ cfg # NoText THEN made ELSE NoKey]
      /\ held = IF cfg = NoText THEN {} ELSE {DataOf(t)}
      /\ arts = {} /\ job = [c \in Clients |-> Idle]
  BY Zenon DEF Init
<1>4. Family \in Families
  BY Zenon, BindingInit DEF BindingInv, EnvOK
<1>5. cfg # NoText => /\ cfg = Text("ref", Family, Configured, cfg.ver, cfg.size) /\ SizeFits(cfg.size)
                      /\ NamesVersion => cfg.ver = 1
  BY <1>2, ConfiguredFits
<1>6. Backend = "gcp" => cfg # NoText
  <2>1. ConfiguredText(Backend, Family) # NoText
    BY DEF ConfiguredText, Text, NoText
  <2>. QED
    BY <1>2, <2>1
<1>. HIDE DEF Init, cfg
<1>7. made # NoKey /\ made.alg = Family /\ made.on = <<TRUE>> /\ DOMAIN made.on = {1}
  BY <1>4, MadeKey
<1>8. made.size = cfg.size
  BY DEF NewKey
<1>. HIDE DEF made
<1>9. \A k \in AllNames : store[k] # NoKey => store[k] = made /\ cfg # NoText
  BY <1>3
<1>10. cfg # NoText => Configured \in AllNames /\ store[Configured] = made
  BY <1>3 DEF AllNames
<1>11. KeysFit(store)
  <2>1. Len(made.on) = 1
    BY <1>7
  <2>. QED
    BY <1>5, <1>7, <1>8, <1>9, <2>1 DEF KeysFit
<1>12. Nil(cfg) \/ Refers(store, cfg)
  <2>. SUFFICES ASSUME cfg # NoText PROVE Refers(store, cfg)
    BY DEF Nil
  <2>1. cfg.form = "ref" /\ cfg.key = Configured
    BY <1>5 DEF Text
  <2>. QED
    BY <1>5, <1>7, <1>10, <2>1 DEF Refers
<1>13. \A d \in held : DataFits(store, d)
  <2>. SUFFICES ASSUME cfg # NoText PROVE DataFits(store, DataOf(t))
    BY <1>3
  <2>1. t = Text("ref", Family, Configured, 1, cfg.size)
    BY <1>5 DEF Text
  <2>2. t.key = Configured /\ t.ver = 1
    BY <2>1 DEF Text
  <2>. HIDE DEF t
  <2>3. Describes(store, t)
    BY <1>7, <1>8, <1>10, <2>1, <2>2 DEF Describes
  <2>. QED
    BY <2>3 DEF DataFits
<1>14. \A c \in Clients : JobServes(store, job[c])
  <2>1. JobServes(store, Idle)
    BY DEF JobServes, Idle
  <2>. QED
    BY <1>3, <2>1
<1>15. env.vault /\ (Backend = "gcp" => ~Nil(env.configured)) /\ (Nil(env.configured) \/ Refers(store, env.configured))
  BY <1>2, <1>6, <1>12 DEF cfg, Nil
<1>16. \A e \in arts : ArtFits(store, e.art, e.with)
  BY <1>3
<1>. QED
  BY Zenon, <1>11, <1>13, <1>14, <1>15, <1>16 DEF ServiceServes

----------------------------------------------------------------------------
(* The local repository.  Its key data is the material itself, in the form *)
(* that its generators encode it in, and it keeps nothing.                 *)

\* Key data of one key: the private half, twice, and the public half.
Halves(k, size, private, public) ==
    KeyData(Text(private, Family, k, 0, size), Text(private, Family, k, 0, size), Text(public, Family, k, 0, size))
LocalData(d) ==
    \E k, size :
       \/ Family = "aes" /\ d = KeyData(Text("aes", "aes", k, 0, size), Text("aes", "aes", k, 0, size), NoText)
       \/ Family = "rsa" /\ d = Halves(k, size, "pkcs1", "pkcs1pub")
       \/ Family = "ecdh" /\ size \in Curves /\ d = Halves(k, size, "pkcs8", "pkix")
       \/ Family = "ed25519" /\ d = Halves(k, size, "pkcs8", "pkix")
\* No RSA key seals or signs anything.
LocalArt(art, with) ==
    art.kind # "mac" =>
        /\ LocalData(with) /\ art.kind = Family /\ Family # "rsa" /\ art.key = with.ref.key /\ art.ver = 0
        /\ art.kind = "ecdh" => art.bind = <<with.ref.size>>

LocalHad(j) ==
    /\ j.with = NoData \/ LocalData(j.with)
    /\ j.a.key \in KeyTexts(j.op, j.with)
    /\ j.from = NoArt \/ LocalArt(j.from.art, j.from.with)
    /\ j.from # NoArt => j.a.msg = j.from.art.msg
    /\ j.op \in Workers => FamilyFor(j.op) = Family
LocalDone(j) ==
    /\ j.ok /\ DOMAIN j.val = DOMAIN NoData => LocalData(j.val)
    /\ j.ok /\ DOMAIN j.val = DOMAIN NoArt.art => LocalArt(j.val, j.with)
    /\ Serves(j)
LocalJob(j) ==
    /\ j.st # "calling"
    /\ j.st # "idle" => LocalHad(j)
    /\ j.st = "returned" => LocalDone(j)

LocalServes ==
    /\ \A d \in held : LocalData(d)
    /\ \A e \in arts : LocalArt(e.art, e.with)
    /\ \A c \in Clients : LocalJob(job[c])

\* The methods that work with a key, by what they ask of it.
LocalWorks(op, a, r) ==
    /\ op = "EncryptAES" =>
          r = IF a.key.form = "aes"
              THEN Give(Sealed("aes", a.key, a.msg, BytesFromOptionalString(a.add))) ELSE Fail
    /\ op = "DecryptAES" =>
          r = IF /\ a.key.form = "aes" /\ a.art.kind = "aes" /\ a.art.key = a.key.key
                 /\ a.art.bind = BytesFromOptionalString(a.add)
              THEN Give(Message(a.art.msg)) ELSE Fail
    /\ op = "ECDH_Encode" =>
          r = IF a.key.form = "pkix" /\ a.key.alg = "ecdh" /\ a.key.size \in Curves
              THEN Give(Sealed("ecdh", a.key, a.msg, <<a.key.size>>)) ELSE Fail
    /\ op = "ECDH_Decode" =>
          /\ r \in {Fail, Give(Message(a.art.msg))}
          /\ /\ a.key.form = "pkcs8" /\ a.key.alg = "ecdh" /\ a.key.size \in Curves
             /\ a.art.kind = "ecdh" /\ a.art.bind = <<a.key.size>> /\ a.art.key = a.key.key /\ a.art.ver = a.key.ver
             => r = Give(Message(a.art.msg))
    /\ op = "SignEd25519" =>
          r = IF a.key.form = "pkcs8" /\ a.key.alg = "ed25519"
              THEN Give(Sealed("ed25519", a.key, a.msg, <<>>)) ELSE Fail
    /\ op = "VerifyEd25519" =>
          r = IF /\ a.key.form = "pkix" /\ a.key.alg = "ed25519"
                 /\ a.art.kind = "ed25519" /\ a.art.key = a.key.key /\ a.art.ver = a.key.ver /\ a.art.msg = a.msg
              THEN Give(Verified) ELSE Fail
    /\ op = "HMAC" => r = Give(Sealed("mac", a.key, a.msg, <<>>))
    /\ FamilyFor(op) = "rsa" /\ a.key.form \notin {"pkcs8", "pkix"} => r = Fail

\* The vocabulary of the local repository, where its definitions use it.
LEMMA MemTexts ==
  /\ \A t, alg : (Mem!ParsePKIX(t, alg) <=> t.form = "pkix" /\ t.alg = alg)
                 /\ (Mem!ParsePKCS8(t, alg) <=> t.form = "pkcs8" /\ t.alg = alg)
  /\ \A t : Mem!IsLocalAESKey(t) <=> t.form = "aes"
  /\ Mem!NoText = NoText /\ Mem!Curves = Curves
  /\ \A f, g, k, v, s : Mem!Text(f, g, k, v, s) = Text(f, g, k, v, s)
BY DEF Mem!ParsePKIX, Mem!ParsePKCS8, Mem!IsLocalAESKey, Mem!NoText, NoText, Mem!Curves, Curves, Mem!Text, Text

\* The methods of the local repository are as LocalWorks says.
LEMMA MemWorks ==
  ASSUME NEW op \in Workers, NEW a, IsText(a.key)
  PROVE  LocalWorks(op, a, Mem!Method(op, a))
<1>. DEFINE r == Mem!Method(op, a)
<1>1. CASE op = "EncryptAES"
  <2>1. r = Mem!encryptAES(a.key, a.msg, a.add)
    BY <1>1 DEF Mem!Method, Mem!EncryptAES
  <2>2. r = IF a.key.form = "aes" THEN Give(Sealed("aes", a.key, a.msg, BytesFromOptionalString(a.add))) ELSE Fail
    BY Zenon, <2>1, MemVocabulary, MemTexts DEF Mem!encryptAES
  <2>. QED
    BY <1>1, <2>2, KindsOf DEF LocalWorks, FamilyFor
<1>2. CASE op = "DecryptAES"
  <2>1. r = Mem!decryptAES(a.key, a.art, a.add)
    BY <1>2 DEF Mem!Method, Mem!DecryptAES
  <2>2. r = IF /\ a.key.form = "aes" /\ a.art.kind = "aes" /\ a.art.key = a.key.key
               /\ a.art.bind = BytesFromOptionalString(a.add)
            THEN Give(Message(a.art.msg)) ELSE Fail
    BY <2>1, MemVocabulary, MemTexts DEF Mem!decryptAES
  <2>. QED
    BY <1>2, <2>2, KindsOf DEF LocalWorks, FamilyFor
<1>3. CASE op = "ECDH_Encode"
  <2>1. r = Mem!ECDH_Encode(a)
    BY <1>3 DEF Mem!Method
  <2>2. r = IF a.key.form = "pkix" /\ a.key.alg = "ecdh" /\ a.key.size \in Curves
            THEN Give(Sealed("ecdh", a.key, a.msg, <<a.key.size>>)) ELSE Fail
    BY <2>1, MemVocabulary, MemTexts DEF Mem!ECDH_Encode, Mem!parseECDHPublicKey, Mem!CurveNameFromECDH
  <2>. QED
    BY <1>3, <2>2, KindsOf DEF LocalWorks, FamilyFor
<1>4. CASE op = "ECDH_Decode"
  <2>1. r = Mem!ECDH_Decode(a)
    BY <1>4 DEF Mem!Method
  <2>. DEFINE m == Give(Message(a.art.msg))
  <2>2. Mem!OpenWithSecret(a.key, a.art) \in {Fail, m}
    BY Zenon, MemVocabulary DEF Mem!OpenWithSecret
  <2>3. a.art.key = a.key.key /\ a.art.ver = a.key.ver => Mem!OpenWithSecret(a.key, a.art) = m
    <3>. SUFFICES ASSUME a.art.key = a.key.key, a.art.ver = a.key.ver PROVE Mem!OpenWithSecret(a.key, a.art) = m
      OBVIOUS
    <3>. DEFINE s == [a.key EXCEPT !.key = a.art.key, !.ver = a.art.ver]
    <3>1. \A t, label : Mem!DeriveECCAESKey(t, label) = Text("aes", "aes", <<t.key, t.ver, label>>, 0, Mem!Key256Bits)
      BY Zenon, MemTexts DEF Mem!DeriveECCAESKey
    <3>2. s = a.key
      BY DEF IsText, Text
    <3>. HIDE DEF s
    <3>3. Mem!DeriveECCAESKey(a.key, a.art.bind) = Mem!DeriveECCAESKey(s, a.art.bind)
      BY Zenon, <3>2
    <3>. QED
      BY Zenon, <3>3, MemVocabulary DEF Mem!OpenWithSecret, s
  <2>4. r \in {Fail, m}
    BY Zenon, <2>1, <2>2, MemVocabulary DEF Mem!ECDH_Decode
  <2>5. a.key.form = "pkcs8" /\ a.key.alg = "ecdh" /\ a.key.size \in Curves
             /\ a.art.kind = "ecdh" /\ a.art.bind = <<a.key.size>> => r = Mem!OpenWithSecret(a.key, a.art)
    BY <2>1, MemTexts DEF Mem!ECDH_Decode, Mem!parseECDHPrivateKey, Mem!DecodeECCCipherPayload, Mem!CurveNameFromECDH
  <2>. HIDE DEF m, r
  <2>6. FamilyFor(op) # "rsa"
    BY <1>4, KindsOf DEF FamilyFor
  <2>. QED
    BY <1>4, <2>3, <2>4, <2>5, <2>6 DEF LocalWorks, m, r
<1>5. CASE op = "SignEd25519"
  <2>1. r = IF a.key.form = "pkcs8" /\ a.key.alg = "ed25519" THEN Give(Sealed("ed25519", a.key, a.msg, <<>>)) ELSE Fail
    BY <1>5, MemVocabulary, MemTexts DEF Mem!Method, Mem!SignEd25519, Mem!SignWith, Mem!ParseEd25519PrivateKeyFromBase64
  <2>. QED
    BY <1>5, <2>1, KindsOf DEF LocalWorks, FamilyFor
<1>6. CASE op = "VerifyEd25519"
  <2>1. r = IF /\ a.key.form = "pkix" /\ a.key.alg = "ed25519"
               /\ a.art.kind = "ed25519" /\ a.art.key = a.key.key /\ a.art.ver = a.key.ver /\ a.art.msg = a.msg
            THEN Give(Verified) ELSE Fail
    BY <1>6, MemVocabulary, MemTexts
       DEF Mem!Method, Mem!VerifyEd25519, Mem!VerifyWith, Mem!Opens, Mem!ParseEd25519PublicKeyFromBase64
  <2>. QED
    BY <1>6, <2>1, KindsOf DEF LocalWorks, FamilyFor
<1>7. CASE op = "HMAC"
  <2>1. r = Give(Sealed("mac", a.key, a.msg, <<>>))
    BY <1>7, MemVocabulary DEF Mem!Method, Mem!HMAC
  <2>. QED
    BY <1>7, <2>1, KindsOf DEF LocalWorks, FamilyFor
<1>8. CASE op \in {"RSA_OAEP_Encode", "RSA_OAEP_Decode", "SignRSAPSS", "VerifyRSAPSS",
                   "Sign_RSA_PKCS1v15_SHA256", "Verify_RSA_PKCS1v15_SHA256"}
  <2>1. ASSUME a.key.form \notin {"pkcs8", "pkix"} PROVE r = Fail
    <3>1. ~Mem!ParsePKCS8(a.key, "rsa") /\ ~Mem!ParsePKIX(a.key, "rsa")
      BY <2>1, MemTexts
    <3>2. CASE op = "RSA_OAEP_Encode" 
      BY <3>1, <3>2, MemVocabulary DEF Mem!Method, Mem!RSA_OAEP_Encode, Mem!ParseRSAPublicKeyFromBase64
    <3>3. CASE op = "RSA_OAEP_Decode"
      BY <3>1, <3>3, MemVocabulary DEF Mem!Method, Mem!RSA_OAEP_Decode, Mem!ParseRSAPrivateKeyFromBase64
    <3>4. CASE op = "SignRSAPSS"
      BY <3>1, <3>4, MemVocabulary DEF Mem!Method, Mem!SignRSAPSS, Mem!SignWith, Mem!ParseRSAPrivateKeyFromBase64
    <3>5. CASE op = "VerifyRSAPSS"
      BY <3>1, <3>5, MemVocabulary DEF Mem!Method, Mem!VerifyRSAPSS, Mem!VerifyWith, Mem!ParseRSAPublicKeyFromBase64
    <3>6. CASE op = "Sign_RSA_PKCS1v15_SHA256"
      BY <3>1, <3>6, MemVocabulary
         DEF Mem!Method, Mem!Sign_RSA_PKCS1v15_SHA256, Mem!SignWith, Mem!ParseRSAPrivateKeyFromBase64
    <3>7. CASE op = "Verify_RSA_PKCS1v15_SHA256"
      BY <3>1, <3>7, MemVocabulary
         DEF Mem!Method, Mem!Verify_RSA_PKCS1v15_SHA256, Mem!VerifyWith, Mem!ParseRSAPublicKeyFromBase64
    <3>. HIDE DEF r
    <3>. QED
      BY <1>8, <3>2, <3>3, <3>4, <3>5, <3>6, <3>7
  <2>. HIDE DEF r
  <2>2. LocalWorks(op, a, r)
    BY <1>8, <2>1 DEF LocalWorks
  <2>. QED
    BY Zenon, <2>2 DEF r
<1>. QED
  BY <1>1, <1>2, <1>3, <1>4, <1>5, <1>6, <1>7, <1>8 DEF Workers, Sealers, Sealer, Openers, KindOf

\* What there is to know of local key data.
LEMMA LocalHalves ==
  ASSUME NEW d, LocalData(d)
  PROVE  /\ IsText(d.ref) /\ IsText(d.pub) /\ d # NoData /\ d.ref.ver = 0
         /\ Family \in {"aes", "rsa", "ecdh", "ed25519"}
         /\ Family = "aes" => d.ref.form = "aes"
         /\ Family = "rsa" => d.ref.form = "pkcs1" /\ d.pub.form = "pkcs1pub"
         /\ Family \in {"ecdh", "ed25519"} =>
               /\ d.ref.form = "pkcs8" /\ d.ref.alg = Family /\ d.pub.form = "pkix" /\ d.pub.alg = Family
               /\ d.pub.key = d.ref.key /\ d.pub.ver = 0 /\ d.pub.size = d.ref.size
         /\ Family = "ecdh" => d.ref.size \in Curves
<1>1. ASSUME NEW k, NEW size, NEW x, NEW y, NEW f,
             d = KeyData(Text(x, f, k, 0, size), Text(x, f, k, 0, size), Text(y, f, k, 0, size))
      PROVE  /\ IsText(d.ref) /\ IsText(d.pub) /\ d.ref.form = x /\ d.pub.form = y /\ d.ref.ver = 0 /\ d.pub.ver = 0
             /\ d.ref.alg = f /\ d.pub.alg = f
             /\ d.pub.key = d.ref.key /\ d.pub.size = d.ref.size /\ d.ref.size = size
  BY <1>1 DEF KeyData, Text, IsText
<1>2. NoData.ref.form = "none"
  BY DEF NoData, KeyData, NoText, Text
<1>3. PICK k, size :
         \/ Family = "aes" /\ d = KeyData(Text("aes", "aes", k, 0, size), Text("aes", "aes", k, 0, size), NoText)
         \/ Family = "rsa" /\ d = Halves(k, size, "pkcs1", "pkcs1pub")
         \/ Family = "ecdh" /\ size \in Curves /\ d = Halves(k, size, "pkcs8", "pkix")
         \/ Family = "ed25519" /\ d = Halves(k, size, "pkcs8", "pkix")
  BY Zenon DEF LocalData
<1>4. CASE Family = "aes" /\ d = KeyData(Text("aes", "aes", k, 0, size), Text("aes", "aes", k, 0, size), NoText)
  <2>1. IsText(d.ref) /\ IsText(d.pub) /\ d.ref.ver = 0 /\ d.ref.form = "aes"
    BY <1>4, TextForms DEF KeyData, Text
  <2>. QED
    BY <1>2, <1>4, <2>1
<1>5. CASE Family = "rsa" /\ d = Halves(k, size, "pkcs1", "pkcs1pub")
  <2>1. d = KeyData(Text("pkcs1", Family, k, 0, size), Text("pkcs1", Family, k, 0, size), Text("pkcs1pub", Family, k, 0, size))
    BY <1>5 DEF Halves
  <2>. QED
    BY <1>1, <1>2, <1>5, <2>1
<1>6. CASE /\ Family \in {"ecdh", "ed25519"} /\ (Family = "ecdh" => size \in Curves)
           /\ d = Halves(k, size, "pkcs8", "pkix")
  <2>1. d = KeyData(Text("pkcs8", Family, k, 0, size), Text("pkcs8", Family, k, 0, size), Text("pkix", Family, k, 0, size))
    BY <1>6 DEF Halves
  <2>. QED
    BY <1>1, <1>2, <1>6, <2>1
<1>. QED
  BY <1>3, <1>4, <1>5, <1>6

\* The key that a method which works with one is called with.
LEMMA LocalKey ==
  ASSUME NEW j, ~Remote, LocalHad(j), j.op \in Workers
  PROVE  /\ j.with = NoData \/ LocalData(j.with)
         /\ j.with = NoData => j.a.key = NoText
         /\ IF j.op \in TakesPublic THEN j.a.key = j.with.pub ELSE j.a.key = j.with.ref
         /\ IsText(j.a.key) /\ NoText.form = "none"
<1>1. j.op \notin Manages
  BY WorkersAre
<1>2. KeyTexts(j.op, j.with) = IF j.op \in TakesPublic THEN {j.with.pub} ELSE {j.with.ref}
  BY <1>1 DEF KeyTexts, Remote
<1>3. IF j.op \in TakesPublic THEN j.a.key = j.with.pub ELSE j.a.key = j.with.ref
  BY <1>2 DEF LocalHad
<1>4. j.with = NoData \/ LocalData(j.with)
  BY DEF LocalHad
<1>5. NoData.pub = NoText /\ NoData.ref = NoText /\ NoText.form = "none" /\ IsText(NoText)
  BY TextForms DEF NoData, KeyData, NoText, Text
<1>6. IsText(j.a.key)
  BY <1>3, <1>4, <1>5, LocalHalves
<1>. QED
  BY <1>3, <1>4, <1>5, <1>6

\* What a method may give without breaking a promise.
LocalPromised(j, v) ==
    /\ DOMAIN v = DOMAIN NoData => LocalData(v)
    /\ DOMAIN v = DOMAIN NoArt.art => LocalArt(v, j.with)
    /\ Openable(j) => v \in {Message(j.from.art.msg), Verified}

\* What a method that works with a key makes of its arguments.
LEMMA LocalUses ==
  ASSUME NEW j, ~Remote, LocalHad(j), j.op \in Workers, j.a.art = j.from.art, ArtOK(j.from), NEW m, LocalWorks(j.op, j.a, m)
  PROVE  m = Fail => ~Watched(j)
<1>1. /\ j.with = NoData \/ LocalData(j.with)
      /\ j.with = NoData => j.a.key = NoText
      /\ IF j.op \in TakesPublic THEN j.a.key = j.with.pub ELSE j.a.key = j.with.ref
      /\ NoText.form = "none"
  BY LocalKey
<1>2. FamilyFor(j.op) = Family /\ ~Manageable(j) /\ Backend = "local"
  BY DEF LocalHad, Manageable, Remote
<1>3. \A v : Give(v) # Fail
  BY DEF Give, Fail
<1>4. Openable(j) => /\ j.from.art.kind = KindOf[j.op] /\ j.op \in Openers /\ LocalArt(j.from.art, j.with) /\ j.from # NoArt
                     /\ j.from.art.kind = "aes" => j.from.art.bind = BytesFromOptionalString(j.a.add)
  <2>. SUFFICES ASSUME Openable(j)
               PROVE  /\ j.from.art.kind = KindOf[j.op] /\ j.op \in Openers /\ LocalArt(j.from.art, j.with) /\ j.from # NoArt
                      /\ j.from.art.kind = "aes" => j.from.art.bind = BytesFromOptionalString(j.a.add)
    OBVIOUS
  <2>1. j.from.art.kind = KindOf[j.op] /\ j.op \in Openers /\ j.from.with = j.with /\ j.from.add = j.a.add
    BY DEF Openable
  <2>2. j.from # NoArt
    <3>1. NoArt.art.kind = "none"
      BY DEF NoArt, Sealed
    <3>2. KindOf[j.op] # "none"
      BY <2>1 DEF Openers, KindOf
    <3>. QED
      BY <2>1, <3>1, <3>2
  <2>3. LocalArt(j.from.art, j.with)
    BY <2>1, <2>2 DEF LocalHad
  <2>4. j.from.art.kind = "aes" => j.from.art.bind = BytesFromOptionalString(j.a.add)
    BY <1>2, <2>1 DEF ArtOK, BoundTo, Bind
  <2>. QED
    BY <2>1, <2>2, <2>3, <2>4
<1>5. LocalData(j.with) =>
         /\ j.with.ref.ver = 0
         /\ Family = "aes" => j.with.ref.form = "aes"
         /\ Family \in {"ecdh", "ed25519"} =>
               /\ j.with.ref.form = "pkcs8" /\ j.with.ref.alg = Family /\ j.with.pub.form = "pkix" /\ j.with.pub.alg = Family
               /\ j.with.pub.key = j.with.ref.key /\ j.with.pub.ver = 0 /\ j.with.pub.size = j.with.ref.size
         /\ Family = "ecdh" => j.with.ref.size \in Curves
  BY LocalHalves
<1>. SUFFICES ASSUME m = Fail PROVE ~Sealable(j) /\ ~Openable(j)
  BY <1>2 DEF Watched
<1>6. CASE j.op = "EncryptAES"
  <2>1. Family = "aes" /\ j.op \notin TakesPublic /\ j.op \notin Openers
    BY <1>2, <1>6, KindsOf DEF FamilyFor, TakesPublic, Openers, KindOf
  <2>2. j.a.key.form # "aes"
    BY <1>3, <1>6 DEF LocalWorks
  <2>. QED
    BY <1>1, <1>5, <2>1, <2>2 DEF Sealable, Openable
<1>7. CASE j.op = "DecryptAES"
  <2>1. Family = "aes" /\ j.op \notin TakesPublic /\ j.op \notin Sealers /\ j.op # "HMAC" /\ KindOf[j.op] = "aes"
    BY <1>2, <1>7, KindsOf DEF FamilyFor, TakesPublic, Sealers, Sealer, KindOf
  <2>2. ~(/\ j.a.key.form = "aes" /\ j.a.art.kind = "aes" /\ j.a.art.key = j.a.key.key
          /\ j.a.art.bind = BytesFromOptionalString(j.a.add))
    BY <1>3, <1>7 DEF LocalWorks
  <2>3. LocalArt(j.from.art, j.with) /\ j.from.art.kind = "aes" => LocalData(j.with) /\ j.from.art.key = j.with.ref.key
    BY DEF LocalArt
  <2>. QED
    BY <1>1, <1>4, <1>5, <2>1, <2>2, <2>3 DEF Sealable
<1>8. CASE j.op = "ECDH_Encode"
  <2>1. Family = "ecdh" /\ j.op \in TakesPublic /\ j.op \notin Openers
    BY <1>2, <1>8, KindsOf DEF FamilyFor, TakesPublic, Openers, KindOf
  <2>2. ~(j.a.key.form = "pkix" /\ j.a.key.alg = "ecdh" /\ j.a.key.size \in Curves)
    BY <1>3, <1>8 DEF LocalWorks
  <2>. QED
    BY <1>1, <1>5, <2>1, <2>2 DEF Sealable, Openable
<1>9. CASE j.op = "ECDH_Decode"
  <2>1. Family = "ecdh" /\ j.op \notin TakesPublic /\ j.op \notin Sealers /\ j.op # "HMAC" /\ KindOf[j.op] = "ecdh"
    BY <1>2, <1>9, KindsOf DEF FamilyFor, TakesPublic, Sealers, Sealer, KindOf
  <2>2. ~(/\ j.a.key.form = "pkcs8" /\ j.a.key.alg = "ecdh" /\ j.a.key.size \in Curves
          /\ j.a.art.kind = "ecdh" /\ j.a.art.bind = <<j.a.key.size>> /\ j.a.art.key = j.a.key.key /\ j.a.art.ver = j.a.key.ver)
    BY <1>3, <1>9 DEF LocalWorks
  <2>3. LocalArt(j.from.art, j.with) /\ j.from.art.kind = "ecdh" =>
           LocalData(j.with) /\ j.from.art.key = j.with.ref.key /\ j.from.art.ver = 0 /\ j.from.art.bind = <<j.with.ref.size>>
    BY DEF LocalArt
  <2>. QED
    BY <1>1, <1>4, <1>5, <2>1, <2>2, <2>3 DEF Sealable
<1>10. CASE j.op = "SignEd25519"
  <2>1. Family = "ed25519" /\ j.op \notin TakesPublic /\ j.op \notin Openers
    BY <1>2, <1>10, KindsOf DEF FamilyFor, TakesPublic, Openers, KindOf
  <2>2. ~(j.a.key.form = "pkcs8" /\ j.a.key.alg = "ed25519")
    BY <1>3, <1>10 DEF LocalWorks
  <2>. QED
    BY <1>1, <1>5, <2>1, <2>2 DEF Sealable, Openable
<1>11. CASE j.op = "VerifyEd25519"
  <2>1. Family = "ed25519" /\ j.op \in TakesPublic /\ j.op \notin Sealers /\ j.op # "HMAC" /\ KindOf[j.op] = "ed25519"
    BY <1>2, <1>11, KindsOf DEF FamilyFor, TakesPublic, Sealers, Sealer, KindOf
  <2>2. ~(/\ j.a.key.form = "pkix" /\ j.a.key.alg = "ed25519"
          /\ j.a.art.kind = "ed25519" /\ j.a.art.key = j.a.key.key /\ j.a.art.ver = j.a.key.ver /\ j.a.art.msg = j.a.msg)
    BY <1>3, <1>11 DEF LocalWorks
  <2>3. LocalArt(j.from.art, j.with) /\ j.from.art.kind = "ed25519" =>
           LocalData(j.with) /\ j.from.art.key = j.with.ref.key /\ j.from.art.ver = 0
    BY DEF LocalArt
  <2>4. j.from # NoArt => j.a.msg = j.from.art.msg
    BY DEF LocalHad
  <2>. QED
    BY <1>1, <1>4, <1>5, <2>1, <2>2, <2>3, <2>4 DEF Sealable
<1>12. CASE j.op = "HMAC"
  BY <1>3, <1>12 DEF LocalWorks
<1>13. CASE Family = "rsa"
  <2>1. ~Sealable(j)
    BY <1>2, <1>13 DEF Sealable, NotServed
  <2>2. LocalArt(j.from.art, j.with) => j.from.art.kind = "mac"
    BY <1>13 DEF LocalArt
  <2>3. j.op \in Openers => KindOf[j.op] # "mac"
    BY DEF Openers, KindOf
  <2>. QED
    BY <1>4, <2>1, <2>2, <2>3
<1>14. j.op \in {"RSA_OAEP_Encode", "RSA_OAEP_Decode", "SignRSAPSS", "VerifyRSAPSS",
                 "Sign_RSA_PKCS1v15_SHA256", "Verify_RSA_PKCS1v15_SHA256"} => Family = "rsa"
  BY <1>2, KindsOf DEF FamilyFor
<1>. QED
  BY <1>6, <1>7, <1>8, <1>9, <1>10, <1>11, <1>12, <1>13, <1>14 DEF Workers, Sealers, Sealer, Openers, KindOf

\* What such a method gives is what was promised of it.
LEMMA LocalValues ==
  ASSUME NEW j, ~Remote, LocalHad(j), j.op \in Workers, j.a.art = j.from.art, NEW v, LocalWorks(j.op, j.a, Give(v))
  PROVE  LocalPromised(j, v)
<1>1. /\ j.with = NoData \/ LocalData(j.with)
      /\ j.with = NoData => j.a.key = NoText
      /\ IF j.op \in TakesPublic THEN j.a.key = j.with.pub ELSE j.a.key = j.with.ref
      /\ NoText.form = "none"
  BY LocalKey
<1>2. FamilyFor(j.op) = Family
  BY DEF LocalHad
<1>3. Give(v) # Fail /\ \A x : Give(v) = Give(x) => v = x
  BY DEF Give, Fail
<1>4. LocalData(j.with) =>
         /\ j.with.ref.ver = 0
         /\ Family = "rsa" => j.with.ref.form = "pkcs1" /\ j.with.pub.form = "pkcs1pub"
         /\ Family \in {"ecdh", "ed25519"} => j.with.pub.key = j.with.ref.key /\ j.with.pub.ver = 0 /\ j.with.pub.size = j.with.ref.size
  BY LocalHalves
<1>5. ASSUME NEW bind, v = Sealed(Family, j.a.key, j.a.msg, bind), j.a.key.form # "none", Family # "rsa",
             Family = "ecdh" => bind = <<j.a.key.size>>, Family = "aes" => j.op \notin TakesPublic,
             Family \in {"aes", "ecdh", "ed25519"}, j.op \notin Openers
      PROVE  LocalPromised(j, v)
  <2>1. v.kind = Family /\ v.key = j.a.key.key /\ v.ver = j.a.key.ver /\ v.bind = bind
    BY <1>5 DEF Sealed
  <2>2. LocalData(j.with)
    BY <1>1, <1>5
  <2>3. v.key = j.with.ref.key /\ v.ver = 0 /\ (Family = "ecdh" => bind = <<j.with.ref.size>>)
    BY <1>1, <1>4, <1>5, <2>1, <2>2
  <2>4. LocalArt(v, j.with)
    BY <1>5, <2>1, <2>2, <2>3 DEF LocalArt
  <2>5. DOMAIN v # DOMAIN NoData
    BY Zenon, <1>5, Domains
  <2>. QED
    BY <1>5, <2>4, <2>5 DEF LocalPromised, Openable
<1>6. ASSUME v = Verified \/ v = Message(j.a.art.msg) PROVE LocalPromised(j, v)
  <2>1. DOMAIN v # DOMAIN NoData /\ DOMAIN v # DOMAIN NoArt.art
    BY <1>6, Domains
  <2>. QED
    BY <1>6, <2>1 DEF LocalPromised
<1>7. CASE j.op = "EncryptAES"
  <2>1. Family = "aes" /\ j.op \notin TakesPublic /\ j.op \notin Openers
    BY <1>2, <1>7, KindsOf DEF FamilyFor, TakesPublic, Openers, KindOf
  <2>. DEFINE bind == BytesFromOptionalString(j.a.add)
  <2>2. j.a.key.form = "aes" /\ v = Sealed("aes", j.a.key, j.a.msg, bind)
    BY <1>3, <1>7 DEF LocalWorks
  <2>. HIDE DEF bind
  <2>. QED
    BY <1>5, <2>1, <2>2
<1>8. CASE j.op = "DecryptAES"
  <2>1. v = Message(j.a.art.msg)
    BY <1>3, <1>8 DEF LocalWorks
  <2>. QED
    BY <1>6, <2>1
<1>9. CASE j.op = "ECDH_Encode"
  <2>1. Family = "ecdh" /\ j.op \notin Openers
    BY <1>2, <1>9, KindsOf DEF FamilyFor, Openers, KindOf
  <2>. DEFINE bind == <<j.a.key.size>>
  <2>2. j.a.key.form = "pkix" /\ v = Sealed("ecdh", j.a.key, j.a.msg, bind)
    BY <1>3, <1>9 DEF LocalWorks
  <2>3. bind = <<j.a.key.size>>
    OBVIOUS
  <2>. HIDE DEF bind
  <2>. QED
    BY <1>5, <2>1, <2>2, <2>3
<1>10. CASE j.op = "ECDH_Decode"
  <2>1. v = Message(j.a.art.msg)
    BY <1>3, <1>10 DEF LocalWorks
  <2>. QED
    BY <1>6, <2>1
<1>11. CASE j.op = "SignEd25519"
  <2>1. Family = "ed25519" /\ j.op \notin Openers
    BY <1>2, <1>11, KindsOf DEF FamilyFor, Openers, KindOf
  <2>. DEFINE bind == << >>
  <2>2. j.a.key.form = "pkcs8" /\ v = Sealed("ed25519", j.a.key, j.a.msg, bind)
    BY <1>3, <1>11 DEF LocalWorks
  <2>. HIDE DEF bind
  <2>. QED
    BY <1>5, <2>1, <2>2
<1>12. CASE j.op = "VerifyEd25519"
  <2>1. v = Verified
    BY <1>3, <1>12 DEF LocalWorks
  <2>. QED
    BY <1>6, <2>1
<1>13. CASE j.op = "HMAC"
  <2>1. v = Sealed("mac", j.a.key, j.a.msg, << >>)
    BY <1>3, <1>13 DEF LocalWorks
  <2>2. v.kind = "mac"
    BY <2>1 DEF Sealed
  <2>3. DOMAIN v # DOMAIN NoData
    BY Zenon, <2>1, Domains
  <2>4. j.op \notin Openers
    BY <1>13 DEF Openers, KindOf
  <2>. QED
    BY <2>2, <2>3, <2>4 DEF LocalPromised, LocalArt, Openable
<1>14. CASE j.op \in {"RSA_OAEP_Encode", "RSA_OAEP_Decode", "SignRSAPSS", "VerifyRSAPSS",
                      "Sign_RSA_PKCS1v15_SHA256", "Verify_RSA_PKCS1v15_SHA256"}
  <2>1. FamilyFor(j.op) = "rsa"
    BY <1>14, KindsOf DEF FamilyFor
  <2>2. j.a.key.form \notin {"pkcs8", "pkix"}
    BY <1>1, <1>2, <1>4, <2>1
  <2>. QED
    BY <1>3, <2>1, <2>2 DEF LocalWorks
<1>. QED
  BY <1>7, <1>8, <1>9, <1>10, <1>11, <1>12, <1>13, <1>14 DEF Workers, Sealers, Sealer, Openers, KindOf

\* The keys that the local repository makes are local key data.
LEMMA LocalMakes ==
  ASSUME NEW op \in DOMAIN Makes, Makes[op] = Family, NEW a, NEW v, Mem!Method(op, a) = Give(v)
  PROVE  LocalData(v)
<1>1. Give(v) # Fail /\ Mem!Fail = Fail /\ \A x : Give(v) = Give(x) => v = x
  BY MemVocabulary DEF Give, Fail
<1>2. \A x, y : Mem!Material(x, y) = Give(KeyData(x, x, y))
  BY Zenon, MemVocabulary DEF Mem!Material
<1>3. CASE op = "GenerateSymetrycKeys"
  <2>1. Family = "aes"
    BY <1>3 DEF Makes
  <2>2. Mem!GenerateSymetrycKeys(a) = Give(v)
    BY <1>3 DEF Mem!Method
  <2>3. v = KeyData(Text("aes", "aes", a.new, 0, a.size), Text("aes", "aes", a.new, 0, a.size), NoText)
    BY <1>1, <1>2, <2>2, MemTexts DEF Mem!GenerateSymetrycKeys
  <2>. QED
    BY <2>1, <2>3 DEF LocalData
<1>4. CASE op = "GenerateRSAKeys"
  <2>1. Family = "rsa"
    BY <1>4 DEF Makes
  <2>2. Mem!GenerateRSAKeys(a) = Give(v)
    BY <1>4 DEF Mem!Method
  <2>3. v = Halves(a.new, a.size, "pkcs1", "pkcs1pub")
    BY <1>1, <1>2, <2>1, <2>2, MemTexts DEF Mem!GenerateRSAKeys, Halves
  <2>. QED
    BY <2>1, <2>3 DEF LocalData
<1>5. CASE op = "GenerateECDHCurveKeys"
  <2>1. Family = "ecdh"
    BY <1>5 DEF Makes
  <2>2. Mem!GenerateECDHCurveKeys(a) = Give(v)
    BY <1>5 DEF Mem!Method
  <2>3. a.size \in Curves /\ v = Halves(a.new, a.size, "pkcs8", "pkix")
    BY <1>1, <1>2, <2>1, <2>2, MemTexts DEF Mem!GenerateECDHCurveKeys, Halves
  <2>. QED
    BY <2>1, <2>3 DEF LocalData
<1>6. CASE op = "GenerateEd255Keys"
  <2>1. Family = "ed25519"
    BY <1>6 DEF Makes
  <2>2. Mem!GenerateEd255Keys(a) = Give(v)
    BY <1>6 DEF Mem!Method
  <2>3. v = Halves(a.new, 0, "pkcs8", "pkix")
    BY <1>1, <1>2, <2>1, <2>2, MemTexts DEF Mem!GenerateEd255Keys, Halves
  <2>. QED
    BY <2>1, <2>3 DEF LocalData
<1>. QED
  BY <1>3, <1>4, <1>5, <1>6 DEF Makes

\* What any method of the local repository makes of a call.
LEMMA LocalGives ==
  ASSUME NEW j, ~Remote, LocalHad(j), j.op \in AllOps, j.a.art = j.from.art, ArtOK(j.from),
         j.op \in DOMAIN Makes => Makes[j.op] = Family
  PROVE  /\ Mem!Method(j.op, j.a) = Fail => ~Watched(j)
         /\ \A v : Mem!Method(j.op, j.a) = Give(v) => LocalPromised(j, v)
<1>. DEFINE m == Mem!Method(j.op, j.a)
<1>1. CASE j.op \in Workers
  <2>1. IsText(j.a.key)
    BY Zenon, <1>1, LocalKey
  <2>2. LocalWorks(j.op, j.a, m)
    BY Zenon, <1>1, <2>1, MemWorks
  <2>3. m = Fail => ~Watched(j)
    BY Zenon, <1>1, <2>2, LocalUses
  <2>4. ASSUME NEW v, m = Give(v) PROVE LocalPromised(j, v)
    <3>1. LocalWorks(j.op, j.a, Give(v))
      BY Zenon, <2>2, <2>4
    <3>. QED
      BY Zenon, <1>1, <3>1, LocalValues
  <2>. QED
    BY Zenon, <2>3, <2>4
<1>2. CASE j.op \notin Workers
  <2>1. ~Watched(j)
    BY <1>2, WorkersAre DEF Watched, Manageable, Sealable, Openable, Workers
  <2>2. ~Openable(j)
    BY Zenon, <2>1 DEF Watched
  <2>3. ASSUME NEW v, m = Give(v) PROVE LocalPromised(j, v)
    <3>1. CASE j.op \in DOMAIN Makes
      <4>1. LocalData(v)
        BY Zenon, <2>3, <3>1, LocalMakes
      <4>2. \E x, y, z : v = KeyData(x, y, z)
        BY <4>1 DEF LocalData, Halves
      <4>3. DOMAIN v # DOMAIN NoArt.art
        BY <4>2, Domains
      <4>. QED
        BY Zenon, <2>2, <4>1, <4>3 DEF LocalPromised
    <3>2. CASE j.op \in Manages
      <4>1. m = Fail
        BY <3>2, MemVocabulary DEF Manages, Mem!Method, Mem!RotateKey, Mem!GetKey, Mem!DeactivateKey
      <4>2. Give(v) # Fail
        BY DEF Give, Fail
      <4>. QED
        BY Zenon, <2>3, <4>1, <4>2
    <3>3. CASE j.op \in {"Sha256Hex", "Blake3"}
      <4>1. m = Give(Digest(j.a.msg))
        BY <3>3, MemVocabulary DEF Mem!Method, Mem!Sha256Hex, Mem!Blake3
      <4>. HIDE DEF m
      <4>2. v = Digest(j.a.msg)
        BY <2>3, <4>1 DEF Give
      <4>3. DOMAIN v # DOMAIN NoData /\ DOMAIN v # DOMAIN NoArt.art
        BY <4>2, Domains
      <4>. QED
        BY Zenon, <2>2, <4>3 DEF LocalPromised
    <3>. QED
      BY <1>2, <3>1, <3>2, <3>3, WorkersAre DEF AllOps, Seals
  <2>. QED
    BY Zenon, <2>1, <2>3
<1>. QED
  BY Zenon, <1>1, <1>2

\* A local method that ends, with an error that its caller may see or with what
\* was promised.
LEMMA LocalEnds ==
  ASSUME NEW j, IsJob(j), LocalHad(j), NEW r, NEW why,
         \/ r = Fail /\ (why \in Blameless \/ ~Watched(j))
         \/ \E v : r = Give(v) /\ LocalPromised(j, v)
  PROVE  LocalJob(Returned(j, r, why))
<1>. DEFINE n == Returned(j, r, why)
<1>1. /\ n.st = "returned" /\ Alike(j, n) /\ n.why = why /\ (n.ok <=> r.step = "give" \/ j.op \in Hashes)
      /\ r.step = "give" => n.val = r.val
      /\ r.step # "give" /\ j.op \in Hashes => n.val = NoDigest
  BY ReturnedJob DEF Alike
<1>. HIDE DEF n
<1>2. LocalHad(n)
  BY <1>1 DEF Alike, LocalHad
<1>3. /\ Manageable(n) \/ Sealable(n) \/ Openable(n) => Watched(j)
      /\ Openable(n) => Openable(j)
      /\ j.op \in Hashes => ~Openable(n)
  <2>1. j.op \in Hashes => ~Openable(n)
    BY <1>1, WorkersAre DEF Openable, Alike
  <2>. QED
    BY Zenon, <1>1, <2>1, AlikeHad DEF Watched
<1>4. n.with = j.with /\ n.from = j.from
  BY <1>1 DEF Alike
<1>5. CASE r = Fail /\ (why \in Blameless \/ ~Watched(j))
  <2>1. (n.ok <=> j.op \in Hashes) /\ (j.op \in Hashes => n.val = NoDigest)
    BY <1>1, <1>5 DEF Fail
  <2>2. Serves(n)
    BY Zenon, <1>1, <1>3, <1>5, <2>1 DEF Serves, Fair, Recovers
  <2>3. LocalDone(n)
    BY Zenon, <2>1, <2>2, Domains DEF LocalDone
  <2>. QED
    BY <1>1, <1>2, <2>3 DEF LocalJob, n
<1>6. ASSUME NEW v, r = Give(v), LocalPromised(j, v) PROVE LocalJob(n)
  <2>1. n.ok /\ n.val = v
    BY <1>1, <1>6 DEF Give
  <2>2. Serves(n)
    BY <1>3, <1>4, <1>6, <2>1 DEF Serves, LocalPromised, Fair, Recovers
  <2>3. LocalDone(n)
    BY Zenon, <1>4, <1>6, <2>1, <2>2 DEF LocalDone, LocalPromised
  <2>. QED
    BY <1>1, <1>2, <2>3 DEF LocalJob
<1>7. LocalJob(n)
  BY Zenon, <1>5, <1>6 DEF n
<1>. QED
  BY Zenon, <1>7 DEF n

\* What is said of local keys depends on the backend and the family only.
LEMMA SameLocal ==
  ASSUME env' = env
  PROVE  /\ \A d : LocalData(d)' <=> LocalData(d)
         /\ \A art, with : LocalArt(art, with)' <=> LocalArt(art, with)
         /\ \A j : LocalJob(j)' <=> LocalJob(j)
<1>1. (Backend' = Backend) /\ (Family' = Family)
  BY DEF Backend, Family
<1>2. (Remote' <=> Remote)
  BY <1>1 DEF Remote
<1>3. \A d : LocalData(d)' <=> LocalData(d)
  <2>1. \A k, size, p, q : Halves(k, size, p, q)' = Halves(k, size, p, q)
    BY Zenon, <1>1 DEF Halves
  <2>. QED
    BY Zenon, <1>1, <2>1 DEF LocalData
<1>4. \A art, with : LocalArt(art, with)' <=> LocalArt(art, with)
  BY Zenon, <1>1, <1>3 DEF LocalArt
<1>5. \A op, d : KeyTexts(op, d)' = KeyTexts(op, d)
  BY Zenon, <1>1 DEF KeyTexts
<1>6. \A j : LocalHad(j)' <=> LocalHad(j)
  BY Zenon, <1>1, <1>3, <1>4, <1>5 DEF LocalHad
<1>7. \A j : Serves(j)' <=> Serves(j)
  <2>1. \A j : Manageable(j)' <=> Manageable(j)
    BY Zenon, <1>1, <1>2 DEF Manageable
  <2>2. \A j : Sealable(j)' <=> Sealable(j)
    BY Zenon, <1>1 DEF Sealable
  <2>. QED
    BY Zenon, <2>1, <2>2 DEF Serves
<1>8. \A j : LocalDone(j)' <=> LocalDone(j)
  BY Zenon, <1>3, <1>4, <1>7 DEF LocalDone
<1>9. \A j : LocalJob(j)' <=> LocalJob(j)
  BY Zenon, <1>6, <1>8 DEF LocalJob
<1>. QED
  BY Zenon, <1>3, <1>4, <1>9

\* A client calls a method of the local repository, or takes what it returned.
LEMMA LocalCall ==
  ASSUME BindingInv, ~Remote, LocalServes, NEW c \in Clients, Call_(c)
  PROVE  \E n : LocalJob(n) /\ job' = [job EXCEPT ![c] = n]
<1>1. PICK op \in Ops(c) : \E x \in Arguments(op) : \E key \in KeyTexts(op, x.with) : Begins(c, op, x, key)
  BY Zenon, CallBegins
<1>2. PICK x \in Arguments(op) : \E key \in KeyTexts(op, x.with) : Begins(c, op, x, key)
  BY Zenon, <1>1
<1>3. PICK key \in KeyTexts(op, x.with) : Begins(c, op, x, key)
  BY Zenon, <1>2
<1>. DEFINE a == ArgsOf(op, x, key)
           j == JobOf(op, x, key)
           m == Method(op, a)
<1>4. PICK r, why : /\ job' = [job EXCEPT ![c] = Started(j, r, why)]
                    /\ r = m \/ (r = Fail /\ why = "fault")
  <2>. HIDE DEF a, j, m
  <2>1. \E s, w : /\ job' = [job EXCEPT ![c] = Started(j, s, w)]
                  /\ s = m \/ (s = Fail /\ w = "fault")
    BY <1>3, BegunAs DEF a, j, m
  <2>. QED
    BY Zenon, <2>1
<1>5. /\ IsJob(j) /\ j.op = op /\ j.from = x.from /\ j.a = a /\ a.art = x.from.art /\ a.key = key
  BY BegunJob
<1>6. j.with = x.with /\ (x.from # NoArt => a.msg = x.from.art.msg)
  BY BegunWith
<1>7. x.with \in held \cup {NoData} /\ x.from \in arts \cup {NoArt}
  BY DEF Arguments
<1>. HIDE DEF a, j
<1>8. LocalHad(j)
  <2>1. j.with = NoData \/ LocalData(j.with)
    BY <1>6, <1>7 DEF LocalServes
  <2>2. j.from = NoArt \/ LocalArt(j.from.art, j.from.with)
    BY <1>5, <1>7 DEF LocalServes
  <2>3. j.op \in Workers => FamilyFor(j.op) = Family
    BY Zenon, <1>5, WorkersFamily DEF BindingInv, EnvOK
  <2>4. j.a.key \in KeyTexts(j.op, j.with)
    BY Zenon, <1>5, <1>6
  <2>5. j.from # NoArt => j.a.msg = j.from.art.msg
    BY <1>5, <1>6
  <2>. QED
    BY Zenon, <2>1, <2>2, <2>3, <2>4, <2>5 DEF LocalHad
<1>9. op \in AllOps /\ (j.op \in DOMAIN Makes => Makes[j.op] = Family)
  BY Zenon, <1>5, CalledMethods, FamilyMethods DEF BindingInv, EnvOK
<1>10. j.a.art = j.from.art /\ ArtOK(j.from)
  <2>1. ArtOK(NoArt)
    BY DEF ArtOK, NoArt, Uids, Adds, BoundTo, Sealed
  <2>2. \A e \in arts : ArtOK(e)
    BY Zenon DEF BindingInv
  <2>. QED
    BY <1>5, <1>7, <2>1, <2>2
<1>11. m = Mem!Method(j.op, j.a)
  <2>1. Method(op, a) = Mem!Method(op, a)
    BY DEF Method, Remote
  <2>. QED
    BY Zenon, <1>5, <2>1
<1>12. /\ m = Fail => ~Watched(j)
       /\ \A v : m = Give(v) => LocalPromised(j, v)
  BY Zenon, <1>5, <1>8, <1>9, <1>10, <1>11, LocalGives
<1>13. m = Fail \/ \E v : m = Give(v)
  <2>1. LocalPlan(op, a, Method(op, a))
    BY Zenon, <1>9, MethodLocal
  <2>. QED
    BY Zenon, <2>1 DEF LocalPlan
<1>. HIDE DEF m
<1>14. \/ r = Fail /\ (why \in Blameless \/ ~Watched(j))
       \/ \E v : r = Give(v) /\ LocalPromised(j, v)
  <2>1. why = "fault" => why \in Blameless
    BY DEF Blameless
  <2>. QED
    BY Zenon, <1>4, <1>12, <1>13, <2>1
<1>15. Started(j, r, why) = Returned(j, r, why)
  <2>1. r.step # "ask"
    BY <1>14 DEF Fail, Give
  <2>. QED
    BY <2>1 DEF Started
<1>16. LocalJob(Returned(j, r, why))
  BY Zenon, <1>5, <1>8, <1>14, LocalEnds
<1>. QED
  BY Zenon, <1>4, <1>15, <1>16

\* What the local repository returned is taken.
LEMMA LocalTake ==
  ASSUME ~Remote, LocalServes, NEW c \in Clients, Take(c)
  PROVE  /\ \A d \in held' : LocalData(d)
         /\ \A e \in arts' : LocalArt(e.art, e.with)
<1>. DEFINE j == job[c]
           e == [art |-> j.val, with |-> j.with, uid |-> j.a.uid, add |-> j.a.add]
<1>1. LocalDone(j)
  BY Zenon DEF Take, LocalServes, LocalJob
<1>2. \A d \in held' : LocalData(d)
  <2>1. \A d \in held' : d \in held \/ (j.ok /\ DOMAIN j.val = DOMAIN NoData /\ d = j.val)
    BY DEF Take
  <2>2. j.ok /\ DOMAIN j.val = DOMAIN NoData => LocalData(j.val)
    BY Zenon, <1>1 DEF LocalDone
  <2>3. \A d \in held : LocalData(d)
    BY Zenon DEF LocalServes
  <2>. HIDE DEF j
  <2>. QED
    BY <2>1, <2>2, <2>3
<1>3. \A x \in arts' : LocalArt(x.art, x.with)
  <2>1. \A x \in arts' : x \in arts \/ (j.ok /\ DOMAIN j.val = DOMAIN NoArt.art /\ x = e)
    BY DEF Take
  <2>2. j.ok /\ DOMAIN j.val = DOMAIN NoArt.art => LocalArt(j.val, j.with)
    BY Zenon, <1>1 DEF LocalDone
  <2>3. \A x \in arts : LocalArt(x.art, x.with)
    BY Zenon DEF LocalServes
  <2>4. e.art = j.val /\ e.with = j.with
    OBVIOUS
  <2>. HIDE DEF j, e
  <2>. QED
    BY <2>1, <2>2, <2>3, <2>4
<1>. QED
  BY Zenon, <1>2, <1>3

\* Nothing that a client does with the local repository spoils its keys.
LEMMA LocalStays ==
  ASSUME BindingInv, ~Remote, LocalServes, NEW c \in Clients, Call_(c) \/ ServiceCall(c) \/ Take(c)
  PROVE  LocalServes'
<1>1. env' = env
  BY Zenon DEF Call_, ServiceCall, Take
<1>2. /\ \A d : LocalData(d)' <=> LocalData(d)
      /\ \A art, with : LocalArt(art, with)' <=> LocalArt(art, with)
      /\ \A j : LocalJob(j)' <=> LocalJob(j)
  BY Zenon, <1>1, SameLocal
<1>3. job = [d \in Clients |-> job[d]]
  BY Zenon DEF BindingInv
<1>4. ASSUME NEW n, LocalJob(n), job' = [job EXCEPT ![c] = n],
             \A d \in held' : LocalData(d), \A e \in arts' : LocalArt(e.art, e.with)
      PROVE  LocalServes'
  <2>1. job'[c] = n /\ \A d \in Clients : d # c => job'[d] = job[d]
    BY <1>3, <1>4
  <2>2. \A d \in Clients : LocalJob(job'[d])
    BY Zenon, <1>4, <2>1 DEF LocalServes
  <2>3. (\A d \in held' : LocalData(d)') /\ (\A e \in arts' : LocalArt(e.art, e.with)')
        /\ (\A d \in Clients : LocalJob(job[d])')
    <3>1. \A d \in held' : LocalData(d)'
      BY <1>2, <1>4
    <3>2. \A e \in arts' : LocalArt(e.art, e.with)'
      BY <1>2, <1>4
    <3>3. \A d \in Clients : LocalJob(job[d])'
      BY <1>1, <1>2, <2>2
    <3>. QED
      BY Zenon, <3>1, <3>2, <3>3
  <2>. QED
    BY Zenon, <2>3 DEF LocalServes
<1>5. CASE Take(c)
  <2>1. job' = [job EXCEPT ![c] = Idle]
    BY Zenon, <1>5 DEF Take
  <2>2. LocalJob(Idle)
    BY DEF LocalJob, Idle
  <2>. QED
    BY Zenon, <1>4, <1>5, <2>1, <2>2, LocalTake
<1>6. CASE Call_(c)
  <2>1. held' = held /\ arts' = arts
    BY Zenon, <1>6 DEF Call_
  <2>2. \E n : LocalJob(n) /\ job' = [job EXCEPT ![c] = n]
    BY Zenon, <1>6, LocalCall
  <2>. QED
    BY Zenon, <1>4, <2>1, <2>2 DEF LocalServes
<1>7. CASE ServiceCall(c)
  BY Zenon, <1>7 DEF ServiceCall, LocalServes, LocalJob
<1>. QED
  BY Zenon, <1>5, <1>6, <1>7

----------------------------------------------------------------------------
(* The invariant, and what follows from it.                                *)

ServeInv == IF Remote THEN ServiceServes ELSE LocalServes

\* The invariant holds at first, of any backend.
LEMMA ServeInit ==
  ASSUME Init
  PROVE  ServeInv
<1>1. CASE Remote
  BY Zenon, <1>1, ServesInit DEF ServeInv
<1>2. CASE ~Remote
  <2>1. env.configured = NoText
    BY <1>2 DEF Init, Remote, Backend
  <2>2. held = {} /\ arts = {} /\ job = [c \in Clients |-> Idle]
    BY <2>1 DEF Init
  <2>3. LocalJob(Idle)
    BY DEF LocalJob, Idle
  <2>4. LocalServes
    BY <2>2, <2>3 DEF LocalServes
  <2>. QED
    BY Zenon, <1>2, <2>4 DEF ServeInv
<1>. QED
  BY Zenon, <1>1, <1>2

\* Every step keeps the invariant.
LEMMA StepServes ==
  ASSUME BindingInv, KeptInv, ServeInv, [Next]_vars
  PROVE  ServeInv'
<1>1. CASE UNCHANGED vars
  <2>1. env' = env /\ store' = store /\ held' = held /\ arts' = arts /\ job' = job
    BY <1>1 DEF vars
  <2>2. Remote' <=> Remote
    BY Zenon, <2>1, SameKept
  <2>3. CASE Remote
    <3>1. ServiceServes
      BY Zenon, <2>3 DEF ServeInv
    <3>2. Widened(store')
      BY Zenon, <2>1, <3>1, GrowsItself DEF Widened, Wider, ServiceServes
    <3>3. /\ \A d \in held' : DataFits(store', d)
          /\ \A e \in arts' : ArtFits(store', e.art, e.with)
          /\ \A c \in Clients : JobServes(store', job'[c])
      BY Zenon, <2>1, <3>1 DEF ServiceServes
    <3>4. ServiceServes'
      BY Zenon, <2>1, <3>1, <3>2, <3>3, Serviced
    <3>. QED
      BY Zenon, <2>2, <2>3, <3>4 DEF ServeInv
  <2>4. CASE ~Remote
    <3>1. LocalServes
      BY Zenon, <2>4 DEF ServeInv
    <3>2. /\ \A d : LocalData(d)' <=> LocalData(d)
          /\ \A art, with : LocalArt(art, with)' <=> LocalArt(art, with)
          /\ \A j : LocalJob(j)' <=> LocalJob(j)
      BY Zenon, <2>1, SameLocal
    <3>3. /\ \A d \in held' : LocalData(d)'
          /\ \A e \in arts' : LocalArt(e.art, e.with)'
          /\ \A c \in Clients : LocalJob(job[c])'
      <4>1. \A d \in held' : LocalData(d)'
        BY <2>1, <3>1, <3>2 DEF LocalServes
      <4>2. \A e \in arts' : LocalArt(e.art, e.with)'
        BY <2>1, <3>1, <3>2 DEF LocalServes
      <4>3. \A c \in Clients : LocalJob(job[c])'
        BY <2>1, <3>1, <3>2 DEF LocalServes
      <4>. QED
        BY Zenon, <4>1, <4>2, <4>3
    <3>4. LocalServes'
      BY Zenon, <3>3 DEF LocalServes
    <3>. QED
      BY Zenon, <2>2, <2>4, <3>4 DEF ServeInv
  <2>. QED
    BY Zenon, <2>3, <2>4
<1>2. ASSUME NEW c \in Clients, Call_(c) \/ ServiceCall(c) \/ Take(c)
      PROVE  ServeInv'
  <2>1. env' = env
    BY Zenon, <1>2 DEF Call_, ServiceCall, Take
  <2>2. Remote' <=> Remote
    BY Zenon, <2>1, SameKept
  <2>3. CASE Remote
    <3>1. RetentionInv /\ ServiceServes
      BY Zenon, <2>3 DEF KeptInv, ServeInv
    <3>2. ServiceServes'
      BY Zenon, <1>2, <2>3, <3>1, CallServes, ServiceStep, TakeServes
    <3>. QED
      BY Zenon, <2>2, <2>3, <3>2 DEF ServeInv
  <2>4. CASE ~Remote
    <3>1. LocalServes
      BY Zenon, <2>4 DEF ServeInv
    <3>2. LocalServes'
      BY Zenon, <1>2, <2>4, <3>1, LocalStays
    <3>. QED
      BY Zenon, <2>2, <2>4, <3>2 DEF ServeInv
  <2>. QED
    BY Zenon, <2>3, <2>4
<1>. QED
  BY Zenon, <1>1, <1>2 DEF Next

\* The invariant of what key data is good for, for every backend, any number of
\* clients and names and any interleaving of their calls: every text that the
\* service gives is of one of its keys and of the family's kind, every artefact
\* is of the key that its maker named, every call under way follows the plan
\* that its arguments call for, and every call that has returned has kept what
\* is promised of it.
THEOREM KeysServe == Spec => []ServeInv
<1>1. Init => ServeInv
  BY ServeInit
<1>2. BindingInv /\ KeptInv /\ ServeInv /\ [Next]_vars => ServeInv'
  BY StepServes
<1>. QED
  BY <1>1, <1>2, CiphertextsAreBound, KeysAreKept, PTL DEF Spec

\* A call that has returned serves, whichever the backend.
LEMMA ReturnedServes ==
  ASSUME ServeInv, NEW c \in Clients, job[c].st = "returned"
  PROVE  Serves(job[c])
<1>1. CASE Remote
  BY Zenon, <1>1 DEF ServeInv, ServiceServes, JobServes, Done
<1>2. CASE ~Remote
  BY Zenon, <1>2 DEF ServeInv, LocalServes, LocalJob, LocalDone
<1>. QED
  BY Zenon, <1>1, <1>2

\* RoundTrip of the run, for every value of the constants: what a method of any
\* repository has sealed or signed with key data, the method paired with it
\* opens or checks with the same key data, whatever happened to the key in
\* between, unless the service or the caller's context fails, the version is
\* off, or the key was not made for that use.
THEOREM SealedThenOpened == Spec => []RoundTrip
<1>1. ServeInv => RoundTrip
  <2>. SUFFICES ASSUME ServeInv, NEW c \in Clients, Opening(job[c]),
                       job[c].from.with = job[c].with,
                       job[c].a.key = NoText => job[c].with = NoData,
                       job[c].from.uid = job[c].a.uid, job[c].from.add = job[c].a.add,
                       ~EmptyInHardware(job[c]), ~NoWayToDerive(job[c]), ~NoPublicHalf(job[c])
                PROVE  IF job[c].ok THEN job[c].val \in {Message(job[c].from.art.msg), Verified}
                       ELSE job[c].why \in {"fault", "off", "use"}
    BY DEF RoundTrip
  <2>1. Openable(job[c])
    BY DEF Opening, Openable, Openers
  <2>2. Serves(job[c])
    BY Zenon, ReturnedServes DEF Opening
  <2>. QED
    BY Zenon, <2>1, <2>2 DEF Serves, Recovers, Blameless
<1>. QED
  BY <1>1, KeysServe, PTL

\* GeneratedKeyServes of the run, for every value of the constants: key data
\* that a repository made or looked up seals and signs.
THEOREM GeneratedKeysServe == Spec => []GeneratedKeyServes
<1>1. EnvOK /\ ServeInv => GeneratedKeyServes
  <2>. SUFFICES ASSUME EnvOK, ServeInv, NEW c \in Clients, job[c].st = "returned",
                       job[c].op \in {p[1] : p \in Pairs[Family]}, job[c].a.key # NoText,
                       <<Backend, Family>> \notin NotServed
                PROVE  job[c].ok \/ job[c].why \in {"fault", "off", "use"}
    BY DEF GeneratedKeyServes
  <2>1. job[c].op \in Sealers \cup {"HMAC"}
    <3>1. Family \in {"aes", "rsa", "ecdh", "ed25519", "mac"}
      BY DEF EnvOK, Families
    <3>2. \A op : op \in {p[1] : p \in Pairs[Family]} => op \in Sealers \cup {"HMAC"}
      BY <3>1 DEF Pairs, Sealers, Sealer
    <3>. QED
      BY Zenon, <3>2
  <2>2. Sealable(job[c])
    BY Zenon, <2>1 DEF Sealable
  <2>3. Serves(job[c])
    BY Zenon, ReturnedServes
  <2>. QED
    BY Zenon, <2>2, <2>3 DEF Serves, Fair, Blameless
<1>. QED
  BY <1>1, KeysServe, CiphertextsAreBound, PTL DEF BindingInv

\* The part of ManagedById that says why such a call may fail.
ManagementSucceeds ==
    \A c \in Clients :
      job[c].st = "returned" /\ ManagedBy(job[c]) => job[c].ok \/ job[c].why \in Blameless

\* For every value of the constants, the methods that look keys up and deactivate
\* them succeed with what a caller was given, but for a fault or a version off.
THEOREM KeysServeManagement == Spec => []ManagementSucceeds
<1>1. ServeInv => ManagementSucceeds
  <2>. SUFFICES ASSUME ServeInv, NEW c \in Clients, job[c].st = "returned", ManagedBy(job[c])
                PROVE  Fair(job[c])
    BY DEF ManagementSucceeds, Fair
  <2>1. Manageable(job[c])
    BY Zenon DEF ManagedBy, Manageable, Remote
  <2>2. Serves(job[c])
    BY Zenon, ReturnedServes
  <2>. QED
    BY Zenon, <2>1, <2>2 DEF Serves
<1>. QED
  BY <1>1, KeysServe, PTL
=============================================================================
