----------------------------- MODULE MCSecurity -----------------------------
(***************************************************************************)
(* Model checking of Security: four configuration files, one for each      *)
(* algorithm, the last with settings of two pairs; keys of two kinds set   *)
(* by the program; and two kinds of settings passed to the cookie service. *)
(***************************************************************************)
EXTENDS Security

Private(alg, k, pem) == Value(Text("pkcs8", alg, k, 0, 0), pem)
Public(alg, k, pem)  == Value(Text("pkix", alg, k, 0, 0), pem)
Secret(k)            == Value(Text("text", "none", k, 0, 0), FALSE)

MCFiles ==
    {[alg |-> Word("HS256"), secret |-> Secret("s1")],
     [alg |-> Word("RS256"), rsaPriv |-> Private("rsa", "k1", TRUE), rsaPub |-> Public("rsa", "k1", TRUE)],
     [alg |-> Word("EDDSA"), edPriv |-> Private("ed25519", "k2", FALSE), edPub |-> Public("ed25519", "k2", FALSE)],
     [alg |-> Word("PS256"), priv |-> Private("rsa", "k3", FALSE),
      rsaPriv |-> Private("rsa", "k1", TRUE), rsaPub |-> Public("rsa", "k1", TRUE)]}

MCKeyPairs ==
    {[name |-> "k4", priv |-> Private("rsa", "k4", FALSE), pub |-> Public("rsa", "k4", FALSE)],
     [name |-> "k5", priv |-> Private("ed25519", "k5", FALSE), pub |-> Public("ed25519", "k5", FALSE)]}

MCInputs ==
    {<<>>,
     [alg |-> Word("HS256"), secret |-> Secret("s2")],
     [alg |-> Word("RS256"), priv |-> Private("rsa", "k6", FALSE), pub |-> Public("rsa", "k6", FALSE)]}

MCClaims ==
    {[object |-> TRUE, exp |-> 1, nbf |-> Absent, role |-> "a"],
     [object |-> TRUE, exp |-> 2, nbf |-> 1, role |-> "b"],
     [object |-> TRUE, exp |-> Invalid, nbf |-> Absent, role |-> "a"],
     [object |-> FALSE, exp |-> Absent, nbf |-> Absent, role |-> "a"]}

MCOptions == {[role |-> "any", anyClaims |-> FALSE], [role |-> "a", anyClaims |-> TRUE]}
=============================================================================
