------------------------------- MODULE MCKeys -------------------------------
EXTENDS Keys

\* Every backend with every family of keys.
Served == Backends \X Families
Manager  == {"c2"}

\* Where the documentation is at odds with the code.
GooglePairs == {<<"gcp", "rsa">>}
=============================================================================
