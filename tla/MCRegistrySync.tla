--------------------------- MODULE MCRegistrySync ---------------------------
\* A small instance of RegistrySync: versions of one framework, each of which
\* differs from the one before.
EXTENDS RegistrySync

CONSTANTS f, v1, v2, oldText, newText

Two == v1 :> f @@ v2 :> f
TwoTexts == v1 :> oldText @@ v2 :> newText
=============================================================================
