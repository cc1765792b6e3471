----------------------------- MODULE MCPublish -----------------------------
EXTENDS Publish

CONSTANTS h1, k1, k2

\* Another device adds a key, offers it instead of the first, which it removes.
KeyReplaced == << [host |-> None, keys |-> {k2}, drop |-> {}],
                  [host |-> h1, keys |-> {k2}, drop |-> {}],
                  [host |-> None, keys |-> {}, drop |-> {k1}] >>
=============================================================================
