------------------------------ MODULE MCHosts ------------------------------
EXTENDS Hosts

CONSTANTS h1, h2, h3, k1, a, b, c

HostOf(alias, jump, key) == [alias |-> alias, jump |-> jump, key |-> key]

Mutations == (Device \union {Seed}) \X (1..MaxMutation)
Bases == Host \union Key
Records == Bases \union (Bases \X Mutations)

\* Vaults of two hosts, apart or the second behind the first; of three in
\* a chain; of a host and the key it offers.
Vault(first, second, third) ==
  [r \in {h \in {h1, h2, h3} : CASE h = h1 -> TRUE [] h = h2 -> second # None
                                  [] h = h3 -> third # None} |->
     CASE r = h1 -> first [] r = h2 -> second [] r = h3 -> third]
Apart == Vault(HostOf(a, None, None), HostOf(b, None, None), None)
Behind == Vault(HostOf(a, None, None), HostOf(b, a, None), None)
InChain == Vault(HostOf(a, None, None), HostOf(b, a, None), HostOf(c, b, None))
WithKey == [r \in {h1, k1} |-> IF r = h1 THEN HostOf(a, None, k1) ELSE KeyVal]

\* With an edit kept aside that closes a loop, and with a removal kept aside.
Conflict(h) == ConflictID(h, <<Seed, MaxMutation>>)
LoopKept == Behind @@ (Conflict(h1) :> ConflictPayload(FALSE, HostOf(a, b, None)))
RemovalKept == Behind @@ (Conflict(h2) :> ConflictPayload(TRUE, None))

Vaults == {Apart, Behind, InChain, LoopKept, RemovalKept, WithKey}

\* Hosts of which the first jumps through the second, two that loop, and one
\* the vault has already, with another jump.
Lists == { << HostOf(b, c, None), HostOf(c, None, None) >>,
           << HostOf(b, c, None), HostOf(c, b, None) >>,
           << HostOf(a, c, None), HostOf(c, None, None) >> }

Symmetry == Permutations(Device)
=============================================================================
