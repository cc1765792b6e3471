------------------------------ MODULE MCTrust ------------------------------
EXTENDS Trust

CONSTANTS o1, o2, web, git, f, g

Mutations == (Device \union {Seed}) \X (1..MaxMutation)
Records == Base \union (Base \X Mutations)

LineOf(names, fp) == [names |-> names, fp |-> fp, marker |-> ""]
RefusedLine(fp) == [LineOf({web}, fp) EXCEPT !.marker = "@revoked"]
Observed(line, status) == [line |-> line, digest |-> line, status |-> status]

\* Two keys for one host.
TwoKeys == {LineOf({web}, f), LineOf({web}, g)}
Mine == <<LineOf({web, git}, f), RefusedLine(g)>>

\* Vaults with nothing; with one key for both hosts; with a key under review
\* beside one that is refused; with an approval kept aside of one that is.
Empty == [r \in {} |-> r]
Known == [r \in {o1} |-> Observed(LineOf({web, git}, f), "approved")]
Refused == [Observed(LineOf({web}, f), "approved") EXCEPT !.line.marker = "@revoked"]
Review == [r \in {o1, o2} |-> IF r = o1 THEN Refused ELSE Observed(LineOf({web}, g), "pending")]
Aside == (o1 :> Refused)
         @@ (ConflictID(o1, <<Seed, MaxMutation>>) :>
               ConflictPayload(FALSE, Observed(LineOf({web}, f), "approved")))
Vaults == {Empty, Known, Review, Aside}

Symmetry == Permutations(Device)
=============================================================================
