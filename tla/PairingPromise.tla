--------------------------- MODULE PairingPromise ---------------------------
(***************************************************************************)
(* What pairing promises, without relay, sessions or messages: a joiner    *)
(* gets the vault's keys only once both users agreed on one transcript,    *)
(* becomes a member only after the keys were sent, holds the vault only as *)
(* a member, and its pairing is closed only when it holds the vault.  None *)
(* of it is ever taken back.                                               *)
(***************************************************************************)
CONSTANTS Joiner,      \* the devices that ask to join
          Transcript,  \* what a joiner and an approver may agree on
          NoTranscript

VARIABLES agreed,   \* by joiner, the transcript both users confirmed
          sent,     \* the joiners whose keys were sent
          member,   \* the joiners the membership chain enrols
          holder,   \* the joiners that installed the vault
          closed    \* the joiners whose pairing is closed

vars == <<agreed, sent, member, holder, closed>>

Init ==
  /\ agreed = [j \in Joiner |-> NoTranscript]
  /\ sent = {} /\ member = {} /\ holder = {} /\ closed = {}

Agree(j) ==
  /\ agreed[j] = NoTranscript
  /\ \E t \in Transcript : agreed' = [agreed EXCEPT ![j] = t]
  /\ UNCHANGED <<sent, member, holder, closed>>

Send(j) ==
  /\ agreed[j] # NoTranscript
  /\ sent' = sent \cup {j}
  /\ UNCHANGED <<agreed, member, holder, closed>>

Admit(j) ==
  /\ j \in sent
  /\ member' = member \cup {j}
  /\ UNCHANGED <<agreed, sent, holder, closed>>

Hold(j) ==
  /\ j \in member
  /\ holder' = holder \cup {j}
  /\ UNCHANGED <<agreed, sent, member, closed>>

Close(j) ==
  /\ j \in holder
  /\ closed' = closed \cup {j}
  /\ UNCHANGED <<agreed, sent, member, holder>>

Next == \E j \in Joiner : Agree(j) \/ Send(j) \/ Admit(j) \/ Hold(j) \/ Close(j)

Spec == Init /\ [][Next]_vars
=============================================================================
