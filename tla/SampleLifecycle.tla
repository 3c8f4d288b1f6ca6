--------------------------- MODULE SampleLifecycle ---------------------------
(***************************************************************************)
(* What the sample table promises of one content, whatever the order in    *)
(* which providers offer it: it is stored once, keeps the label it was     *)
(* stored with, gains its features once, and quarantine is final.          *)
(***************************************************************************)
EXTENDS Integers

CONSTANT Contents

NoLabel == -1
Lives == {"unknown", "stored", "featured", "quarantined"}

VARIABLES life, label

Init ==
  /\ life = [c \in Contents |-> "unknown"]
  /\ label = [c \in Contents |-> NoLabel]

\* A validated download enters the table.
Store(c, l) ==
  /\ life[c] = "unknown"
  /\ life' = [life EXCEPT ![c] = "stored"]
  /\ label' = [label EXCEPT ![c] = l]

Feature(c) ==
  /\ life[c] = "stored"
  /\ life' = [life EXCEPT ![c] = "featured"]
  /\ UNCHANGED label

\* A content that was never accepted is remembered so that it is not fetched again.
Refuse(c, l) ==
  /\ life[c] = "unknown"
  /\ life' = [life EXCEPT ![c] = "quarantined"]
  /\ label' = [label EXCEPT ![c] = l]

Quarantine(c) ==
  /\ life[c] = "stored"
  /\ life' = [life EXCEPT ![c] = "quarantined"]
  /\ UNCHANGED label

\* Local benign files are stored together with their features.
Import(S) ==
  /\ \A c \in S : life[c] = "unknown"
  /\ life' = [c \in Contents |-> IF c \in S THEN "featured" ELSE life[c]]
  /\ label' = [c \in Contents |-> IF c \in S THEN 0 ELSE label[c]]

Next ==
  \/ \E c \in Contents, l \in 0..1 : Store(c, l) \/ Refuse(c, l)
  \/ \E c \in Contents : Feature(c) \/ Quarantine(c)
  \/ \E S \in SUBSET Contents : Import(S)

Spec == Init /\ [][Next]_<<life, label>>
=============================================================================
