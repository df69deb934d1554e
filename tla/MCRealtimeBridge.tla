-------------------------- MODULE MCRealtimeBridge --------------------------
(* Instances of RealtimeBridge for TLC. *)
EXTENDS RealtimeBridge

CONSTANTS phone, laptop, alice, notes, x

\* Two devices of one actor, and her notes.
Alice == [c \in Clients |-> alice]
Owned == [a \in {alice} |-> {notes}]

\* The phone comes and goes, the laptop connects once.
Dials == [c \in Clients |-> IF c = phone THEN 2 ELSE 1]

\* The phone watches the notes from the start.
Notes == [c \in Clients |-> IF c = phone THEN {notes} ELSE {}]

\* The phone stops watching and watches again.
Toggles == [c \in Clients |-> IF c = phone THEN 2 ELSE 0]

\* Each device publishes once.
Each == <<laptop, phone>>

InNotes == [id \in Ids |-> {notes}]
=============================================================================
