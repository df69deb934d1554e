------------------------------ MODULE MCIngest ------------------------------
(***************************************************************************)
(* Instances of Ingest for TLC.  f is a Follow of ann that carries no       *)
(* addressing; g a Follow of bob, public, for a remote actor, bob and ann;  *)
(* n is a public Create for both, posted to each of their inboxes; z names *)
(* nobody local; o is a Create for ann that its actor did not sign.  All    *)
(* but n are posted to the sharedInbox.                                    *)
(***************************************************************************)
EXTENDS Ingest

CONSTANTS ann, bob, carl, note, f, g, n, o, z

Nowhere == [to |-> <<>>, cc |-> <<>>, bto |-> <<>>, bcc |-> <<>>, audience |-> <<>>]

Fields ==
    [a \in Activities |->
        CASE a = f -> Nowhere
          [] a = g -> [Nowhere EXCEPT !.to = <<Public>>, !.cc = <<carl, bob>>, !.audience = <<bob, ann>>]
          [] a = n -> [Nowhere EXCEPT !.to = <<Public, ann>>, !.bto = <<bob>>, !.bcc = <<ann, NoId>>]
          [] a = o -> [Nowhere EXCEPT !.cc = <<ann>>]
          [] a = z -> [Nowhere EXCEPT !.audience = <<carl>>]]

Objects ==
    [a \in Activities |-> CASE a = f -> ann [] a = g -> bob [] a \in {n, o} -> note [] a = z -> NoId]
=============================================================================
