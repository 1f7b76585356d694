---------------------------- MODULE MCMailQueue ----------------------------
(* Small instances of MailQueue for TLC. *)
EXTENDS MailQueueService, TLC

CONSTANTS a, b, c, x, y

\* Both mails carry the same text.
SameText == [i \in Id |-> x]

\* a and b carry the same text, c another one.
TwoTexts == [i \in Id |-> IF i = c THEN y ELSE x]

\* Mails of the same text are interchangeable.
SameTextSymmetry == Permutations(Id)

=============================================================================
