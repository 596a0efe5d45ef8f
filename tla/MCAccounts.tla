----------------------------- MODULE MCAccounts -----------------------------
(* The instance of Accounts that TLC checks: two sessions of the one thread*)
(* server.cpp starts, and two accounts.  Scores have 3 bits: a new user has*)
(* 2, a game moves 3, so that a score passes both ends of the signed and   *)
(* unsigned ranges.  The first piece of an advertisement is one unit,      *)
(* unless the buffer has grown before.                                     *)
EXTENDS Accounts, TLC

CONSTANTS p1, p2, name1, text1, c1, c2, n1, n2, n3

\* An account with one spelling, and one with all the others.
MCKeyOf == [n \in Names |-> IF n = n3 THEN c2 ELSE c1]

MCValues == {Empty, Newcomer, p1, p2, name1, text1}

Message(name, pwd, email, phone, head) ==
    [user_name |-> name, password |-> pwd, email |-> email, phone |-> phone,
     head_photo |-> head]

\* All columns, with an empty password; a password alone, with an empty image.
MCUpdates == {Message(name1, Empty, text1, text1, text1)}
               \cup {Message(Newcomer, pwd, Absent, Absent, Empty) : pwd \in Passwords}

MCImageSize == <<2, 1>>

Symmetry == Permutations(Sessions) \cup Permutations(Passwords)
              \cup Permutations(Names \ {n3})
=============================================================================
