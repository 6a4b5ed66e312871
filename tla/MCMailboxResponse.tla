-------------------------- MODULE MCMailboxResponse --------------------------
(* Small instance of MailboxResponse for TLC.                               *)
EXTENDS MailboxResponse, TLC

\* A checksum word and two data words; bytes of 0 and 1.
MCPayload == << <<1, 1, 0, 0>>, <<0, 1, 1, 0>>, <<1, 1, 1, 1>> >>
\* No data, the checksum alone, two words and a half.
MCDlens == {0, 4, 10}

Symmetry == Permutations(Bases) \cup Permutations(Vars) \cup Permutations(Results)
=============================================================================
