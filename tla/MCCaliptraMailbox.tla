-------------------------- MODULE MCCaliptraMailbox --------------------------
(* Small instance of CaliptraMailbox for TLC.                               *)
EXTENDS CaliptraMailbox

\* A mailbox of one word.  Request lengths: a partial word, a word, too long;
\* counts: no word (too short to execute), one, and one that is too long.
MCMailboxSize == 4
MCReqLens == {3, 5}
MCReqCounts == 0..2
\* Buffers of 1 word (no room for the header) and of 2 words.
MCRespCounts == 1..2
\* No data, and a partial third word, past the largest buffer.
MCRespDlens == {0, 9}
=============================================================================
