--------------------------- MODULE MCSealedOutbox ---------------------------
(* An instance of SealedOutbox for TLC: every document has an id of its own. *)
EXTENDS SealedOutbox

CONSTANTS x, y

TwoIds == <<x, y>>
=============================================================================
