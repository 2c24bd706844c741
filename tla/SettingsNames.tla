--------------------------- MODULE SettingsNames ---------------------------
(***************************************************************************)
(* What the coordinator and the participants of a settings transaction     *)
(* call the same thing by.                                                 *)
(***************************************************************************)
CONSTANTS
  Epochs,       \* identities of coordinator incarnations (128 random bits)
  Generations,  \* settings generations (content digests)
  Sequences,    \* the transaction numbers a client may send
  NoRequest     \* m_request is empty
=============================================================================
