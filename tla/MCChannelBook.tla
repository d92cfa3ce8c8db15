--------------------------- MODULE MCChannelBook ---------------------------
(* ChannelBook with the values of MCChannelBook.cfg. *)
EXTENDS ChannelBook
=============================================================================
