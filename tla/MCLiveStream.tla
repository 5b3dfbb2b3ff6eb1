---------------------------- MODULE MCLiveStream ----------------------------
(***************************************************************************)
(* One connection, used again and again, and two requests at once, with a  *)
(* buffer of one event: enough for a full buffer, two broadcasts under the *)
(* read lock, a reader that leaves in the middle of one, and a stream      *)
(* hidden while a request is under way.                                    *)
(***************************************************************************)
EXTENDS LiveStream
=============================================================================
