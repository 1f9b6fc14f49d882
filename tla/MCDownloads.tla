----------------------------- MODULE MCDownloads -----------------------------
(***************************************************************************)
(* Downloads of two parts: what comes can stop at the start, in between or *)
(* at the end.  Two of them: a list of two paks, a pak and a patch, or one *)
(* behind one that was given up; the third would find nothing new.  One    *)
(* connect from the console, at any time.                                  *)
(***************************************************************************)
EXTENDS Downloads
=============================================================================
