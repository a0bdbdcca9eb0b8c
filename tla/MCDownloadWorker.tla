-------------------------- MODULE MCDownloadWorker --------------------------
(* Sizes of archives, and jobs, for model-checking DownloadWorker. *)
EXTENDS DownloadWorker

\* The size of the first is not announced.
OneUnknown == <<0, 1>>
Short      == <<1, 1>>
OneMod     == <<1>>

\* Both, or the one that is announced.
Some       == {<<1, 2>>, <<2>>}
Only       == {<<1>>}
=============================================================================
