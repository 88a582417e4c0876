----------------------------- MODULE MCKmalloc ------------------------------
(* Four frames shared by two caches and by requests of one to four pages.  *)
EXTENDS Kmalloc
=============================================================================
