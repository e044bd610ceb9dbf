---------------------------- MODULE MCHttpServer ----------------------------
(* Two connection records, two worker threads, three peers.                *)
EXTENDS HttpServer

=============================================================================
