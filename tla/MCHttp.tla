------------------------------- MODULE MCHttp -------------------------------
(* A small instance of HttpServer: one method it knows and one it does not, or *)
(* two actions.                                                                *)
EXTENDS HttpServer

CONSTANTS r1, r2, a, b
=============================================================================
